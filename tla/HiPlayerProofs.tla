--------------------------- MODULE HiPlayerProofs ---------------------------
(***************************************************************************)
(* Theorems about HiPlayer: while a seek moves the demuxer plug-in, the     *)
(* demuxer's thread rests; and when Stop has returned, that thread is gone   *)
(* and the sink is not in use.  For any number of calls, frames and failures. *)
(***************************************************************************)
EXTENDS HiPlayer, SequenceTheorems, TLAPS

C == prog["client"]
D == prog["demux"]

FilterLists == {<<>>, <<"source", "demuxer">>, <<"source", "demuxer", "sink">>,
                <<"sink", "source", "demuxer">>}
-----------------------------------------------------------------------------
(* Programs.                                                                *)

(* What a thread has to do is a sequence.                                   *)
Program(p) == \E S : p \in Seq(S)

\* Programs of at most two steps, their lengths and their steps.
LEMMA ShortPrograms ==
    /\ Program(<<>>) /\ Len(<<>>) = 0
    /\ \A s : Program(<<s>>) /\ Len(<<s>>) = 1 /\ <<s>>[1] = s
    /\ \A s, u : Program(<<s, u>>) /\ Len(<<s, u>>) = 2 /\ <<s, u>>[1] = s /\ <<s, u>>[2] = u
  <1>1. ASSUME NEW s PROVE Program(<<s>>) /\ Len(<<s>>) = 1 /\ <<s>>[1] = s
    <2>1. <<s>> \in Seq({s})
      OBVIOUS
    <2> QED
      BY <2>1 DEF Program
  <1>2. ASSUME NEW s, NEW u
        PROVE  Program(<<s, u>>) /\ Len(<<s, u>>) = 2 /\ <<s, u>>[1] = s /\ <<s, u>>[2] = u
    <2>1. <<s, u>> \in Seq({s, u})
      OBVIOUS
    <2> QED
      BY <2>1 DEF Program
  <1>3. <<>> \in Seq({})
    OBVIOUS
  <1> QED
    BY <1>1, <1>2, <1>3 DEF Program

\* The same for three and four steps.
LEMMA LongerPrograms ==
    /\ \A s, u, v : /\ Program(<<s, u, v>>) /\ Len(<<s, u, v>>) = 3
                    /\ <<s, u, v>>[1] = s /\ <<s, u, v>>[2] = u /\ <<s, u, v>>[3] = v
    /\ \A s, u, v, w : /\ Program(<<s, u, v, w>>) /\ Len(<<s, u, v, w>>) = 4
                       /\ <<s, u, v, w>>[1] = s /\ <<s, u, v, w>>[2] = u
                       /\ <<s, u, v, w>>[3] = v /\ <<s, u, v, w>>[4] = w
  <1>1. ASSUME NEW s, NEW u, NEW v
        PROVE  /\ Program(<<s, u, v>>) /\ Len(<<s, u, v>>) = 3
               /\ <<s, u, v>>[1] = s /\ <<s, u, v>>[2] = u /\ <<s, u, v>>[3] = v
    <2>1. <<s, u, v>> \in Seq({s, u, v})
      OBVIOUS
    <2> QED
      BY <2>1 DEF Program
  <1>2. ASSUME NEW s, NEW u, NEW v, NEW w
        PROVE  /\ Program(<<s, u, v, w>>) /\ Len(<<s, u, v, w>>) = 4
               /\ <<s, u, v, w>>[1] = s /\ <<s, u, v, w>>[2] = u
               /\ <<s, u, v, w>>[3] = v /\ <<s, u, v, w>>[4] = w
    <2>1. <<s, u, v, w>> \in Seq({s, u, v, w})
      OBVIOUS
    <2> QED
      BY <2>1 DEF Program
  <1> QED
    BY <1>1, <1>2

\* The head and the tail of a program.
LEMMA ProgramElements ==
    ASSUME NEW p, Program(p)
    PROVE  /\ Len(p) \in Nat /\ DOMAIN p = 1..Len(p)
           /\ p = <<>> <=> Len(p) = 0
           /\ p # <<>> => Head(p) = p[1] /\ Len(p) >= 1 /\ Program(Tail(p))
           /\ p # <<>> => Len(Tail(p)) = Len(p) - 1 /\ \A i \in 1..(Len(p) - 1) : Tail(p)[i] = p[i + 1]
           /\ <<>> \o p = p
  <1>1. PICK S : p \in Seq(S)
    BY DEF Program
  <1>2. p # <<>> => Tail(p) \in Seq(S)
    BY <1>1
  <1> QED
    BY <1>1, <1>2 DEF Program

(* A thread does q instead of the first step of p.                          *)
LEMMA ThenElements ==
    ASSUME NEW p, Program(p), p # <<>>, NEW q, Program(q)
    PROVE  /\ Program(q \o Tail(p)) /\ Len(q \o Tail(p)) = Len(q) + Len(p) - 1
           /\ Len(q) \in Nat /\ Len(p) \in Nat /\ Len(p) >= 1 /\ Head(p) = p[1]
           /\ \A i \in 1..Len(q) : (q \o Tail(p))[i] = q[i]
           /\ \A i \in 1..(Len(q) + Len(p) - 1) : i > Len(q) => (q \o Tail(p))[i] = p[i - Len(q) + 1]
  <1>1. PICK R : p \in Seq(R)
    BY DEF Program
  <1>2. PICK S : q \in Seq(S)
    BY DEF Program
  <1>3. p \in Seq(R \cup S) /\ q \in Seq(R \cup S)
    BY <1>1, <1>2
  <1>4. Tail(p) \in Seq(R \cup S) /\ Len(Tail(p)) = Len(p) - 1 /\ Len(p) >= 1 /\ Head(p) = p[1]
    BY <1>3
  <1>5. \A i \in 1..(Len(p) - 1) : Tail(p)[i] = p[i + 1]
    BY <1>3
  <1>6. q \o Tail(p) \in Seq(R \cup S) /\ Len(q \o Tail(p)) = Len(q) + Len(p) - 1
    BY <1>3, <1>4
  <1>7. \A i \in 1..Len(q) : (q \o Tail(p))[i] = q[i]
    BY <1>3, <1>4
  <1>8. ASSUME NEW i \in 1..(Len(q) + Len(p) - 1), i > Len(q)
        PROVE  (q \o Tail(p))[i] = p[i - Len(q) + 1]
    <2>1. (q \o Tail(p))[i] = Tail(p)[i - Len(q)]
      BY <1>3, <1>4, <1>8
    <2>2. i - Len(q) \in 1..(Len(p) - 1)
      BY <1>3, <1>4, <1>8
    <2> QED
      BY <1>5, <2>1, <2>2
  <1> QED
    BY <1>3, <1>4, <1>6, <1>7, <1>8 DEF Program

(* Before a step of T there are only steps of V, and the state x is in X or a
   step of M comes first that will see to it.                               *)
Guarded(p, T, V, M, x, X) ==
    \A k \in 1..Len(p) : p[k] \in T =>
        /\ \A j \in 1..(k - 1) : p[j] \in V
        /\ x \in X \/ \E j \in 1..(k - 1) : p[j] \in M

\* A program stays guarded when the steps q replace its first one (Then).
LEMMA GuardedThen ==
    ASSUME NEW p, Program(p), p # <<>>, NEW q, Program(q), NEW T, NEW V, NEW M, NEW X,
           NEW x, NEW y, Guarded(p, T, V, M, x, X), Guarded(q, T, V, M, y, X),
           Head(p) \in V =>
              /\ \A i \in 1..Len(q) : q[i] \in V
              /\ x \in X \/ Head(p) \in M => y \in X \/ \E i \in 1..Len(q) : q[i] \in M
    PROVE  Guarded(q \o Tail(p), T, V, M, y, X)
  <1> DEFINE r == q \o Tail(p)
             n == Len(q)
  <1>1. /\ Program(r) /\ Len(r) = n + Len(p) - 1
        /\ n \in Nat /\ Len(p) \in Nat /\ Len(p) >= 1 /\ Head(p) = p[1]
        /\ \A i \in 1..n : r[i] = q[i]
        /\ \A i \in 1..(n + Len(p) - 1) : i > n => r[i] = p[i - n + 1]
    BY ThenElements
  <1> HIDE DEF r
  <1> SUFFICES ASSUME NEW k \in 1..Len(r), r[k] \in T
               PROVE  /\ \A j \in 1..(k - 1) : r[j] \in V
                      /\ y \in X \/ \E j \in 1..(k - 1) : r[j] \in M
    BY DEF Guarded, r
  <1>2. CASE k <= n
    <2>1. k \in 1..n /\ q[k] \in T
      BY <1>1, <1>2
    <2>2. /\ \A j \in 1..(k - 1) : q[j] \in V
          /\ y \in X \/ \E j \in 1..(k - 1) : q[j] \in M
      BY <2>1 DEF Guarded
    <2>3. \A j \in 1..(k - 1) : j \in 1..n /\ r[j] = q[j]
      BY <1>1, <2>1
    <2> QED
      BY <2>2, <2>3
  <1>3. CASE k > n
    <2> DEFINE m == k - n + 1
    <2>1. m \in 1..Len(p) /\ m >= 2 /\ p[m] \in T
      BY <1>1, <1>3
    <2>2. /\ \A j \in 1..(m - 1) : p[j] \in V
          /\ x \in X \/ \E j \in 1..(m - 1) : p[j] \in M
      BY <2>1 DEF Guarded
    <2>3. Head(p) \in V
      BY <1>1, <2>1, <2>2
    <2>4. \A j \in 1..(k - 1) : j <= n \/ (j > n /\ j - n + 1 \in 1..(m - 1) /\ r[j] = p[j - n + 1])
      BY <1>1, <1>3
    <2>5. ASSUME NEW j \in 1..(k - 1) PROVE r[j] \in V
      <3>1. CASE j <= n
        <4>1. j \in 1..n /\ r[j] = q[j]
          BY <1>1, <3>1
        <4> QED
          BY <2>3, <4>1
      <3>2. CASE j > n
        BY <1>1, <2>2, <2>4, <3>2
      <3> QED
        BY <1>1, <3>1, <3>2
    <2>6. CASE x \in X \/ Head(p) \in M
      <3>1. y \in X \/ \E i \in 1..n : q[i] \in M
        BY <2>3, <2>6
      <3>2. \A i \in 1..n : i \in 1..(k - 1) /\ r[i] = q[i]
        BY <1>1, <1>3
      <3> QED
        BY <2>5, <3>1, <3>2
    <2>7. CASE ~(x \in X \/ Head(p) \in M)
      <3>1. PICK j \in 1..(m - 1) : p[j] \in M
        BY <2>2, <2>7
      <3>2. j # 1
        BY <1>1, <2>7, <3>1
      <3>3. j + n - 1 \in 1..(k - 1) /\ j + n - 1 > n /\ (j + n - 1) - n + 1 = j
        BY <1>1, <2>1, <3>1, <3>2
      <3>4. j + n - 1 > n => r[j + n - 1] = p[j]
        BY <1>1, <1>3, <3>3
      <3>5. r[j + n - 1] \in M
        BY <3>1, <3>3, <3>4
      <3> QED
        BY <2>5, <3>3, <3>5
    <2> QED
      BY <2>6, <2>7
  <1> QED
    BY <1>1, <1>2, <1>3

(* The other forms of a program.                                            *)
LEMMA GuardedNone ==
    ASSUME NEW q, NEW T, NEW V, NEW M, NEW X, NEW y,
           \A i \in 1..Len(q) : q[i] \notin T
    PROVE  Guarded(q, T, V, M, y, X)
  BY DEF Guarded

\* A guarded program stays so while what guards it stays.
LEMMA GuardedSame ==
    ASSUME NEW p, NEW T, NEW V, NEW M, NEW X, NEW x, NEW y,
           Guarded(p, T, V, M, x, X), x \in X => y \in X
    PROVE  Guarded(p, T, V, M, y, X)
  BY DEF Guarded

(* One step for every filter, the last one first.                           *)
LEMMA ForFiltersIs ==
    ASSUME NEW op
    PROVE  /\ core.filters = <<>> => ForFilters(op) = <<>>
           /\ core.filters = <<"source", "demuxer">> =>
                 ForFilters(op) = <<<<op, "demuxer">>, <<op, "source">>>>
           /\ core.filters = <<"source", "demuxer", "sink">> =>
                 ForFilters(op) = <<<<op, "sink">>, <<op, "demuxer">>, <<op, "source">>>>
           /\ core.filters = <<"sink", "source", "demuxer">> =>
                 ForFilters(op) = <<<<op, "demuxer">>, <<op, "source">>, <<op, "sink">>>>
  <1>1. ASSUME core.filters = <<"source", "demuxer">>
        PROVE  ForFilters(op) = <<<<op, "demuxer">>, <<op, "source">>>>
    BY <1>1 DEF ForFilters, Reverse
  <1>2. ASSUME core.filters = <<"source", "demuxer", "sink">>
        PROVE  ForFilters(op) = <<<<op, "sink">>, <<op, "demuxer">>, <<op, "source">>>>
    BY <1>2 DEF ForFilters, Reverse
  <1>3. ASSUME core.filters = <<"sink", "source", "demuxer">>
        PROVE  ForFilters(op) = <<<<op, "demuxer">>, <<op, "source">>, <<op, "sink">>>>
    BY <1>3 DEF ForFilters, Reverse
  <1>4. ASSUME core.filters = <<>> PROVE ForFilters(op) = <<>>
    BY <1>4 DEF ForFilters, Reverse
  <1> QED
    BY <1>1, <1>2, <1>3, <1>4
-----------------------------------------------------------------------------
(* Types.                                                                   *)

Filters == {"source", "demuxer", "sink"}

FilterOps == {"prepare", "start", "pause", "resume", "stop", "flushStart", "flushEnd"}

BareOps == {"init", "setSource", "corePrepare", "coreUnlock", "coreStart", "corePause", "coreResume",
            "coreRunning", "coreStop", "coreRemove", "stopTask", "taskStart", "taskPause", "taskStop",
            "join", "unlink", "wake", "resumed", "seekTo", "failed", "awaitReady", "waiting",
            "countReset"}

(* A step of the client has an argument that fits it.                       *)
WordOk(s) ==
    /\ s = <<s[1], s[2]>>
    /\ s[1] \in BareOps => s[2] = ""
    /\ s[1] \in FilterOps => s[2] \in Filters
    /\ s[1] = "await" => s[2] \in SUBSET {"PAUSED", "STOPPED"}
    /\ s[1] = "coreFlush" => s[2] \in {"flushStart", "flushEnd"}
    /\ s[1] = "setState" => s[2] # "IDLE"
    /\ s[1] = "ready" => s[2] = "source"

WordsOk(p) == \A k \in 1..Len(p) : WordOk(p[k])

Rounds == {"top", "check", "paused"}

DemuxOps == Rounds \cup {"loop", "push", "pauseAsync", "event", "addSink", "negotiate", "parsed",
                         "ready", "count", "countReset", "block", "evaluate", "sleep", "asleep",
                         "write"}

(* The demuxer's thread goes round; a round ends with the check.            *)
DemuxWords(p) ==
    /\ \A i \in 1..Len(p) : p[i][1] \in DemuxOps /\ (i < Len(p) <=> p[i][1] \notin Rounds)
    /\ Len(p) > 1 => p[Len(p)][1] = "check"

TaskStates == {"STARTED", "PAUSING", "PAUSED", "STOPPING", "STOPPED"}

Typed ==
    /\ prog = [t \in Threads |-> prog[t]]
    /\ Program(C) /\ WordsOk(C)
    /\ Program(D) /\ DemuxWords(D)
    /\ task \in [state : TaskStates, thread : BOOLEAN]
    /\ DOMAIN demuxer = {"plugin", "tracks", "linked", "left"}
    /\ demuxer.linked \in BOOLEAN
    /\ DOMAIN sink = {"state", "flushing", "blocking"} /\ sink.blocking \in BOOLEAN
    /\ DOMAIN core = {"state", "filters", "ready", "mutex", "toRemove"}
    /\ core.filters \in FilterLists /\ core.toRemove \in {{}, {"sink"}}
    /\ DOMAIN player = {"state", "known"}

(* Before Init the pipeline is empty, and nothing happens but SetSource.    *)
Begun ==
    /\ core.filters = <<>> => player.state = "IDLE" /\ D = <<>> /\ (C = <<>> \/ At("client", "init"))
    /\ \A k \in 1..Len(C) : C[k][1] = "init" =>
          k = 1 /\ core.filters = <<>> /\ Len(C) = 2 /\ C[2][1] = "setSource"
    /\ player.state = "IDLE" =>
          core.filters = <<>> \/ At("client", "setSource") \/ At("client", "setState")

\* The initial state, of PathInit and of a player before SetSource, is typed.
LEMMA InitTyped ==
    ASSUME Init
    PROVE  Typed /\ Begun
  <1>1. C = <<>> /\ D = <<>> /\ prog = [t \in Threads |-> prog[t]]
    BY DEF Init, PathInit, C, D, Threads
  <1> QED
    BY <1>1, ShortPrograms
    DEF Init, PathInit, Typed, Begun, WordsOk, DemuxWords, FilterLists, TaskStates
-----------------------------------------------------------------------------
(* What a step of the client does, by its name.                             *)

Calm == {"PAUSED", "STOPPED"}

(* To the task of the demuxer and its thread.                               *)
TaskEffect(s) ==
    /\ s[1] = "taskStart" => /\ task' = [state |-> "STARTED", thread |-> TRUE]
                             /\ D' = IF task.thread THEN D ELSE <<<<"top", "">>>>
    /\ s[1] \in {"taskPause", "pauseAsync"} =>
          task' = IF task.state = "STARTED" THEN [task EXCEPT !.state = "PAUSING"] ELSE task
    /\ s[1] = "taskStop" => task' = IF task.state = "STOPPED" THEN task
                                    ELSE [task EXCEPT !.state = "STOPPING"]
    /\ s[1] = "join" => task' = [task EXCEPT !.thread = FALSE] /\ D = <<>>
    /\ s[1] \notin {"taskStart", "taskPause", "pauseAsync", "taskStop", "join"} => task' = task
    /\ s[1] # "taskStart" =>
          \/ D' = D
          \/ At("demux", "asleep") /\ sink.blocking /\ D' = <<<<"evaluate", Arg("demux")>>>> \o Tail(D)

Removed(fs) == RemoveFirstMatch(fs, LAMBDA f : f \in core.toRemove)

(* To the filters and the player.                                           *)
FilterEffect(s) ==
    /\ sink'.blocking = sink.blocking
    /\ sink'.state = sink.state \/ (s[1] \in {"prepare", "start", "pause", "resume", "stop"} /\ s[2] = "sink")
    /\ s[1] = "stop" /\ s[2] = "sink" => sink'.state = "INITIALIZED"
    /\ demuxer'.plugin = demuxer.plugin \/ (s[1] = "prepare" /\ s[2] = "demuxer")
    /\ s[1] = "prepare" /\ s[2] = "demuxer" => demuxer'.plugin # "FRAME"
    /\ core'.filters = core.filters \/ s[1] \in {"init", "corePrepare", "coreRemove"}
    /\ s[1] = "init" => core'.filters = <<"source", "demuxer">>
    /\ s[1] = "corePrepare" => core'.filters = Reordered(core.filters)
    /\ s[1] = "coreRemove" =>
          core'.filters = Removed(core.filters)
    /\ player'.state = player.state \/ s[1] \in {"setState", "failed", "event"}
    /\ s[1] = "setState" => player'.state = s[2]
    /\ s[1] = "failed" => player'.state = "ERROR"
    /\ s[1] = "event" => player'.state \in {"ERROR", "PREPARED", "COMPLETE"}

PlainOps == {"taskStart", "event", "count", "countReset", "ready", "wake", "resumed", "coreRunning",
             "coreUnlock", "prepare", "start", "pause", "resume", "flushEnd", "waiting", "awaitReady"}

ProperOps == {"taskPause", "taskStop", "await", "join", "wake", "seekTo", "stopTask", "coreStop",
              "coreFlush", "stop", "flushStart", "unlink", "coreRemove", "failed", "setState",
              "setSource", "init"}

(* To what it has still to do.                                              *)
ProgramEffect(s, q) ==
    /\ s[1] = "taskPause" =>
          \/ q = <<>> /\ task.state \in Calm
          \/ \E X \in SUBSET Calm : q = <<<<"await", X>>>>
    /\ s[1] = "taskStop" =>
          \/ q = <<>> /\ task.state = "STOPPED"
          \/ q = <<<<"await", {"STOPPED"}>>, <<"join", "">>>> /\ task.state # "STOPPED"
    /\ s[1] = "await" => q = <<>> /\ task.state \in s[2]
    /\ s[1] \in {"join", "wake", "seekTo", "unlink", "coreRemove", "setState", "init"} => q = <<>>
    /\ s[1] = "stopTask" =>
          \/ q = <<>> /\ demuxer.plugin = "FRAME"
          \/ q = <<<<"taskStop", "">>>> /\ demuxer.plugin # "FRAME"
    /\ s[1] = "coreStop" => q = ForFilters("stop") \o <<<<"coreRemove", "">>>>
    /\ s[1] = "coreFlush" => q = ForFilters(s[2])
    /\ s[1] = "stop" =>
          \/ s[2] = "source" /\ q = <<>>
          \/ s[2] = "demuxer" /\ q = <<<<"taskStop", "">>, <<"unlink", "">>>>
          \/ s[2] = "sink" /\ q = <<<<"wake", "">>>>
    /\ s[1] = "flushStart" =>
          \/ s[2] = "source" /\ q = <<>>
          \/ s[2] = "demuxer" /\ q = <<<<"taskPause", "">>>>
          \/ s[2] = "sink" /\ q = <<<<"wake", "">>>>
    /\ s[1] = "setSource" => \E x \in {"ERROR", "INITIALIZED"} : q = <<<<"setState", x>>>>
    /\ s[1] = "failed" =>
          \/ q = <<<<"setState", "STOPPED">>>> /\ call = "Stop"
          \/ call # "Stop" /\ (q = <<>> \/ \E x \in {"PREPARING", "PAUSED"} : q = <<<<"setState", x>>>>)
    /\ s[1] \notin ProperOps => \A i \in 1..Len(q) : q[i][1] \in PlainOps

(* To the program when it gives up.                                         *)
GivesUp(s) ==
    \/ C' = <<<<"failed", "">>>> /\ s[1] \in {"corePause", "prepare", "start", "resume", "resumed"}
    \/ C' = <<<<"failed", "">>>> /\ s[1] = "stop" /\ s[2] = "source"
    \/ C' = <<<<"coreFlush", "flushEnd">>>> /\ s[1] = "seekTo"

Effect(s) ==
    /\ C # <<>> /\ s = Head(C) /\ WordOk(s)
    /\ prog' = [t \in Threads |-> prog'[t]]
    /\ TaskEffect(s) /\ FilterEffect(s)
    /\ \/ \E q : /\ Program(q) /\ WordsOk(q)
                 /\ C' = q \o Tail(C) /\ ProgramEffect(s, q)
       \/ GivesUp(s) /\ D' = D /\ task' = task
    /\ call' = call

\* The forms of prog'.
LEMMA ThenIs ==
    ASSUME Typed, NEW q, Then("client", q)
    PROVE  C' = q \o Tail(C) /\ D' = D /\ prog' = [t \in Threads |-> prog'[t]]
  BY DEF Typed, Then, C, D, Threads

\* Fail leaves the client with nothing but the error to report.
LEMMA FailIs ==
    ASSUME Typed, Fail
    PROVE  C' = <<<<"failed", "">>>> /\ D' = D /\ prog' = [t \in Threads |-> prog'[t]]
  BY DEF Typed, Fail, C, D, Threads

\* The step the client is at is the first of its program.
LEMMA ClientAt ==
    ASSUME Typed, NEW op, At("client", op)
    PROVE  /\ C # <<>> /\ Head(C) = C[1] /\ WordOk(Head(C)) /\ Head(C)[1] = op
           /\ Arg("client") = Head(C)[2]
  <1>1. C # <<>> /\ Head(C) = C[1] /\ Len(C) >= 1 /\ Len(C) \in Nat
    BY ProgramElements DEF Typed, At, C
  <1>2. WordOk(C[1])
    BY <1>1 DEF Typed, WordsOk
  <1>3. Head(C)[1] = op /\ Arg("client") = Head(C)[2]
    BY DEF At, Arg, C
  <1> QED
    BY <1>1, <1>2, <1>3

\* The words of short programs.
LEMMA ShortWords ==
    /\ WordsOk(<<>>)
    /\ \A s : WordOk(s) => WordsOk(<<s>>)
    /\ \A s, u : WordOk(s) /\ WordOk(u) => WordsOk(<<s, u>>)
  BY ShortPrograms DEF WordsOk

USE DEF Calm

\* A step after which the thread goes on with the next.
LEMMA NextEffect ==
    ASSUME NEW s,
           \/ s[1] \notin {"taskPause", "taskStop", "await", "stopTask", "coreStop", "coreFlush", "stop",
                           "flushStart", "setSource", "failed"}
           \/ s[1] \in {"stop", "flushStart"} /\ s[2] = "source"
           \/ s[1] = "await" /\ task.state \in s[2]
           \/ s[1] = "failed" /\ call # "Stop"
    PROVE  ProgramEffect(s, <<>>)
  <1>1. \A i \in 1..Len(<<>>) : <<>>[i][1] \in PlainOps
    BY ShortPrograms
  <1>2. CASE s[1] \notin {"taskPause", "taskStop", "await", "stopTask", "coreStop", "coreFlush", "stop",
                           "flushStart", "setSource", "failed"}
    BY <1>1, <1>2 DEF ProgramEffect
  <1>3. CASE s[1] \in {"stop", "flushStart"} /\ s[2] = "source"
    BY <1>1, <1>3 DEF ProgramEffect
  <1>4. CASE s[1] = "await" /\ task.state \in s[2]
    BY <1>1, <1>4 DEF ProgramEffect
  <1>5. CASE s[1] = "failed" /\ call # "Stop"
    BY <1>1, <1>5 DEF ProgramEffect
  <1> QED
    BY <1>2, <1>3, <1>4, <1>5

\* A step after which the thread does something else first.
LEMMA PlainEffect ==
    ASSUME NEW s, s[1] \notin ProperOps, NEW q, \A i \in 1..Len(q) : q[i][1] \in PlainOps
    PROVE  ProgramEffect(s, q)
  BY DEF ProgramEffect, ProperOps

\* A step that puts q in its place and leaves the task alone.
LEMMA ThenEffect ==
    ASSUME Typed, NEW s, s = Head(C), C # <<>>, WordOk(s), UNCHANGED <<task, call>>,
           s[1] \notin {"taskStart", "taskPause", "pauseAsync", "taskStop", "join"},
           FilterEffect(s), NEW q, Then("client", q), Program(q), WordsOk(q), ProgramEffect(s, q)
    PROVE  Effect(s)
  <1>1. C' = q \o Tail(C) /\ D' = D /\ prog' = [t \in Threads |-> prog'[t]]
    BY ThenIs
  <1>2. TaskEffect(s)
    BY <1>1 DEF TaskEffect
  <1> QED
    BY <1>1, <1>2 DEF Effect

\* A step after which the call fails.
LEMMA FailEffect ==
    ASSUME Typed, NEW s, s = Head(C), C # <<>>, WordOk(s), UNCHANGED <<task, call>>,
           FilterEffect(s), Fail,
           \/ s[1] \in {"corePause", "prepare", "start", "resume", "resumed"}
           \/ s[1] = "stop" /\ s[2] = "source"
    PROVE  Effect(s)
  <1>1. C' = <<<<"failed", "">>>> /\ D' = D /\ prog' = [t \in Threads |-> prog'[t]]
    BY FailIs
  <1>2. TaskEffect(s)
    BY <1>1 DEF TaskEffect
  <1> QED
    BY <1>1, <1>2 DEF Effect, GivesUp

\* The task.
LEMMA TaskEffects ==
    ASSUME Typed, UNCHANGED <<player, call>>, NEW s, s = Head(C),
           \/ TaskStart("client") \/ TaskPause("client") \/ TaskStop("client")
           \/ Await("client") \/ Join("client") \/ PauseAsync("client") \/ WakePusher("client")
    PROVE  Effect(s)
  <1> USE ShortPrograms, ShortWords
  <1>1. CASE TaskStart("client")
    <2>1. C # <<>> /\ WordOk(s) /\ s[1] = "taskStart"
      BY <1>1, ClientAt DEF TaskStart
    <2>2. /\ C' = Tail(C) /\ prog' = [t \in Threads |-> prog'[t]]
          /\ D' = IF task.thread THEN D ELSE <<<<"top", "">>>>
      BY <1>1 DEF TaskStart, Typed, C, D, Threads
    <2>3. C' = <<>> \o Tail(C)
      BY <2>1, <2>2, ProgramElements DEF Typed
    <2>4. TaskEffect(s)
      BY <1>1, <2>1, <2>2 DEF TaskStart, TaskEffect
    <2>5. FilterEffect(s)
      BY <1>1, <2>1 DEF TaskStart, FilterEffect
    <2>6. ProgramEffect(s, <<>>)
      BY <2>1, NextEffect
    <2> QED
      BY <2>1, <2>2, <2>3, <2>4, <2>5, <2>6 DEF Effect
  <1>2. CASE TaskPause("client")
    <2>1. C # <<>> /\ WordOk(s) /\ s[1] = "taskPause"
      BY <1>2, ClientAt DEF TaskPause
    <2>2. \E q : /\ Then("client", q)
                 /\ \/ q = <<>> /\ task.state \in Calm
                    \/ \E X \in SUBSET Calm : q = <<<<"await", X>>>>
      <3>1. CASE task.state = "STARTED"
        BY <1>2, <3>1 DEF TaskPause
      <3>2. CASE task.state = "STOPPING"
        BY <1>2, <3>2 DEF TaskPause
      <3>3. CASE task.state = "PAUSING"
        BY <1>2, <3>3 DEF TaskPause
      <3>4. CASE task.state \in Calm
        BY <1>2, <3>4 DEF TaskPause
      <3> QED
        BY <3>1, <3>2, <3>3, <3>4 DEF Typed, TaskStates
    <2>3. PICK q : /\ Then("client", q)
                   /\ \/ q = <<>> /\ task.state \in Calm
                      \/ \E X \in SUBSET Calm : q = <<<<"await", X>>>>
      BY <2>2
    <2>4. Program(q) /\ WordsOk(q)
      <3>1. \A X \in SUBSET Calm : WordOk(<<"await", X>>)
        BY DEF WordOk, BareOps, FilterOps
      <3> QED
        BY <2>3, <3>1
    <2>5. C' = q \o Tail(C) /\ D' = D /\ prog' = [t \in Threads |-> prog'[t]]
      BY <2>3, ThenIs
    <2>6. TaskEffect(s)
      BY <1>2, <2>1, <2>5 DEF TaskPause, TaskEffect
    <2>7. FilterEffect(s)
      BY <1>2, <2>1 DEF TaskPause, FilterEffect
    <2>8. ProgramEffect(s, q)
      BY <2>1, <2>3 DEF ProgramEffect, ProperOps
    <2> QED
      BY <2>1, <2>4, <2>5, <2>6, <2>7, <2>8 DEF Effect
  <1>3. CASE TaskStop("client")
    <2>1. C # <<>> /\ WordOk(s) /\ s[1] = "taskStop"
      BY <1>3, ClientAt DEF TaskStop
    <2>2. PICK q : /\ Then("client", q)
                   /\ \/ q = <<>> /\ task.state = "STOPPED"
                      \/ q = <<<<"await", {"STOPPED"}>>, <<"join", "">>>> /\ task.state # "STOPPED"
      BY <1>3 DEF TaskStop
    <2>3. Program(q) /\ WordsOk(q)
      <3>1. WordOk(<<"await", {"STOPPED"}>>) /\ WordOk(<<"join", "">>)
        BY DEF WordOk, BareOps, FilterOps
      <3>2. /\ Program(<<<<"await", {"STOPPED"}>>, <<"join", "">>>>)
            /\ WordsOk(<<<<"await", {"STOPPED"}>>, <<"join", "">>>>)
        BY <3>1
      <3> QED
        BY <2>2, <3>2
    <2>4. C' = q \o Tail(C) /\ D' = D /\ prog' = [t \in Threads |-> prog'[t]]
      BY <2>2, ThenIs
    <2>5. TaskEffect(s)
      BY <1>3, <2>1, <2>4 DEF TaskStop, TaskEffect
    <2>6. FilterEffect(s)
      BY <1>3, <2>1 DEF TaskStop, FilterEffect
    <2>7. ProgramEffect(s, q)
      BY <2>1, <2>2 DEF ProgramEffect, ProperOps
    <2> QED
      BY <2>1, <2>3, <2>4, <2>5, <2>6, <2>7 DEF Effect
  <1>4. CASE Await("client")
    <2>1. C # <<>> /\ WordOk(s) /\ s[1] = "await" /\ task.state \in s[2]
      BY <1>4, ClientAt DEF Await
    <2>2. FilterEffect(s)
      BY <1>4, <2>1 DEF Await, FilterEffect
    <2>3. ProgramEffect(s, <<>>)
      BY <2>1, NextEffect
    <2>4. Then("client", <<>>) /\ task' = task
      BY <1>4 DEF Await
    <2> QED
      BY <2>1, <2>2, <2>3, <2>4, ThenEffect
  <1>5. CASE Join("client") \/ PauseAsync("client")
    <2>1. /\ C # <<>> /\ WordOk(s) /\ s[1] \in {"join", "pauseAsync"}
          /\ s[1] = "join" <=> Join("client")
      BY <1>5, ClientAt DEF Join, PauseAsync
    <2>2. FilterEffect(s)
      BY <1>5, <2>1 DEF Join, PauseAsync, FilterEffect
    <2>3. ProgramEffect(s, <<>>)
      BY <2>1, NextEffect
    <2>4. Then("client", <<>>)
      BY <1>5 DEF Join, PauseAsync
    <2>5. C' = <<>> \o Tail(C) /\ D' = D /\ prog' = [t \in Threads |-> prog'[t]]
      BY <2>4, ThenIs
    <2>6. TaskEffect(s)
      BY <1>5, <2>1, <2>5 DEF Join, PauseAsync, TaskEffect, D
    <2> QED
      BY <2>1, <2>2, <2>3, <2>5, <2>6 DEF Effect
  <1>6. CASE WakePusher("client")
    <2>1. C # <<>> /\ WordOk(s) /\ s[1] = "wake"
      BY <1>6, ClientAt DEF WakePusher
    <2>2. /\ C' = Tail(C) /\ prog' = [t \in Threads |-> prog'[t]]
          /\ \/ D' = D
             \/ At("demux", "asleep") /\ sink.blocking /\ D' = <<<<"evaluate", Arg("demux")>>>> \o Tail(D)
      BY <1>6 DEF WakePusher, Typed, C, D, Threads
    <2>3. C' = <<>> \o Tail(C)
      BY <2>1, <2>2, ProgramElements DEF Typed
    <2>4. TaskEffect(s)
      BY <1>6, <2>1, <2>2 DEF WakePusher, TaskEffect
    <2>5. FilterEffect(s)
      BY <1>6, <2>1 DEF WakePusher, FilterEffect
    <2>6. ProgramEffect(s, <<>>)
      BY <2>1, NextEffect
    <2> QED
      BY <2>1, <2>2, <2>3, <2>4, <2>5, <2>6 DEF Effect
  <1> QED
    BY <1>1, <1>2, <1>3, <1>4, <1>5, <1>6

\* The steps for the filters of a list.
LEMMA SpreadWords ==
    ASSUME NEW q, Program(q), NEW op \in FilterOps,
           \A i \in 1..Len(q) : \E f \in Filters : q[i] = <<op, f>>
    PROVE  WordsOk(q)
  <1>1. \A f \in Filters : WordOk(<<op, f>>)
    BY DEF WordOk, BareOps, FilterOps
  <1> QED
    BY <1>1 DEF WordsOk

\* A core operation becomes one step for each filter of the pipeline.
LEMMA Spread ==
    ASSUME core.filters \in FilterLists, NEW op
    PROVE  /\ Program(ForFilters(op))
           /\ \A i \in 1..Len(ForFilters(op)) : \E f \in Filters : ForFilters(op)[i] = <<op, f>>
  <1> USE ShortPrograms, LongerPrograms
  <1>1. CASE core.filters = <<>>
    BY <1>1, ForFiltersIs
  <1>2. CASE core.filters = <<"source", "demuxer">>
    BY <1>2, ForFiltersIs DEF Filters
  <1>3. CASE core.filters = <<"source", "demuxer", "sink">>
    BY <1>3, ForFiltersIs DEF Filters
  <1>4. CASE core.filters = <<"sink", "source", "demuxer">>
    BY <1>4, ForFiltersIs DEF Filters
  <1> QED
    BY <1>1, <1>2, <1>3, <1>4 DEF FilterLists

\* One step more.
LEMMA MoreSteps ==
    ASSUME NEW q, Program(q), NEW s
    PROVE  /\ Program(q \o <<s>>) /\ Len(q \o <<s>>) = Len(q) + 1 /\ Len(q) \in Nat
           /\ \A i \in 1..Len(q) : (q \o <<s>>)[i] = q[i]
           /\ (q \o <<s>>)[Len(q) + 1] = s
           /\ WordsOk(q) /\ WordOk(s) => WordsOk(q \o <<s>>)
           /\ (\A i \in 1..Len(q) : q[i][1] \in PlainOps) /\ s[1] \in PlainOps =>
                 \A i \in 1..Len(q \o <<s>>) : (q \o <<s>>)[i][1] \in PlainOps
  <1>1. PICK S : q \in Seq(S)
    BY DEF Program
  <1>2. q \in Seq(S \cup {s}) /\ <<s>> \in Seq(S \cup {s})
    BY <1>1
  <1>3. q \o <<s>> \in Seq(S \cup {s}) /\ Len(q \o <<s>>) = Len(q) + 1 /\ Len(q) \in Nat
    BY <1>2
  <1>4. \A i \in 1..Len(q) : (q \o <<s>>)[i] = q[i]
    BY <1>2
  <1>5. (q \o <<s>>)[Len(q) + 1] = s
    BY <1>2
  <1>6. \A i \in 1..(Len(q) + 1) : i \in 1..Len(q) \/ i = Len(q) + 1
    BY <1>3
  <1>7. WordsOk(q) /\ WordOk(s) => WordsOk(q \o <<s>>)
    BY <1>3, <1>4, <1>5, <1>6 DEF WordsOk
  <1>8. (\A i \in 1..Len(q) : q[i][1] \in PlainOps) /\ s[1] \in PlainOps =>
           \A i \in 1..Len(q \o <<s>>) : (q \o <<s>>)[i][1] \in PlainOps
    BY <1>3, <1>4, <1>5, <1>6
  <1> QED
    BY <1>3, <1>4, <1>5, <1>7, <1>8 DEF Program

\* The count of EVENT_READY.
LEMMA CountEffects ==
    ASSUME Typed, UNCHANGED <<player, call>>, NEW s, s = Head(C),
           Ready("client") \/ Count("client") \/ CountReset("client")
    PROVE  Effect(s)
  <1>1. CASE Ready("client")
    <2>1. C # <<>> /\ WordOk(s) /\ s[1] = "ready"
      BY <1>1, ClientAt DEF Ready
    <2>2. FilterEffect(s)
      BY <1>1, <2>1 DEF Ready, FilterEffect
    <2> DEFINE n == core.ready + 1
               q == <<<<"count", n>>>>
    <2>3. Then("client", q) /\ task' = task
      BY <1>1 DEF Ready
    <2> HIDE DEF n
    <2>4. WordOk(<<"count", n>>)
      BY DEF WordOk, BareOps, FilterOps
    <2>5. Program(q) /\ WordsOk(q) /\ Len(q) = 1 /\ q[1][1] = "count"
      BY <2>4, ShortPrograms, ShortWords
    <2> HIDE DEF q
    <2>6. ProgramEffect(s, q)
      <3>1. s[1] \notin ProperOps /\ \A i \in 1..Len(q) : q[i][1] \in PlainOps
        BY <2>1, <2>5 DEF ProperOps, PlainOps
      <3> QED
        BY <3>1, PlainEffect
    <2> QED
      BY <2>1, <2>2, <2>3, <2>5, <2>6, ThenEffect
  <1>2. CASE Count("client")
    <2>1. C # <<>> /\ WordOk(s) /\ s[1] = "count"
      BY <1>2, ClientAt DEF Count
    <2>2. FilterEffect(s)
      BY <1>2, <2>1 DEF Count, FilterEffect, Typed
    <2>3. task' = task
      BY <1>2 DEF Count
    <2>4. CASE Then("client", <<>>)
      BY <2>1, <2>2, <2>3, <2>4, NextEffect, ThenEffect, ShortPrograms, ShortWords
    <2>5. CASE Then("client", <<<<"event", "READY">>, <<"countReset", "">>>>)
      <3> DEFINE q == <<<<"event", "READY">>, <<"countReset", "">>>>
      <3>1. WordOk(<<"event", "READY">>) /\ WordOk(<<"countReset", "">>)
        BY DEF WordOk, BareOps, FilterOps
      <3>2. Program(q) /\ WordsOk(q) /\ Len(q) = 2 /\ q[1][1] = "event" /\ q[2][1] = "countReset"
        BY <3>1, ShortPrograms, ShortWords
      <3>3. Then("client", q)
        BY <2>5
      <3> HIDE DEF q
      <3>4. ProgramEffect(s, q)
        <4>1. s[1] \notin ProperOps /\ \A i \in 1..Len(q) : q[i][1] \in PlainOps
          BY <2>1, <3>2 DEF ProperOps, PlainOps
        <4> QED
          BY <4>1, PlainEffect
      <3> QED
        BY <2>1, <2>2, <2>3, <3>2, <3>3, <3>4, ThenEffect
    <2> QED
      BY <1>2, <2>4, <2>5 DEF Count
  <1>3. CASE CountReset("client")
    <2>1. C # <<>> /\ WordOk(s) /\ s[1] = "countReset"
      BY <1>3, ClientAt DEF CountReset
    <2>2. FilterEffect(s)
      BY <1>3, <2>1 DEF CountReset, FilterEffect, Typed
    <2>3. task' = task /\ Then("client", <<>>)
      BY <1>3 DEF CountReset
    <2> QED
      BY <2>1, <2>2, <2>3, NextEffect, ThenEffect, ShortPrograms, ShortWords
  <1> QED
    BY <1>1, <1>2, <1>3

TaskOps == {"taskStart", "taskPause", "pauseAsync", "taskStop", "join"}

\* A step that leaves nothing, or one plain step, in its place.
LEMMA NoMore ==
    ASSUME Typed, NEW s, s = Head(C), C # <<>>, WordOk(s), UNCHANGED <<task, call>>,
           s[1] \notin TaskOps, FilterEffect(s), Then("client", <<>>),
           \/ s[1] \notin {"await", "stopTask", "coreStop", "coreFlush", "stop", "flushStart",
                           "setSource", "failed"}
           \/ s[1] \in {"stop", "flushStart"} /\ s[2] = "source"
           \/ s[1] = "failed" /\ call # "Stop"
    PROVE  Effect(s)
  <1>1. ProgramEffect(s, <<>>)
    BY NextEffect DEF TaskOps
  <1> QED
    BY <1>1, ThenEffect, ShortPrograms, ShortWords DEF TaskOps

\* A step that only adds one plain step has no other effect.
LEMMA OneMore ==
    ASSUME Typed, NEW s, s = Head(C), C # <<>>, WordOk(s), UNCHANGED <<task, call>>,
           s[1] \notin TaskOps, s[1] \notin ProperOps, FilterEffect(s), NEW x, WordOk(x),
           x[1] \in PlainOps, Then("client", <<x>>)
    PROVE  Effect(s)
  <1>1. Program(<<x>>) /\ WordsOk(<<x>>) /\ \A i \in 1..Len(<<x>>) : <<x>>[i][1] \in PlainOps
    BY ShortPrograms, ShortWords
  <1>2. ProgramEffect(s, <<x>>)
    BY <1>1, PlainEffect
  <1> QED
    BY <1>1, <1>2, ThenEffect DEF TaskOps

\* PipelineCore::Prepare orders the filters again and loses none.
LEMMA ReorderedIs ==
    ASSUME core.filters \in FilterLists
    PROVE  /\ Reordered(core.filters) \in FilterLists
           /\ core.filters # <<>> => Reordered(core.filters) # <<>>
           /\ "sink" \in ToSet(Reordered(core.filters)) <=> "sink" \in ToSet(core.filters)
  <1>1. "sink" \in ToSet(<<"sink", "source", "demuxer">>)
    BY DEF ToSet
  <1> QED
    BY <1>1 DEF Reordered, FilterLists, ToSet

\* PipelineCore.
LEMMA PrepareEffects ==
    ASSUME Typed, UNCHANGED <<player, call>>, NEW s, s = Head(C), CorePrepare
    PROVE  Effect(s)
  <1>1. C # <<>> /\ WordOk(s) /\ s[1] = "corePrepare"
    BY ClientAt DEF CorePrepare
  <1>2. FilterEffect(s)
    BY <1>1 DEF CorePrepare, FilterEffect, Typed
  <1> DEFINE order == Reverse(Reordered(core.filters))
             a == [i \in DOMAIN order |-> <<"prepare", order[i]>>]
             q == a \o <<<<"coreUnlock", "">>>>
  <1>3. Then("client", q) /\ task' = task
    BY DEF CorePrepare
  <1>4. Reordered(core.filters) \in FilterLists
    BY ReorderedIs DEF Typed
  <1>5. Program(a) /\ \A i \in 1..Len(a) : \E f \in Filters : a[i] = <<"prepare", f>>
    <2> DEFINE fs == Reordered(core.filters)
    <2> HIDE DEF fs
    <2>1. CASE fs = <<>>
      <3>1. a = <<>>
        BY <2>1 DEF Reverse, fs
      <3> QED
        BY <3>1, ShortPrograms
    <2>2. CASE fs = <<"source", "demuxer">>
      <3>1. a = <<<<"prepare", "demuxer">>, <<"prepare", "source">>>>
        BY <2>2 DEF Reverse, fs
      <3> HIDE DEF a
      <3> QED
        BY <3>1, ShortPrograms DEF Filters
    <2>3. CASE fs = <<"source", "demuxer", "sink">>
      <3>1. a = <<<<"prepare", "sink">>, <<"prepare", "demuxer">>, <<"prepare", "source">>>>
        BY <2>3 DEF Reverse, fs
      <3> HIDE DEF a
      <3> QED
        BY <3>1, LongerPrograms DEF Filters
    <2>4. CASE fs = <<"sink", "source", "demuxer">>
      <3>1. a = <<<<"prepare", "demuxer">>, <<"prepare", "source">>, <<"prepare", "sink">>>>
        BY <2>4 DEF Reverse, fs
      <3> HIDE DEF a
      <3> QED
        BY <3>1, LongerPrograms DEF Filters
    <2> QED
      BY <1>4, <2>1, <2>2, <2>3, <2>4 DEF FilterLists, fs
  <1> HIDE DEF a
  <1>6. WordsOk(a)
    BY <1>5, SpreadWords DEF FilterOps
  <1>7. WordOk(<<"coreUnlock", "">>)
    BY DEF WordOk, BareOps, FilterOps
  <1>8. Program(q) /\ WordsOk(q)
    BY <1>5, <1>6, <1>7, MoreSteps
  <1>9. \A i \in 1..Len(q) : q[i][1] \in PlainOps
    <2>1. \A i \in 1..Len(a) : a[i][1] \in PlainOps
      BY <1>5 DEF PlainOps
    <2>2. <<"coreUnlock", "">>[1] \in PlainOps
      BY DEF PlainOps
    <2> QED
      BY <1>5, <2>1, <2>2, MoreSteps
  <1> HIDE DEF q
  <1>10. ProgramEffect(s, q)
    BY <1>1, <1>9, PlainEffect DEF ProperOps
  <1> QED
    BY <1>1, <1>2, <1>3, <1>8, <1>10, ThenEffect

\* The effect of the operations of PipelineCore after Prepare.
LEMMA CoreEffects ==
    ASSUME Typed, UNCHANGED <<player, call>>, NEW s, s = Head(C),
           \/ CoreUnlock \/ CoreStart \/ CorePause \/ CoreResume \/ CoreRunning
           \/ CoreStop \/ CoreRemove \/ CoreFlush
    PROVE  Effect(s)
  <1> DEFINE F(op) == ForFilters(op)
  <1>0. \A op : Program(F(op)) /\ \A i \in 1..Len(F(op)) : \E f \in Filters : F(op)[i] = <<op, f>>
    BY Spread DEF Typed
  <1> HIDE DEF F
  <1>a. \A op \in FilterOps : WordsOk(F(op))
    BY <1>0, SpreadWords
  <1>b. ASSUME NEW op \in {"start", "pause", "resume"}
        PROVE  \A i \in 1..Len(F(op)) : F(op)[i][1] \in PlainOps
    BY <1>0, <1>b DEF PlainOps
  <1>1. CASE CoreUnlock \/ CoreRunning
    <2>1. C # <<>> /\ WordOk(s) /\ s[1] \in {"coreUnlock", "coreRunning"}
      BY <1>1, ClientAt DEF CoreUnlock, CoreRunning
    <2>2. FilterEffect(s)
      BY <1>1, <2>1 DEF CoreUnlock, CoreRunning, FilterEffect, Typed
    <2>3. task' = task /\ Then("client", <<>>)
      BY <1>1 DEF CoreUnlock, CoreRunning
    <2> QED
      BY <2>1, <2>2, <2>3, NoMore DEF TaskOps
  <1>2. CASE CoreStart
    <2>1. C # <<>> /\ WordOk(s) /\ s[1] = "coreStart"
      BY <1>2, ClientAt DEF CoreStart
    <2>2. FilterEffect(s)
      BY <1>2, <2>1 DEF CoreStart, FilterEffect, Typed
    <2>3. task' = task /\ Then("client", F("start"))
      BY <1>2 DEF CoreStart, F
    <2>4. Program(F("start")) /\ WordsOk(F("start")) /\ ProgramEffect(s, F("start"))
      BY <1>0, <1>a, <1>b, <2>1, PlainEffect DEF ProperOps, FilterOps
    <2> QED
      BY <2>1, <2>2, <2>3, <2>4, ThenEffect
  <1>3. CASE CorePause
    <2>1. C # <<>> /\ WordOk(s) /\ s[1] = "corePause"
      BY <1>3, ClientAt DEF CorePause
    <2>2. FilterEffect(s)
      BY <1>3, <2>1 DEF CorePause, FilterEffect, Typed
    <2>3. task' = task /\ (Then("client", <<>>) \/ Then("client", F("pause")) \/ Fail)
      BY <1>3 DEF CorePause, F
    <2>4. Program(F("pause")) /\ WordsOk(F("pause")) /\ ProgramEffect(s, F("pause"))
      BY <1>0, <1>a, <1>b, <2>1, PlainEffect DEF ProperOps, FilterOps
    <2>5. CASE Then("client", <<>>)
      BY <2>1, <2>2, <2>3, <2>5, NoMore DEF TaskOps
    <2>6. CASE Then("client", F("pause"))
      BY <2>1, <2>2, <2>3, <2>4, <2>6, ThenEffect
    <2>7. CASE Fail
      BY <2>1, <2>2, <2>3, <2>7, FailEffect
    <2> QED
      BY <2>3, <2>5, <2>6, <2>7
  <1>4. CASE CoreResume
    <2>1. C # <<>> /\ WordOk(s) /\ s[1] = "coreResume"
      BY <1>4, ClientAt DEF CoreResume
    <2>2. FilterEffect(s)
      BY <1>4, <2>1 DEF CoreResume, FilterEffect, Typed
    <2> DEFINE q == F("resume") \o <<<<"coreRunning", "">>>>
    <2>3. task' = task /\ Then("client", q)
      BY <1>4 DEF CoreResume, F
    <2>4. WordOk(<<"coreRunning", "">>)
      BY DEF WordOk, BareOps, FilterOps
    <2>5. Program(q) /\ WordsOk(q)
      BY <1>0, <1>a, <2>4, MoreSteps DEF FilterOps
    <2>6. \A i \in 1..Len(q) : q[i][1] \in PlainOps
      <3>1. <<"coreRunning", "">>[1] \in PlainOps
        BY DEF PlainOps
      <3> QED
        BY <1>0, <1>b, <3>1, MoreSteps
    <2> HIDE DEF q
    <2>7. ProgramEffect(s, q)
      BY <2>1, <2>6, PlainEffect DEF ProperOps
    <2> QED
      BY <2>1, <2>2, <2>3, <2>5, <2>7, ThenEffect
  <1>5. CASE CoreStop
    <2>1. C # <<>> /\ WordOk(s) /\ s[1] = "coreStop"
      BY <1>5, ClientAt DEF CoreStop
    <2>2. FilterEffect(s)
      BY <1>5, <2>1 DEF CoreStop, FilterEffect, Typed
    <2> DEFINE q == F("stop") \o <<<<"coreRemove", "">>>>
    <2>3. task' = task /\ Then("client", q)
      BY <1>5 DEF CoreStop, F
    <2>4. WordOk(<<"coreRemove", "">>)
      BY DEF WordOk, BareOps, FilterOps
    <2>5. Program(q) /\ WordsOk(q)
      BY <1>0, <1>a, <2>4, MoreSteps DEF FilterOps
    <2>6. ProgramEffect(s, q)
      BY <2>1 DEF ProgramEffect, ProperOps, F
    <2> HIDE DEF q
    <2> QED
      BY <2>1, <2>2, <2>3, <2>5, <2>6, ThenEffect
  <1>6. CASE CoreRemove
    <2>1. C # <<>> /\ WordOk(s) /\ s[1] = "coreRemove"
      BY <1>6, ClientAt DEF CoreRemove
    <2>2. FilterEffect(s)
      <3>1. core'.filters = Removed(core.filters)
        BY <1>6 DEF CoreRemove, Removed, Typed
      <3> QED
        BY <1>6, <2>1, <3>1 DEF CoreRemove, FilterEffect, Typed
    <2>3. task' = task /\ Then("client", <<>>)
      BY <1>6 DEF CoreRemove
    <2> QED
      BY <2>1, <2>2, <2>3, NoMore DEF TaskOps
  <1>7. CASE CoreFlush
    <2>1. C # <<>> /\ WordOk(s) /\ s[1] = "coreFlush" /\ Arg("client") = s[2]
      BY <1>7, ClientAt DEF CoreFlush
    <2>2. FilterEffect(s)
      BY <1>7, <2>1 DEF CoreFlush, FilterEffect, Typed
    <2>3. task' = task /\ Then("client", F(s[2]))
      BY <1>7, <2>1 DEF CoreFlush, F
    <2>4. Program(F(s[2])) /\ WordsOk(F(s[2]))
      BY <1>0, <1>a, <2>1 DEF WordOk, FilterOps
    <2>5. ProgramEffect(s, F(s[2]))
      BY <2>1 DEF ProgramEffect, ProperOps, F
    <2> QED
      BY <2>1, <2>2, <2>3, <2>4, <2>5, ThenEffect
  <1> QED
    BY <1>1, <1>2, <1>3, <1>4, <1>5, <1>6, <1>7

\* MediaSourceFilter.
LEMMA SourceEffects ==
    ASSUME Typed, UNCHANGED <<player, call>>, NEW s, s = Head(C),
           SourcePrepare \/ SourceStart \/ SourceStop \/ NothingToDo
    PROVE  Effect(s)
  <1>1. CASE SourcePrepare
    <2>1. C # <<>> /\ WordOk(s) /\ s[1] = "prepare" /\ s[2] = "source"
      BY <1>1, ClientAt DEF SourcePrepare
    <2>2. FilterEffect(s)
      BY <1>1, <2>1 DEF SourcePrepare, FilterEffect, Typed
    <2>3. task' = task /\ (Then("client", <<<<"ready", "source">>>>) \/ Fail)
      BY <1>1 DEF SourcePrepare
    <2>4. WordOk(<<"ready", "source">>) /\ <<"ready", "source">>[1] \in PlainOps
      BY DEF WordOk, BareOps, FilterOps, PlainOps
    <2> QED
      BY <2>1, <2>2, <2>3, <2>4, OneMore, FailEffect DEF TaskOps, ProperOps
  <1>2. CASE SourceStart
    <2>1. C # <<>> /\ WordOk(s) /\ s[1] \in {"start", "resume"} /\ s[2] = "source"
      BY <1>2, ClientAt DEF SourceStart
    <2>2. FilterEffect(s)
      BY <1>2, <2>1 DEF SourceStart, FilterEffect
    <2>3. task' = task /\ (Then("client", <<>>) \/ Fail)
      BY <1>2 DEF SourceStart
    <2> QED
      BY <2>1, <2>2, <2>3, NoMore, FailEffect DEF TaskOps
  <1>3. CASE SourceStop
    <2>1. C # <<>> /\ WordOk(s) /\ s[1] = "stop" /\ s[2] = "source"
      BY <1>3, ClientAt DEF SourceStop
    <2>2. FilterEffect(s)
      BY <1>3, <2>1 DEF SourceStop, FilterEffect
    <2>3. task' = task /\ (Then("client", <<>>) \/ Fail)
      BY <1>3 DEF SourceStop
    <2> QED
      BY <2>1, <2>2, <2>3, NoMore, FailEffect DEF TaskOps
  <1>4. CASE NothingToDo
    <2>1. /\ C # <<>> /\ WordOk(s) /\ s[1] \in {"pause", "flushStart", "flushEnd"}
          /\ s[1] = "flushStart" => s[2] = "source"
      BY <1>4, ClientAt DEF NothingToDo
    <2>2. FilterEffect(s)
      BY <1>4, <2>1 DEF NothingToDo, FilterEffect
    <2>3. task' = task /\ Then("client", <<>>)
      BY <1>4 DEF NothingToDo
    <2> QED
      BY <2>1, <2>2, <2>3, NoMore DEF TaskOps
  <1> QED
    BY <1>1, <1>2, <1>3, <1>4

\* DemuxerFilter.
LEMMA DemuxerEffects ==
    ASSUME Typed, UNCHANGED <<player, call>>, NEW s, s = Head(C),
           \/ DemuxerPrepare \/ DemuxerStart \/ DemuxerFlushStart \/ StopTaskUnlessParsed
           \/ DemuxerStop \/ Unlink
    PROVE  Effect(s)
  <1>0. /\ WordOk(<<"taskStart", "">>) /\ <<"taskStart", "">>[1] \in PlainOps
        /\ WordOk(<<"event", "ERROR">>) /\ <<"event", "ERROR">>[1] \in PlainOps
        /\ WordOk(<<"taskPause", "">>) /\ WordOk(<<"taskStop", "">>) /\ WordOk(<<"unlink", "">>)
    BY DEF WordOk, BareOps, FilterOps, PlainOps
  <1>1. CASE DemuxerPrepare
    <2>1. C # <<>> /\ WordOk(s) /\ s[1] = "prepare" /\ s[2] = "demuxer"
      BY <1>1, ClientAt DEF DemuxerPrepare
    <2>2. FilterEffect(s)
      BY <1>1, <2>1 DEF DemuxerPrepare, FilterEffect, Typed
    <2>3. /\ task' = task
          /\ Then("client", <<<<"event", "ERROR">>>>) \/ Then("client", <<<<"taskStart", "">>>>)
      BY <1>1 DEF DemuxerPrepare
    <2> QED
      BY <1>0, <2>1, <2>2, <2>3, OneMore DEF TaskOps, ProperOps
  <1>2. CASE DemuxerStart
    <2>1. C # <<>> /\ WordOk(s) /\ s[1] \in {"start", "resume", "flushEnd"} /\ s[2] = "demuxer"
      BY <1>2, ClientAt DEF DemuxerStart
    <2>2. FilterEffect(s)
      BY <1>2, <2>1 DEF DemuxerStart, FilterEffect
    <2>3. task' = task /\ Then("client", <<<<"taskStart", "">>>>)
      BY <1>2 DEF DemuxerStart
    <2> QED
      BY <1>0, <2>1, <2>2, <2>3, OneMore DEF TaskOps, ProperOps
  <1>3. CASE DemuxerFlushStart
    <2>1. C # <<>> /\ WordOk(s) /\ s[1] = "flushStart" /\ s[2] = "demuxer"
      BY <1>3, ClientAt DEF DemuxerFlushStart
    <2>2. FilterEffect(s)
      BY <1>3, <2>1 DEF DemuxerFlushStart, FilterEffect
    <2>3. task' = task /\ Then("client", <<<<"taskPause", "">>>>)
      BY <1>3 DEF DemuxerFlushStart
    <2>4. Program(<<<<"taskPause", "">>>>) /\ WordsOk(<<<<"taskPause", "">>>>)
      BY <1>0, ShortPrograms, ShortWords
    <2>5. ProgramEffect(s, <<<<"taskPause", "">>>>)
      BY <2>1 DEF ProgramEffect, ProperOps
    <2> QED
      BY <2>1, <2>2, <2>3, <2>4, <2>5, ThenEffect
  <1>4. CASE StopTaskUnlessParsed
    <2>1. C # <<>> /\ WordOk(s) /\ s[1] = "stopTask"
      BY <1>4, ClientAt DEF StopTaskUnlessParsed
    <2>2. FilterEffect(s)
      BY <1>4, <2>1 DEF StopTaskUnlessParsed, FilterEffect
    <2>3. task' = task
      BY <1>4 DEF StopTaskUnlessParsed
    <2>4. CASE demuxer.plugin # "FRAME"
      <3>1. Then("client", <<<<"taskStop", "">>>>)
        BY <1>4, <2>4 DEF StopTaskUnlessParsed
      <3>2. Program(<<<<"taskStop", "">>>>) /\ WordsOk(<<<<"taskStop", "">>>>)
        BY <1>0, ShortPrograms, ShortWords
      <3>3. ProgramEffect(s, <<<<"taskStop", "">>>>)
        BY <2>1, <2>4 DEF ProgramEffect, ProperOps
      <3> QED
        BY <2>1, <2>2, <2>3, <3>1, <3>2, <3>3, ThenEffect
    <2>5. CASE demuxer.plugin = "FRAME"
      <3>1. Then("client", <<>>)
        BY <1>4, <2>5 DEF StopTaskUnlessParsed
      <3>2. ProgramEffect(s, <<>>)
        BY <2>1, <2>5 DEF ProgramEffect, ProperOps
      <3> QED
        BY <2>1, <2>2, <2>3, <3>1, <3>2, ThenEffect, ShortPrograms, ShortWords
    <2> QED
      BY <2>4, <2>5
  <1>5. CASE DemuxerStop
    <2>1. C # <<>> /\ WordOk(s) /\ s[1] = "stop" /\ s[2] = "demuxer"
      BY <1>5, ClientAt DEF DemuxerStop
    <2>2. FilterEffect(s)
      BY <1>5, <2>1 DEF DemuxerStop, FilterEffect
    <2> DEFINE q == <<<<"taskStop", "">>, <<"unlink", "">>>>
    <2>3. task' = task /\ Then("client", q)
      BY <1>5 DEF DemuxerStop
    <2>4. Program(q) /\ WordsOk(q)
      BY <1>0, ShortPrograms, ShortWords
    <2>5. ProgramEffect(s, q)
      BY <2>1 DEF ProgramEffect, ProperOps
    <2> HIDE DEF q
    <2> QED
      BY <2>1, <2>2, <2>3, <2>4, <2>5, ThenEffect
  <1>6. CASE Unlink
    <2>1. C # <<>> /\ WordOk(s) /\ s[1] = "unlink"
      BY <1>6, ClientAt DEF Unlink
    <2>2. FilterEffect(s)
      BY <1>6, <2>1 DEF Unlink, FilterEffect, Typed
    <2>3. task' = task /\ Then("client", <<>>)
      BY <1>6 DEF Unlink
    <2> QED
      BY <2>1, <2>2, <2>3, NoMore DEF TaskOps
  <1> QED
    BY <1>1, <1>2, <1>3, <1>4, <1>5, <1>6

\* AudioSinkFilter.
LEMMA SinkEffects ==
    ASSUME Typed, UNCHANGED <<player, call>>, NEW s, s = Head(C),
           SinkPrepare \/ SinkStart \/ SinkStop \/ SinkPause \/ SinkResume \/ SinkResumed \/ SinkFlush
    PROVE  Effect(s)
  <1>0. /\ WordOk(<<"wake", "">>) /\ <<"wake", "">>[1] \in PlainOps
        /\ WordOk(<<"resumed", "">>) /\ <<"resumed", "">>[1] \in PlainOps
    BY DEF WordOk, BareOps, FilterOps, PlainOps
  <1>a. Program(<<<<"wake", "">>>>) /\ WordsOk(<<<<"wake", "">>>>)
    BY <1>0, ShortPrograms, ShortWords
  <1>1. CASE SinkPrepare
    <2>1. C # <<>> /\ WordOk(s) /\ s[1] = "prepare" /\ s[2] = "sink"
      BY <1>1, ClientAt DEF SinkPrepare
    <2>2. FilterEffect(s)
      BY <1>1, <2>1 DEF SinkPrepare, FilterEffect, Typed
    <2>3. task' = task /\ (Then("client", <<>>) \/ Fail)
      BY <1>1 DEF SinkPrepare
    <2> QED
      BY <2>1, <2>2, <2>3, NoMore, FailEffect DEF TaskOps
  <1>2. CASE SinkStart
    <2>1. C # <<>> /\ WordOk(s) /\ s[1] = "start" /\ s[2] = "sink"
      BY <1>2, ClientAt DEF SinkStart
    <2>2. FilterEffect(s)
      BY <1>2, <2>1 DEF SinkStart, FilterEffect, Typed
    <2>3. task' = task /\ (Then("client", <<<<"wake", "">>>>) \/ Fail)
      BY <1>2 DEF SinkStart
    <2> QED
      BY <1>0, <2>1, <2>2, <2>3, OneMore, FailEffect DEF TaskOps, ProperOps
  <1>3. CASE SinkStop
    <2>1. C # <<>> /\ WordOk(s) /\ s[1] = "stop" /\ s[2] = "sink"
      BY <1>3, ClientAt DEF SinkStop
    <2>2. FilterEffect(s)
      BY <1>3, <2>1 DEF SinkStop, FilterEffect, Typed
    <2>3. task' = task /\ Then("client", <<<<"wake", "">>>>)
      BY <1>3 DEF SinkStop
    <2>4. ProgramEffect(s, <<<<"wake", "">>>>)
      BY <2>1 DEF ProgramEffect, ProperOps
    <2> QED
      BY <1>a, <2>1, <2>2, <2>3, <2>4, ThenEffect
  <1>4. CASE SinkPause
    <2>1. C # <<>> /\ WordOk(s) /\ s[1] = "pause" /\ s[2] = "sink"
      BY <1>4, ClientAt DEF SinkPause
    <2>2. FilterEffect(s)
      BY <1>4, <2>1 DEF SinkPause, FilterEffect, Typed
    <2>3. task' = task /\ Then("client", <<>>)
      BY <1>4 DEF SinkPause
    <2> QED
      BY <2>1, <2>2, <2>3, NoMore DEF TaskOps
  <1>5. CASE SinkResume
    <2>1. C # <<>> /\ WordOk(s) /\ s[1] = "resume" /\ s[2] = "sink"
      BY <1>5, ClientAt DEF SinkResume
    <2>2. FilterEffect(s)
      BY <1>5, <2>1 DEF SinkResume, FilterEffect, Typed
    <2>3. PICK q : /\ q = <<<<"wake", "">>, <<"resumed", "">>>>
                   /\ Then("client", <<>>) \/ Then("client", q)
      BY <1>5 DEF SinkResume
    <2>4. Program(q) /\ WordsOk(q) /\ \A i \in 1..Len(q) : q[i][1] \in PlainOps
      <3>1. Program(q) /\ WordsOk(q)
        BY <1>0, <2>3, ShortPrograms, ShortWords
      <3>2. Len(q) = 2 /\ q[1][1] = "wake" /\ q[2][1] = "resumed"
        BY <2>3
      <3> QED
        BY <3>1, <3>2 DEF PlainOps
    <2>5. ProgramEffect(s, q)
      BY <2>1, <2>4, PlainEffect DEF ProperOps
    <2>6. task' = task
      BY <1>5 DEF SinkResume
    <2> QED
      BY <2>1, <2>2, <2>3, <2>4, <2>5, <2>6, NoMore, ThenEffect DEF TaskOps
  <1>6. CASE SinkResumed
    <2>1. C # <<>> /\ WordOk(s) /\ s[1] = "resumed"
      BY <1>6, ClientAt DEF SinkResumed
    <2>2. FilterEffect(s)
      BY <1>6, <2>1 DEF SinkResumed, FilterEffect
    <2>3. task' = task /\ (Then("client", <<>>) \/ Fail)
      BY <1>6 DEF SinkResumed
    <2> QED
      BY <2>1, <2>2, <2>3, NoMore, FailEffect DEF TaskOps
  <1>7. CASE SinkFlush
    <2>1. /\ C # <<>> /\ WordOk(s) /\ s[1] \in {"flushStart", "flushEnd"} /\ s[2] = "sink"
          /\ At("client", "flushStart") <=> s[1] = "flushStart"
      BY <1>7, ClientAt DEF SinkFlush
    <2>2. FilterEffect(s)
      BY <1>7, <2>1 DEF SinkFlush, FilterEffect, Typed
    <2>3. CASE s[1] = "flushStart"
      <3>1. task' = task /\ Then("client", <<<<"wake", "">>>>)
        BY <1>7, <2>1, <2>3 DEF SinkFlush
      <3>2. ProgramEffect(s, <<<<"wake", "">>>>)
        BY <2>1, <2>3 DEF ProgramEffect, ProperOps
      <3> QED
        BY <1>a, <2>1, <2>2, <2>3, <3>1, <3>2, ThenEffect
    <2>4. CASE s[1] = "flushEnd"
      <3>1. task' = task /\ Then("client", <<>>)
        BY <1>7, <2>1, <2>4 DEF SinkFlush
      <3> QED
        BY <2>1, <2>2, <2>4, <3>1, NoMore DEF TaskOps
    <2> QED
      BY <2>1, <2>3, <2>4
  <1> QED
    BY <1>1, <1>2, <1>3, <1>4, <1>5, <1>6, <1>7

\* HiPlayerImpl.
LEMMA PlayerEffects ==
    ASSUME Typed, NEW s, s = Head(C),
           InitPipeline \/ DoSetSource \/ SeekTo \/ SetState \/ Failed \/ AwaitReady \/ SpuriousReturn
    PROVE  Effect(s)
  <1>1. CASE InitPipeline
    <2>1. C # <<>> /\ WordOk(s) /\ s[1] = "init"
      BY <1>1, ClientAt DEF InitPipeline
    <2>2. FilterEffect(s)
      BY <1>1, <2>1 DEF InitPipeline, FilterEffect, Typed
    <2>3. UNCHANGED <<task, call>> /\ Then("client", <<>>)
      BY <1>1 DEF InitPipeline
    <2> QED
      BY <2>1, <2>2, <2>3, NoMore DEF TaskOps
  <1>2. CASE DoSetSource
    <2>1. C # <<>> /\ WordOk(s) /\ s[1] = "setSource"
      BY <1>2, ClientAt DEF DoSetSource
    <2>2. FilterEffect(s)
      BY <1>2, <2>1 DEF DoSetSource, FilterEffect
    <2>3. PICK x \in {"ERROR", "INITIALIZED"} : Then("client", <<<<"setState", x>>>>)
      BY <1>2 DEF DoSetSource
    <2>4. UNCHANGED <<task, call>>
      BY <1>2 DEF DoSetSource
    <2>5. WordOk(<<"setState", x>>)
      BY DEF WordOk, BareOps, FilterOps
    <2>6. Program(<<<<"setState", x>>>>) /\ WordsOk(<<<<"setState", x>>>>)
      BY <2>5, ShortPrograms, ShortWords
    <2>7. ProgramEffect(s, <<<<"setState", x>>>>)
      BY <2>1 DEF ProgramEffect, ProperOps
    <2> QED
      BY <2>1, <2>2, <2>3, <2>4, <2>6, <2>7, ThenEffect
  <1>3. CASE SeekTo
    <2>1. C # <<>> /\ WordOk(s) /\ s[1] = "seekTo"
      BY <1>3, ClientAt DEF SeekTo
    <2>2. FilterEffect(s)
      BY <1>3, <2>1 DEF SeekTo, FilterEffect, Typed
    <2>3. UNCHANGED <<task, call>>
      BY <1>3 DEF SeekTo
    <2>4. CASE Then("client", <<>>)
      BY <2>1, <2>2, <2>3, <2>4, NoMore DEF TaskOps
    <2>5. CASE prog' = [prog EXCEPT !["client"] = <<<<"coreFlush", "flushEnd">>>>]
      <3>1. C' = <<<<"coreFlush", "flushEnd">>>> /\ D' = D /\ prog' = [t \in Threads |-> prog'[t]]
        BY <2>5 DEF Typed, C, D, Threads
      <3>2. TaskEffect(s)
        BY <2>1, <2>3, <3>1 DEF TaskEffect
      <3> QED
        BY <2>1, <2>2, <2>3, <3>1, <3>2 DEF Effect, GivesUp
    <2> QED
      BY <1>3, <2>4, <2>5 DEF SeekTo
  <1>4. CASE SetState
    <2>1. C # <<>> /\ WordOk(s) /\ s[1] = "setState" /\ Arg("client") = s[2]
      BY <1>4, ClientAt DEF SetState
    <2>2. FilterEffect(s)
      BY <1>4, <2>1 DEF SetState, FilterEffect, Typed, unchangedPath
    <2>3. UNCHANGED <<task, call>> /\ Then("client", <<>>)
      BY <1>4 DEF SetState, unchangedPath
    <2> QED
      BY <2>1, <2>2, <2>3, NoMore DEF TaskOps
  <1>5. CASE Failed
    <2>1. C # <<>> /\ WordOk(s) /\ s[1] = "failed"
      BY <1>5, ClientAt DEF Failed
    <2>2. FilterEffect(s)
      BY <1>5, <2>1 DEF Failed, FilterEffect, Typed, unchangedPath
    <2>3. UNCHANGED <<task, call>>
      BY <1>5 DEF Failed, unchangedPath
    <2>4. \/ Then("client", <<>>) /\ call # "Stop"
          \/ \E x \in {"PREPARING", "PAUSED", "STOPPED"} :
                Then("client", <<<<"setState", x>>>>) /\ (x = "STOPPED" <=> call = "Stop")
      BY <1>5 DEF Failed
    <2>5. CASE Then("client", <<>>) /\ call # "Stop"
      BY <2>1, <2>2, <2>3, <2>5, NoMore DEF TaskOps
    <2>6. ASSUME NEW x \in {"PREPARING", "PAUSED", "STOPPED"},
                 Then("client", <<<<"setState", x>>>>), x = "STOPPED" <=> call = "Stop"
          PROVE  Effect(s)
      <3>1. WordOk(<<"setState", x>>)
        BY DEF WordOk, BareOps, FilterOps
      <3>2. Program(<<<<"setState", x>>>>) /\ WordsOk(<<<<"setState", x>>>>)
        BY <3>1, ShortPrograms, ShortWords
      <3>3. ProgramEffect(s, <<<<"setState", x>>>>)
        BY <2>1, <2>6 DEF ProgramEffect, ProperOps
      <3> QED
        BY <2>1, <2>2, <2>3, <2>6, <3>2, <3>3, ThenEffect
    <2> QED
      BY <2>4, <2>5, <2>6
  <1>6. CASE AwaitReady \/ SpuriousReturn
    <2>1. C # <<>> /\ WordOk(s) /\ s[1] \in {"awaitReady", "waiting"}
      BY <1>6, ClientAt DEF AwaitReady, SpuriousReturn, Waiting
    <2>2. FilterEffect(s)
      BY <1>6, <2>1 DEF AwaitReady, SpuriousReturn, FilterEffect, unchangedPath
    <2>3. /\ UNCHANGED <<task, call>>
          /\ \/ Then("client", <<>>) \/ Then("client", <<<<"waiting", "">>>>)
             \/ Then("client", <<<<"awaitReady", "">>>>)
      BY <1>6 DEF AwaitReady, SpuriousReturn, unchangedPath
    <2>4. /\ WordOk(<<"waiting", "">>) /\ <<"waiting", "">>[1] \in PlainOps
          /\ WordOk(<<"awaitReady", "">>) /\ <<"awaitReady", "">>[1] \in PlainOps
      BY DEF WordOk, BareOps, FilterOps, PlainOps
    <2> QED
      BY <2>1, <2>2, <2>3, <2>4, NoMore, OneMore DEF TaskOps, ProperOps
  <1> QED
    BY <1>1, <1>2, <1>3, <1>4, <1>5, <1>6

\* OnEvent on the application's thread.
LEMMA EventEffects ==
    ASSUME Typed, NEW s, s = Head(C),
           \/ HandleErrorEvent("client") \/ HandleReadyEvent("client")
           \/ HandleCompleteEvent("client")
    PROVE  Effect(s)
  <1>1. C # <<>> /\ WordOk(s) /\ s[1] = "event"
    BY ClientAt DEF HandleErrorEvent, HandleReadyEvent, HandleCompleteEvent
  <1>2. FilterEffect(s)
    <2>1. UNCHANGED <<sink, demuxer, core>>
      BY DEF HandleErrorEvent, HandleReadyEvent, HandleCompleteEvent, ChangeState, unchangedPath
    <2>2. player'.state \in {"ERROR", "PREPARED", "COMPLETE"}
      <3>1. CASE HandleErrorEvent("client")
        BY <3>1 DEF HandleErrorEvent, Typed
      <3>2. CASE HandleReadyEvent("client")
        BY <3>2 DEF HandleReadyEvent, ChangeState
      <3>3. CASE HandleCompleteEvent("client")
        BY <3>3 DEF HandleCompleteEvent, ChangeState, Typed
      <3> QED
        BY <3>1, <3>2, <3>3
    <2> QED
      BY <1>1, <2>1, <2>2 DEF FilterEffect
  <1>3. C' = Tail(C) /\ D' = D /\ prog' = [t \in Threads |-> prog'[t]]
    <2>1. CASE HandleErrorEvent("client")
      <3>1. C' = <<>> \o Tail(C) /\ D' = D /\ prog' = [t \in Threads |-> prog'[t]]
        BY <2>1, ThenIs DEF HandleErrorEvent
      <3> QED
        BY <1>1, <3>1, ProgramElements DEF Typed
    <2>2. ~Waiting
      BY <1>1 DEF Waiting, At, C
    <2>3. CASE HandleReadyEvent("client") \/ HandleCompleteEvent("client")
      BY <2>2, <2>3 DEF HandleReadyEvent, HandleCompleteEvent, ChangeState, Typed, C, D, Threads
    <2> QED
      BY <2>1, <2>3
  <1>4. C' = <<>> \o Tail(C)
    BY <1>1, <1>3, ProgramElements DEF Typed
  <1>5. UNCHANGED <<task, call>>
    BY DEF HandleErrorEvent, HandleReadyEvent, HandleCompleteEvent, ChangeState, unchangedPath
  <1>6. ProgramEffect(s, <<>>)
    BY <1>1, NextEffect
  <1>7. TaskEffect(s)
    BY <1>1, <1>3, <1>5 DEF TaskEffect
  <1> QED
    BY <1>1, <1>2, <1>3, <1>4, <1>5, <1>6, <1>7, ShortPrograms, ShortWords DEF Effect

\* Every step of the client.
LEMMA ClientEffects ==
    ASSUME Typed, Step("client") \/ SpuriousReturn
    PROVE  Effect(Head(C))
  <1> DEFINE s == Head(C)
  <1>0. s = Head(C)
    OBVIOUS
  <1> HIDE DEF s
  <1>1. CASE PathStep("client") /\ UNCHANGED <<player, call>>
    <2>1. CASE \/ TaskStart("client") \/ TaskPause("client") \/ TaskStop("client")
               \/ Await("client") \/ Join("client") \/ PauseAsync("client") \/ WakePusher("client")
      BY <1>0, <1>1, <2>1, TaskEffects
    <2>2. CASE Ready("client") \/ Count("client") \/ CountReset("client")
      BY <1>0, <1>1, <2>2, CountEffects
    <2>3. CASE CorePrepare
      BY <1>0, <1>1, <2>3, PrepareEffects
    <2>4. CASE \/ CoreUnlock \/ CoreStart \/ CorePause \/ CoreResume \/ CoreRunning
               \/ CoreStop \/ CoreRemove \/ CoreFlush
      BY <1>0, <1>1, <2>4, CoreEffects
    <2>5. CASE SourcePrepare \/ SourceStart \/ SourceStop \/ NothingToDo
      BY <1>0, <1>1, <2>5, SourceEffects
    <2>6. CASE \/ DemuxerPrepare \/ DemuxerStart \/ DemuxerFlushStart \/ StopTaskUnlessParsed
               \/ DemuxerStop \/ Unlink
      BY <1>0, <1>1, <2>6, DemuxerEffects
    <2>7. CASE SinkPrepare \/ SinkStart \/ SinkStop \/ SinkPause \/ SinkResume \/ SinkResumed \/ SinkFlush
      BY <1>0, <1>1, <2>7, SinkEffects
    <2> QED
      BY <1>1, <2>1, <2>2, <2>3, <2>4, <2>5, <2>6, <2>7 DEF PathStep
  <1>2. CASE InitPipeline \/ DoSetSource \/ SeekTo \/ SetState \/ Failed \/ AwaitReady \/ SpuriousReturn
    BY <1>0, <1>2, PlayerEffects
  <1>3. CASE \/ HandleErrorEvent("client") \/ HandleReadyEvent("client")
             \/ HandleCompleteEvent("client")
    BY <1>0, <1>3, EventEffects
  <1> QED
    BY <1>0, <1>1, <1>2, <1>3 DEF Step
-----------------------------------------------------------------------------
(* What a step leaves of the types.                                         *)

\* RemoveFilter at the end of Stop.
LEMMA RemovedIs ==
    ASSUME core.filters \in FilterLists, core.toRemove \in {{}, {"sink"}}
    PROVE  \/ Removed(core.filters) = core.filters /\ (core.toRemove = {} \/ "sink" \notin ToSet(core.filters))
           \/ Removed(core.filters) = <<"source", "demuxer">> /\ core.filters # <<>>
  <1> DEFINE fs == core.filters
             T(f) == f \in core.toRemove
             n == SelectInSeq(fs, T)
  <1>1. Removed(fs) = IF \E i \in 1..Len(fs) : T(fs[i])
                      THEN SubSeq(fs, 1, n - 1) \o SubSeq(fs, n + 1, Len(fs))
                      ELSE fs
    BY DEF Removed, RemoveFirstMatch, RemoveAt
  <1>2. n = LET I == {i \in 1..Len(fs) : T(fs[i])} IN IF I # {} THEN Min(I) ELSE 0
    BY DEF SelectInSeq
  <1> HIDE DEF n
  <1>3. CASE \A i \in 1..Len(fs) : ~T(fs[i])
    <2>1. Removed(fs) = fs
      BY <1>1, <1>3
    <2>2. core.toRemove = {} \/ "sink" \notin ToSet(fs)
      BY <1>3 DEF ToSet, FilterLists
    <2> QED
      BY <2>1, <2>2
  <1>4. CASE ~\A i \in 1..Len(fs) : ~T(fs[i])
    <2>1. core.toRemove = {"sink"}
      BY <1>4
    <2>2. CASE fs = <<"source", "demuxer", "sink">>
      <3>1. {i \in 1..Len(fs) : T(fs[i])} = {3}
        BY <2>1, <2>2
      <3>2. Min({3}) = 3
        BY DEF Min
      <3>3. n = 3
        BY <1>2, <3>1, <3>2
      <3>4. Removed(fs) = SubSeq(fs, 1, 2) \o SubSeq(fs, 4, 3)
        BY <1>1, <1>4, <2>2, <3>3
      <3> QED
        BY <2>2, <3>4
    <2>3. CASE fs = <<"sink", "source", "demuxer">>
      <3>1. {i \in 1..Len(fs) : T(fs[i])} = {1}
        BY <2>1, <2>3
      <3>2. Min({1}) = 1
        BY DEF Min
      <3>3. n = 1
        BY <1>2, <3>1, <3>2
      <3>4. Removed(fs) = SubSeq(fs, 1, 0) \o SubSeq(fs, 2, 3)
        BY <1>1, <1>4, <2>3, <3>3
      <3> QED
        BY <2>3, <3>4
    <2> QED
      BY <1>4, <2>1, <2>2, <2>3 DEF FilterLists
  <1> QED
    BY <1>3, <1>4

Fields ==
    /\ DOMAIN demuxer = {"plugin", "tracks", "linked", "left"} /\ demuxer.linked \in BOOLEAN
    /\ DOMAIN sink = {"state", "flushing", "blocking"} /\ sink.blocking \in BOOLEAN
    /\ DOMAIN core = {"state", "filters", "ready", "mutex", "toRemove"}
    /\ core.toRemove \in {{}, {"sink"}}
    /\ DOMAIN player = {"state", "known"}

\* The records keep their fields.
LEMMA FieldsStay ==
    ASSUME Fields, Next
    PROVE  Fields'
  <1>1. ASSUME NEW t, PathStep(t), player' = player PROVE Fields'
    <2>0. CASE UNCHANGED <<demuxer, sink, core>>
      BY <1>1, <2>0 DEF Fields
    <2>1. CASE \/ TaskStart(t) \/ TaskPause(t) \/ TaskStop(t) \/ Await(t) \/ Join(t) \/ PauseAsync(t)
               \/ Ready(t) \/ WakePusher(t) \/ CoreResume \/ CoreFlush \/ SourceStart \/ SourceStop
      BY <2>0, <2>1 DEF TaskStart, TaskPause, TaskStop, Await, Join, PauseAsync, Ready, WakePusher,
                        CoreResume, CoreFlush, SourceStart, SourceStop
    <2>2. CASE \/ NothingToDo \/ DemuxerStart \/ DemuxerFlushStart \/ StopTaskUnlessParsed \/ DemuxerStop
               \/ SinkResumed \/ RunHandler \/ CheckState \/ GetMediaInfo \/ PushData \/ Sleep \/ Write
      BY <2>0, <2>2 DEF NothingToDo, DemuxerStart, DemuxerFlushStart, StopTaskUnlessParsed, DemuxerStop,
                        SinkResumed, RunHandler, CheckState, GetMediaInfo, PushData, Sleep, Write
    <2>3. CASE Count(t) \/ CountReset(t) \/ CorePrepare \/ CoreUnlock \/ CoreStart \/ CorePause
      BY <1>1, <2>3 DEF Count, CountReset, CorePrepare, CoreUnlock, CoreStart, CorePause, Fields
    <2>4. CASE CoreRunning \/ CoreStop \/ SourcePrepare
      BY <1>1, <2>4 DEF CoreRunning, CoreStop, SourcePrepare, Fields
    <2>5. CASE CoreRemove
      <3>1. core' = [core EXCEPT !.filters = Removed(@)] /\ UNCHANGED <<demuxer, sink>>
        BY <2>5 DEF CoreRemove, Removed
      <3> QED
        BY <1>1, <3>1 DEF Fields
    <2>6. CASE DemuxerPrepare \/ Unlink \/ ReadFrame \/ Parsed
      BY <1>1, <2>6 DEF DemuxerPrepare, Unlink, ReadFrame, Parsed, Fields
    <2>7. CASE AddSink
      BY <1>1, <2>7 DEF AddSink, Fields
    <2>8. CASE NegotiateDownstream \/ Block \/ Evaluate
      BY <1>1, <2>8 DEF NegotiateDownstream, Block, Evaluate, Fields
    <2>9. CASE SinkPrepare \/ SinkStart \/ SinkStop \/ SinkPause \/ SinkResume \/ SinkFlush
      BY <1>1, <2>9 DEF SinkPrepare, SinkStart, SinkStop, SinkPause, SinkResume, SinkFlush, Fields
    <2> QED
      BY <1>1, <2>1, <2>2, <2>3, <2>4, <2>5, <2>6, <2>7, <2>8, <2>9 DEF PathStep
  <1>2. ASSUME NEW t, HandleErrorEvent(t) \/ HandleReadyEvent(t) \/ HandleCompleteEvent(t) PROVE Fields'
    BY <1>2 DEF HandleErrorEvent, HandleReadyEvent, HandleCompleteEvent, ChangeState, unchangedPath, Fields
  <1>3. CASE InitPipeline \/ DoSetSource \/ SeekTo \/ SetState \/ Failed \/ AwaitReady
    BY <1>3 DEF InitPipeline, DoSetSource, SeekTo, SetState, Failed, AwaitReady, unchangedPath, Fields
  <1>4. CASE SpuriousReturn \/ (SpuriousWakeup /\ player' = player)
    BY <1>4 DEF SpuriousReturn, SpuriousWakeup, unchangedPath, Fields
  <1>5. CASE Call
    BY <1>5 DEF Call, SetSource, Prepare, PrepareAsync, Play, Pause, Seek, Stop, Invoke, unchangedPath, Fields
  <1> QED
    BY <1>1, <1>2, <1>3, <1>4, <1>5 DEF Next, Step
-----------------------------------------------------------------------------
(* What a step of the demuxer's thread does.                                *)

\* It is at one of its own steps.
LEMMA DemuxAt ==
    ASSUME Typed, D # <<>>
    PROVE  /\ Head(D) = D[1] /\ Len(D) >= 1 /\ Len(D) \in Nat /\ Head(D)[1] \in DemuxOps
           /\ Head(D)[1] \in Rounds => Len(D) = 1
           /\ Head(D)[1] \notin Rounds => Len(D) > 1
  <1>1. Head(D) = D[1] /\ Len(D) >= 1 /\ Len(D) \in Nat
    BY ProgramElements DEF Typed
  <1>2. 1 \in 1..Len(D)
    BY <1>1
  <1>3. D[1][1] \in DemuxOps /\ (1 < Len(D) <=> D[1][1] \notin Rounds)
    BY <1>2 DEF Typed, DemuxWords
  <1>4. D[1][1] \in Rounds => Len(D) = 1
    <2>1. \A n \in Nat : n >= 1 /\ ~(1 < n) => n = 1
      OBVIOUS
    <2> QED
      BY <1>1, <1>3, <2>1, Zenon
  <1>5. D[1][1] \notin Rounds => Len(D) > 1
    BY <1>1, <1>3
  <1> QED
    BY <1>1, <1>3, <1>4, <1>5

(* The sink may have been added to the filters.                             *)
Added ==
    \/ core'.filters = core.filters
    \/ core'.filters = Append(core.filters, "sink") /\ "sink" \notin ToSet(core.filters)

(* Nothing, or an event, changed the state of the player.                   *)
Told == player'.state = player.state \/ player'.state \in {"ERROR", "PREPARED", "COMPLETE"}

Inner == DemuxOps \ Rounds

(* Of the pieces of the round that is under way, and of the rounds.         *)
DemuxProgram(q) ==
    \/ Head(D)[1] \in Inner /\ \A i \in 1..Len(q) : q[i][1] \in Inner
    \/ Head(D)[1] = "top" /\ DemuxWords(q) /\ q # <<>>
    \/ /\ Head(D)[1] \in {"check", "paused"}
       /\ q = <<<<"paused", "">>>> \/ q = <<>> \/ q = <<<<"top", "">>>>

DemuxEffect ==
    /\ D # <<>> /\ prog' = [t \in Threads |-> prog'[t]] /\ call' = call
    /\ \E q : Program(q) /\ D' = q \o Tail(D) /\ DemuxProgram(q)
    /\ C' = C \/ (At("client", "waiting") /\ C' = <<<<"awaitReady", "">>>>)
    /\ task.state = "PAUSED" => ~At("demux", "paused")
    /\ task' \in [state : TaskStates, thread : BOOLEAN] /\ task'.thread = task.thread
    /\ task'.state = "PAUSED" /\ task.state # "PAUSED" => D' = <<<<"paused", "">>>> \o Tail(D) /\ Head(D)[1] = "check"
    /\ task'.state = "STOPPED" /\ task.state # "STOPPED" => D' = <<>> \o Tail(D) /\ Head(D)[1] \in {"check", "paused"}
    /\ Added /\ Told

\* The steps of a round.
LEMMA InnerEffect ==
    ASSUME Typed, D # <<>>, NEW q, Program(q), Then("demux", q), Head(D)[1] \in Inner,
           \A i \in 1..Len(q) : q[i][1] \in Inner,
           task' = task \/ task' = [task EXCEPT !.state = "PAUSING"],
           call' = call, Added, Told
    PROVE  DemuxEffect
  <1>1. D' = q \o Tail(D) /\ C' = C /\ prog' = [t \in Threads |-> prog'[t]]
    BY DEF Then, Typed, C, D, Threads
  <1>2. task' \in [state : TaskStates, thread : BOOLEAN] /\ task'.thread = task.thread
        /\ (task'.state = task.state \/ task'.state = "PAUSING")
    BY DEF Typed, TaskStates
  <1>3. ~At("demux", "paused")
    BY DEF At, D, Inner, Rounds
  <1>4. DemuxProgram(q)
    BY DEF DemuxProgram
  <1> QED
    BY <1>1, <1>2, <1>3, <1>4 DEF DemuxEffect

\* The effect of a turn of the task's loop: the handler runs, or the state is checked.
LEMMA RoundEffects ==
    ASSUME Typed, RunHandler \/ CheckState, UNCHANGED <<player, call>>
    PROVE  DemuxEffect
  <1> USE ShortPrograms
  <1>0. D # <<>> /\ Head(D)[1] \in Rounds
    BY DEF RunHandler, CheckState, At, D, Rounds
  <1>1. CASE RunHandler
    <2>1. Head(D)[1] = "top" /\ task' = task /\ core' = core
      BY <1>1 DEF RunHandler, At, D
    <2>2. PICK q : /\ Then("demux", q)
                   /\ q = <<<<"loop", "">>, <<"check", "">>>> \/ q = <<<<"check", "">>>>
      BY <1>1 DEF RunHandler
    <2>3. D' = q \o Tail(D) /\ C' = C /\ prog' = [t \in Threads |-> prog'[t]]
      BY <2>2 DEF Then, Typed, C, D, Threads
    <2>4. Program(q) /\ DemuxWords(q) /\ q # <<>>
      <3>1. CASE q = <<<<"check", "">>>>
        <4>1. Program(q) /\ Len(q) = 1 /\ q[1][1] = "check"
          BY <3>1
        <4>2. DemuxWords(q)
          BY <4>1 DEF DemuxWords, DemuxOps, Rounds
        <4> QED
          BY <3>1, <4>1, <4>2
      <3>2. CASE q = <<<<"loop", "">>, <<"check", "">>>>
        <4>1. Program(q) /\ Len(q) = 2 /\ q[1][1] = "loop" /\ q[2][1] = "check"
          BY <3>2
        <4>2. \A i \in 1..2 : i = 1 \/ i = 2
          OBVIOUS
        <4>3. DemuxWords(q)
          BY <4>1, <4>2 DEF DemuxWords, DemuxOps, Rounds
        <4> QED
          BY <3>2, <4>1, <4>3
      <3> QED
        BY <2>2, <3>1, <3>2
    <2>5. DemuxProgram(q)
      BY <2>1, <2>4 DEF DemuxProgram
    <2>6. ~At("demux", "paused")
      BY <2>1 DEF At, D
    <2>7. \E p : Program(p) /\ D' = p \o Tail(D) /\ DemuxProgram(p)
      BY <2>3, <2>4, <2>5
    <2>8. task' \in [state : TaskStates, thread : BOOLEAN]
      BY <2>1 DEF Typed
    <2>9. Added /\ Told
      BY <2>1 DEF Added, Told
    <2> QED
      BY <1>0, <2>1, <2>3, <2>6, <2>7, <2>8, <2>9 DEF DemuxEffect
  <1>2. CASE CheckState
    <2>1. /\ Head(D)[1] \in {"check", "paused"} /\ core' = core
          /\ task.state = "PAUSED" => ~At("demux", "paused")
      BY <1>2 DEF CheckState, At, D
    <2>2. PICK q : /\ Then("demux", q)
                   /\ \/ /\ q = <<<<"paused", "">>>> /\ Head(D)[1] = "check"
                         /\ task' = [task EXCEPT !.state = "PAUSED"]
                      \/ q = <<>> /\ task' = [task EXCEPT !.state = "STOPPED"]
                      \/ q = <<<<"top", "">>>> /\ task' = task
      BY <1>2 DEF CheckState, At, D
    <2>3. D' = q \o Tail(D) /\ C' = C /\ prog' = [t \in Threads |-> prog'[t]]
      BY <2>2 DEF Then, Typed, C, D, Threads
    <2>4. Program(q)
      BY <2>2
    <2>5. DemuxProgram(q)
      BY <2>1, <2>2 DEF DemuxProgram
    <2>6. task' \in [state : TaskStates, thread : BOOLEAN] /\ task'.thread = task.thread
      <3>1. ASSUME NEW x \in TaskStates, task' = [task EXCEPT !.state = x]
            PROVE  task' \in [state : TaskStates, thread : BOOLEAN] /\ task'.thread = task.thread
        BY <3>1 DEF Typed
      <3>2. "PAUSED" \in TaskStates /\ "STOPPED" \in TaskStates
        BY DEF TaskStates
      <3>3. CASE task' = task
        BY <3>3 DEF Typed
      <3> QED
        BY <2>2, <3>1, <3>2, <3>3
    <2>7. /\ task'.state = "PAUSED" /\ task.state # "PAUSED" => q = <<<<"paused", "">>>> /\ Head(D)[1] = "check"
          /\ task'.state = "STOPPED" /\ task.state # "STOPPED" => q = <<>>
      BY <2>2 DEF Typed
    <2>8. \E p : Program(p) /\ D' = p \o Tail(D) /\ DemuxProgram(p)
      BY <2>3, <2>4, <2>5
    <2>9. Added /\ Told
      BY <2>1 DEF Added, Told
    <2> QED
      BY <1>0, <2>1, <2>3, <2>6, <2>7, <2>8, <2>9 DEF DemuxEffect
  <1> QED
    BY <1>1, <1>2

\* Pieces of a round.
LEMMA ShortInner ==
    ASSUME NEW a, NEW b, NEW c, NEW d, a[1] \in Inner, b[1] \in Inner, c[1] \in Inner, d[1] \in Inner
    PROVE  /\ \A i \in 1..Len(<<>>) : <<>>[i][1] \in Inner
           /\ \A i \in 1..Len(<<a>>) : <<a>>[i][1] \in Inner
           /\ \A i \in 1..Len(<<a, b>>) : <<a, b>>[i][1] \in Inner
           /\ \A i \in 1..Len(<<a, b, c, d>>) : <<a, b, c, d>>[i][1] \in Inner
  <1>1. \A i \in 1..Len(<<>>) : <<>>[i][1] \in Inner
    BY ShortPrograms
  <1>2. \A i \in 1..Len(<<a>>) : <<a>>[i][1] \in Inner
    BY ShortPrograms
  <1>3. \A i \in 1..Len(<<a, b>>) : <<a, b>>[i][1] \in Inner
    <2>1. PICK p : p = <<a, b>>
      OBVIOUS
    <2>2. Len(p) = 2 /\ p[1] = a /\ p[2] = b
      BY <2>1
    <2>3. \A i \in 1..Len(p) : p[i][1] \in Inner
      BY <2>2
    <2> QED
      BY <2>1, <2>3
  <1>4. \A i \in 1..Len(<<a, b, c, d>>) : <<a, b, c, d>>[i][1] \in Inner
    <2>1. PICK p : p = <<a, b, c, d>>
      OBVIOUS
    <2>2. Len(p) = 4 /\ p[1] = a /\ p[2] = b /\ p[3] = c /\ p[4] = d
      BY <2>1
    <2>3. \A i \in 1..Len(p) : p[i][1] \in Inner
      BY <2>2
    <2> QED
      BY <2>1, <2>3
  <1> QED
    BY <1>1, <1>2, <1>3, <1>4

\* A step of the demuxer's thread inside a round.
LEMMA InnerStep ==
    ASSUME Typed, NEW op \in Inner, At("demux", op), call' = call, Told,
           task' = task \/ task' = [task EXCEPT !.state = "PAUSING"], Added,
           \/ Then("demux", <<>>)
           \/ \E a : a[1] \in Inner /\ Then("demux", <<a>>)
           \/ \E a, b : a[1] \in Inner /\ b[1] \in Inner /\ Then("demux", <<a, b>>)
           \/ \E a, b, c, d : /\ a[1] \in Inner /\ b[1] \in Inner /\ c[1] \in Inner /\ d[1] \in Inner
                              /\ Then("demux", <<a, b, c, d>>)
    PROVE  DemuxEffect
  <1>1. D # <<>> /\ Head(D)[1] \in Inner
    BY DEF At, D
  <1>2. \E q : Program(q) /\ Then("demux", q) /\ \A i \in 1..Len(q) : q[i][1] \in Inner
    <2>1. CASE Then("demux", <<>>)
      BY <1>1, <2>1, ShortPrograms, ShortInner
    <2>2. ASSUME NEW a, a[1] \in Inner, Then("demux", <<a>>)
          PROVE  \E q : Program(q) /\ Then("demux", q) /\ \A i \in 1..Len(q) : q[i][1] \in Inner
      <3>1. Program(<<a>>) /\ \A i \in 1..Len(<<a>>) : <<a>>[i][1] \in Inner
        BY <2>2, ShortPrograms, ShortInner
      <3> QED
        BY <2>2, <3>1
    <2>3. ASSUME NEW a, NEW b, a[1] \in Inner, b[1] \in Inner, Then("demux", <<a, b>>)
          PROVE  \E q : Program(q) /\ Then("demux", q) /\ \A i \in 1..Len(q) : q[i][1] \in Inner
      <3>1. Program(<<a, b>>) /\ \A i \in 1..Len(<<a, b>>) : <<a, b>>[i][1] \in Inner
        BY <2>3, ShortPrograms, ShortInner
      <3> QED
        BY <2>3, <3>1
    <2>4. ASSUME NEW a, NEW b, NEW c, NEW d, a[1] \in Inner, b[1] \in Inner, c[1] \in Inner, d[1] \in Inner,
                 Then("demux", <<a, b, c, d>>)
          PROVE  \E q : Program(q) /\ Then("demux", q) /\ \A i \in 1..Len(q) : q[i][1] \in Inner
      <3>1. Program(<<a, b, c, d>>) /\ \A i \in 1..Len(<<a, b, c, d>>) : <<a, b, c, d>>[i][1] \in Inner
        BY <2>4, LongerPrograms, ShortInner
      <3> QED
        BY <2>4, <3>1
    <2> QED
      BY <2>1, <2>2, <2>3, <2>4, Zenon
  <1> QED
    BY <1>1, <1>2, InnerEffect, Zenon

\* Every step of the demuxer's thread is a DemuxEffect.
LEMMA DemuxEffects ==
    ASSUME Typed, Step("demux") \/ (SpuriousWakeup /\ UNCHANGED <<player, call>>)
    PROVE  DemuxEffect
  <1>0. \A op : At("demux", op) => op \in DemuxOps
    BY DemuxAt DEF At, D
  <1>1. CASE PathStep("demux") /\ UNCHANGED <<player, call>>
    <2>0. Told
      BY <1>1 DEF Told
    <2>1. ~(TaskStart("demux") \/ TaskPause("demux") \/ TaskStop("demux") \/ Await("demux") \/ Join("demux") \/ WakePusher("demux"))
      <3>1. \A op \in {"taskStart", "taskPause", "taskStop", "await", "join", "wake"} : ~At("demux", op)
        BY <1>0 DEF DemuxOps, Rounds
      <3> QED
        BY <3>1 DEF TaskStart, TaskPause, TaskStop, Await, Join, WakePusher
    <2>2. CASE PauseAsync("demux")
      <3>1. /\ At("demux", "pauseAsync") /\ Then("demux", <<>>) /\ core' = core
            /\ task' = task \/ task' = [task EXCEPT !.state = "PAUSING"]
        BY <2>2 DEF PauseAsync
      <3>2. Added /\ "pauseAsync" \in Inner
        BY <3>1 DEF Added, Inner, DemuxOps, Rounds
      <3> QED
        BY <1>1, <2>0, <3>1, <3>2, InnerStep
    <2>3. CASE Ready("demux")
      <3>1. /\ At("demux", "ready") /\ \E a : a[1] = "count" /\ Then("demux", <<a>>)
            /\ core' = core /\ task' = task
        BY <2>3 DEF Ready
      <3>2. Added /\ "ready" \in Inner /\ "count" \in Inner
        BY <3>1 DEF Added, Inner, DemuxOps, Rounds
      <3> QED
        BY <1>1, <2>0, <3>1, <3>2, InnerStep
    <2>4. CASE Count("demux")
      <3>1. /\ At("demux", "count") /\ core'.filters = core.filters /\ task' = task
            /\ \/ Then("demux", <<>>)
               \/ \E a, b : a[1] = "event" /\ b[1] = "countReset" /\ Then("demux", <<a, b>>)
        BY <2>4 DEF Count, Typed
      <3>2. Added /\ "count" \in Inner /\ "event" \in Inner /\ "countReset" \in Inner
        BY <3>1 DEF Added, Inner, DemuxOps, Rounds
      <3> QED
        BY <1>1, <2>0, <3>1, <3>2, InnerStep
    <2>5. CASE CountReset("demux")
      <3>1. At("demux", "countReset") /\ core'.filters = core.filters /\ task' = task /\ Then("demux", <<>>)
        BY <2>5 DEF CountReset, Typed
      <3>2. Added /\ "countReset" \in Inner
        BY <3>1 DEF Added, Inner, DemuxOps, Rounds
      <3> QED
        BY <1>1, <2>0, <3>1, <3>2, InnerStep
    <2>6. CASE RunHandler \/ CheckState
      BY <1>1, <2>6, RoundEffects
    <2>7. CASE ReadFrame
      <3>1. /\ At("demux", "loop") /\ core' = core /\ task' = task
            /\ \/ \E a : a[1] = "push" /\ Then("demux", <<a>>)
               \/ \E a, b : a[1] = "push" /\ b[1] = "pauseAsync" /\ Then("demux", <<a, b>>)
        BY <2>7 DEF ReadFrame
      <3>2. Added /\ "loop" \in Inner /\ "push" \in Inner /\ "pauseAsync" \in Inner
        BY <3>1 DEF Added, Inner, DemuxOps, Rounds
      <3> QED
        BY <1>1, <2>0, <3>1, <3>2, InnerStep
    <2>8. CASE GetMediaInfo
      <3>1. /\ At("demux", "loop") /\ core' = core /\ task' = task
            /\ \/ \E a, b : a[1] = "pauseAsync" /\ b[1] = "event" /\ Then("demux", <<a, b>>)
               \/ \E a, b, c, d : /\ a[1] = "addSink" /\ b[1] = "negotiate" /\ c[1] = "parsed" /\ d[1] = "ready"
                                  /\ Then("demux", <<a, b, c, d>>)
        BY <2>8 DEF GetMediaInfo
      <3>2. /\ Added /\ "loop" \in Inner /\ "event" \in Inner /\ "pauseAsync" \in Inner
            /\ "addSink" \in Inner /\ "negotiate" \in Inner /\ "parsed" \in Inner /\ "ready" \in Inner
        BY <3>1 DEF Added, Inner, DemuxOps, Rounds
      <3> QED
        BY <1>1, <2>0, <3>1, <3>2, InnerStep
    <2>9. CASE AddSink
      <3>1. At("demux", "addSink") /\ Then("demux", <<>>) /\ task' = task
        BY <2>9 DEF AddSink
      <3>2. Added
        BY <2>9 DEF AddSink, Added, Typed
      <3>3. "addSink" \in Inner
        BY DEF Inner, DemuxOps, Rounds
      <3> QED
        BY <1>1, <2>0, <3>1, <3>2, <3>3, InnerStep
    <2>10. CASE NegotiateDownstream
      <3>1. /\ At("demux", "negotiate") /\ core' = core /\ task' = task
            /\ \/ \E a : a[1] = "ready" /\ Then("demux", <<a>>)
               \/ \E a : a[1] = "event" /\ Then("demux", <<a>>)
               \/ \E a, b : a[1] = "pauseAsync" /\ b[1] = "event" /\ Then("demux", <<a, b>>)
        <4>1. At("demux", "negotiate") /\ core' = core /\ task' = task
          BY <2>10 DEF NegotiateDownstream
        <4>2. \/ Then("demux", <<<<"ready", "sink">>>>) \/ Then("demux", <<<<"event", "ERROR">>>>)
              \/ Then("demux", <<<<"pauseAsync", "">>, <<"event", "ERROR">>>>)
          BY <2>10 DEF NegotiateDownstream
        <4>3. CASE Then("demux", <<<<"ready", "sink">>>>)
          BY <4>1, <4>3
        <4>4. CASE Then("demux", <<<<"event", "ERROR">>>>)
          BY <4>1, <4>4
        <4>5. CASE Then("demux", <<<<"pauseAsync", "">>, <<"event", "ERROR">>>>)
          BY <4>1, <4>5
        <4> QED
          BY <4>2, <4>3, <4>4, <4>5
      <3>2. Added /\ "negotiate" \in Inner /\ "ready" \in Inner /\ "event" \in Inner /\ "pauseAsync" \in Inner
        BY <3>1 DEF Added, Inner, DemuxOps, Rounds
      <3> QED
        BY <1>1, <2>0, <3>1, <3>2, InnerStep
    <2>11. CASE Parsed \/ PushData \/ Block \/ Evaluate \/ Sleep \/ Write
      <3>1. PICK op \in {"parsed", "push", "block", "evaluate", "sleep", "write"} : At("demux", op)
        BY <2>11 DEF Parsed, PushData, Block, Evaluate, Sleep, Write
      <3>2. core' = core /\ task' = task
        BY <2>11 DEF Parsed, PushData, Block, Evaluate, Sleep, Write
      <3>3. \/ Then("demux", <<>>)
            \/ \E a : a[1] \in {"block", "write", "evaluate", "sleep", "asleep", "event"} /\ Then("demux", <<a>>)
        <4>1. CASE Parsed
          BY <4>1 DEF Parsed
        <4>2. CASE PushData
          BY <4>2 DEF PushData
        <4>3. CASE Block
          BY <4>3 DEF Block
        <4>4. CASE Evaluate
          BY <4>4 DEF Evaluate
        <4>5. CASE Sleep
          BY <4>5 DEF Sleep
        <4>6. CASE Write
          BY <4>6 DEF Write
        <4> QED
          BY <2>11, <4>1, <4>2, <4>3, <4>4, <4>5, <4>6
      <3>4. Added /\ op \in Inner /\ {"block", "write", "evaluate", "sleep", "asleep", "event"} \subseteq Inner
        BY <3>2 DEF Added, Inner, DemuxOps, Rounds
      <3>5. Then("demux", <<>>) \/ \E a : a[1] \in Inner /\ Then("demux", <<a>>)
        BY <3>3, <3>4
      <3> QED
        BY <1>1, <2>0, <3>1, <3>2, <3>4, <3>5, InnerStep
    <2> QED
      BY <1>1, <2>1, <2>2, <2>3, <2>4, <2>5, <2>6, <2>7, <2>8, <2>9, <2>10, <2>11 DEF PathStep
  <1>2. CASE HandleErrorEvent("demux")
    <2>1. At("demux", "event") /\ Then("demux", <<>>) /\ UNCHANGED <<task, core, call>>
      BY <1>2 DEF HandleErrorEvent, unchangedPath
    <2>2. Added /\ Told
      BY <1>2, <2>1 DEF HandleErrorEvent, Added, Told, Typed
    <2>3. "event" \in Inner
      BY DEF Inner, DemuxOps, Rounds
    <2> QED
      BY <2>1, <2>2, <2>3, InnerStep
  <1>3. CASE HandleReadyEvent("demux") \/ HandleCompleteEvent("demux")
    <2>1. /\ At("demux", "event") /\ UNCHANGED <<task, core, call>>
          /\ prog' = [prog EXCEPT !["demux"] = Tail(@),
                                  !["client"] = IF Waiting THEN <<<<"awaitReady", "">>>> ELSE @]
      BY <1>3 DEF HandleReadyEvent, HandleCompleteEvent, ChangeState, unchangedPath
    <2>2. Added /\ Told
      <3>1. CASE HandleReadyEvent("demux")
        BY <2>1, <3>1 DEF HandleReadyEvent, ChangeState, Added, Told
      <3>2. CASE HandleCompleteEvent("demux")
        BY <2>1, <3>2 DEF HandleCompleteEvent, ChangeState, Added, Told, Typed
      <3> QED
        BY <1>3, <3>1, <3>2
    <2>3. /\ D' = Tail(D) /\ prog' = [t \in Threads |-> prog'[t]]
          /\ C' = C \/ (At("client", "waiting") /\ C' = <<<<"awaitReady", "">>>>)
      BY <2>1 DEF Typed, C, D, Threads, Waiting
    <2>4. D # <<>> /\ Head(D)[1] = "event"
      BY <2>1 DEF At, D
    <2>5. D' = <<>> \o Tail(D)
      BY <2>3, <2>4, ProgramElements DEF Typed
    <2>6. DemuxProgram(<<>>)
      BY <2>4, ShortPrograms DEF DemuxProgram, Inner, DemuxOps, Rounds
    <2>7. ~At("demux", "paused")
      BY <2>4 DEF At, D
    <2>8. \E q : Program(q) /\ D' = q \o Tail(D) /\ DemuxProgram(q)
      BY <2>5, <2>6, ShortPrograms
    <2>9. task' \in [state : TaskStates, thread : BOOLEAN]
      BY <2>1 DEF Typed
    <2> QED
      BY <2>1, <2>2, <2>3, <2>4, <2>7, <2>8, <2>9 DEF DemuxEffect
  <1>4. CASE SpuriousWakeup /\ UNCHANGED <<player, call>>
    <2>1. At("demux", "asleep") /\ UNCHANGED <<core, task>> /\ \E a : a[1] = "evaluate" /\ Then("demux", <<a>>)
      BY <1>4 DEF SpuriousWakeup
    <2>2. Added /\ Told /\ "asleep" \in Inner /\ "evaluate" \in Inner
      BY <1>4, <2>1 DEF Added, Told, Inner, DemuxOps, Rounds
    <2> QED
      BY <1>4, <2>1, <2>2, InnerStep
  <1> QED
    BY <1>1, <1>2, <1>3, <1>4 DEF Step
-----------------------------------------------------------------------------
(* What a call puts into the program of the client.                         *)

StopOps == {"stopTask", "taskStop", "join", "coreStop", "stop", "unlink", "coreRemove"}

(* A seek comes first, or there is none.                                    *)
SeekFirst(p) ==
    \/ \A k \in 1..Len(p) : p[k][1] \notin {"seekTo", "coreFlush"}
    \/ /\ Len(p) \in {3, 4} /\ p[1] = <<"coreFlush", "flushStart">> /\ p[2][1] = "seekTo"
       /\ p[3] = <<"coreFlush", "flushEnd">>
       /\ Len(p) = 4 => p[4] = <<"setState", "STARTED">>

(* No step of a Stop.                                                       *)
NotStop(p) ==
    \A k \in 1..Len(p) : p[k][1] \notin StopOps /\ ~(p[k][1] = "setState" /\ p[k][2] = "STOPPED")

(* No call begins with one of these.                                        *)
NeverCalled == {"init", "failed", "prepare", "start", "pause", "resume", "ready", "count", "countReset",
                "event"}

USE DEF NeverCalled

CallProgram(p) ==
    /\ Program(p) /\ WordsOk(p) /\ SeekFirst(p) /\ NotStop(p)
    /\ \A k \in 1..Len(p) : p[k][1] \notin NeverCalled
    /\ Len(p) >= 2

\* The parts of a pair.
LEMMA Pairs == \A a, b : <<a, b>>[1] = a /\ <<a, b>>[2] = b
  OBVIOUS

\* The steps that the API calls of HiPlayerImpl begin with are well formed.
LEMMA CallWords ==
    /\ WordOk(<<"init", "">>) /\ WordOk(<<"setSource", "">>) /\ WordOk(<<"corePrepare", "">>)
    /\ WordOk(<<"awaitReady", "">>) /\ WordOk(<<"seekTo", "">>) /\ WordOk(<<"coreResume", "">>)
    /\ WordOk(<<"coreStart", "">>) /\ WordOk(<<"corePause", "">>) /\ WordOk(<<"stopTask", "">>)
    /\ WordOk(<<"coreStop", "">>) /\ WordOk(<<"coreFlush", "flushStart">>)
    /\ WordOk(<<"coreFlush", "flushEnd">>)
    /\ \A x \in {"PREPARING", "STARTED", "PAUSED", "STOPPED"} : WordOk(<<"setState", x>>)
  BY DEF WordOk, BareOps, FilterOps

\* One program after another.
LEMMA JoinedPrograms ==
    ASSUME NEW p, NEW q, Program(p), Program(q)
    PROVE  /\ Program(p \o q) /\ Len(p \o q) = Len(p) + Len(q) /\ Len(p) \in Nat /\ Len(q) \in Nat
           /\ \A i \in 1..Len(p) : (p \o q)[i] = p[i]
           /\ \A i \in 1..(Len(p) + Len(q)) : i > Len(p) => (p \o q)[i] = q[i - Len(p)] /\ i - Len(p) \in 1..Len(q)
  <1>1. PICK R : p \in Seq(R)
    BY DEF Program
  <1>2. PICK S : q \in Seq(S)
    BY DEF Program
  <1>3. p \in Seq(R \cup S) /\ q \in Seq(R \cup S)
    BY <1>1, <1>2
  <1>4. p \o q \in Seq(R \cup S) /\ Len(p \o q) = Len(p) + Len(q) /\ Len(p) \in Nat /\ Len(q) \in Nat
    BY <1>3
  <1>5. \A i \in 1..Len(p) : (p \o q)[i] = p[i]
    BY <1>3
  <1>6. ASSUME NEW i \in 1..(Len(p) + Len(q)), i > Len(p)
        PROVE  (p \o q)[i] = q[i - Len(p)] /\ i - Len(p) \in 1..Len(q)
    BY <1>3, <1>6
  <1> QED
    BY <1>4, <1>5, <1>6 DEF Program

(* A step that is neither of a seek nor of a stop.                          *)
Harmless(x) ==
    /\ x[1] \notin {"seekTo", "coreFlush"} /\ x[1] \notin NeverCalled /\ x[1] \notin StopOps
    /\ ~(x[1] = "setState" /\ x[2] = "STOPPED") /\ WordOk(x)

AllHarmless(p) == Program(p) /\ \A k \in 1..Len(p) : Harmless(p[k])

\* Programs put together from harmless steps are harmless.
LEMMA HarmlessCalls ==
    /\ AllHarmless(<<>>)
    /\ \A a : Harmless(a) => AllHarmless(<<a>>)
    /\ \A a, b : Harmless(a) /\ Harmless(b) => AllHarmless(<<a, b>>) /\ Len(<<a, b>>) = 2
    /\ \A p, q : AllHarmless(p) /\ AllHarmless(q) => AllHarmless(p \o q) /\ Len(p \o q) = Len(p) + Len(q)
    /\ \A p : AllHarmless(p) => Len(p) \in Nat /\ (Len(p) >= 2 => CallProgram(p))
  <1>1. AllHarmless(<<>>) /\ \A a : Harmless(a) => AllHarmless(<<a>>)
    BY ShortPrograms DEF AllHarmless
  <1>2. \A a, b : Harmless(a) /\ Harmless(b) => AllHarmless(<<a, b>>) /\ Len(<<a, b>>) = 2
    <2>1. ASSUME NEW p, NEW a, NEW b, Program(p), Len(p) = 2, p[1] = a, p[2] = b, Harmless(a), Harmless(b)
          PROVE  AllHarmless(p)
      BY <2>1 DEF AllHarmless
    <2> QED
      BY <2>1, ShortPrograms, Zenon
  <1>3. ASSUME NEW p, NEW q, AllHarmless(p), AllHarmless(q)
        PROVE  AllHarmless(p \o q) /\ Len(p \o q) = Len(p) + Len(q)
    <2>1. Program(p) /\ Program(q)
      BY <1>3 DEF AllHarmless
    <2>2. ASSUME NEW k \in 1..Len(p \o q) PROVE Harmless((p \o q)[k])
      <3>1. k \in 1..Len(p) \/ (k \in 1..(Len(p) + Len(q)) /\ k > Len(p))
        BY <2>1, <2>2, JoinedPrograms
      <3>2. CASE k \in 1..Len(p)
        BY <1>3, <2>1, <3>2, JoinedPrograms DEF AllHarmless
      <3>3. CASE k \in 1..(Len(p) + Len(q)) /\ k > Len(p)
        BY <1>3, <2>1, <3>3, JoinedPrograms DEF AllHarmless
      <3> QED
        BY <3>1, <3>2, <3>3
    <2> QED
      BY <2>1, <2>2, JoinedPrograms DEF AllHarmless
  <1>4. ASSUME NEW p, AllHarmless(p) PROVE Len(p) \in Nat /\ (Len(p) >= 2 => CallProgram(p))
    <2>1. Program(p) /\ Len(p) \in Nat
      BY <1>4, ProgramElements DEF AllHarmless
    <2>2. WordsOk(p) /\ SeekFirst(p) /\ NotStop(p) /\ \A k \in 1..Len(p) : p[k][1] \notin NeverCalled
      BY <1>4 DEF AllHarmless, Harmless, WordsOk, SeekFirst, NotStop
    <2> QED
      BY <2>1, <2>2 DEF CallProgram
  <1> QED
    BY <1>1, <1>2, <1>3, <1>4

\* A seek, alone or with the state that Play sets.
LEMMA SeekCalls ==
    /\ CallProgram(DoSeek)
    /\ CallProgram(DoSeek \o <<<<"setState", "STARTED">>>>)
  <1>1. ASSUME NEW p, Program(p), WordsOk(p), Len(p) = 3 \/ Len(p) = 4,
               p[1] = <<"coreFlush", "flushStart">>, p[2][1] = "seekTo",
               p[3] = <<"coreFlush", "flushEnd">>, Len(p) = 4 => p[4] = <<"setState", "STARTED">>
        PROVE  CallProgram(p)
    <2>0. Len(p) = 3 \/ Len(p) = 4
      BY <1>1
    <2>1. \A k \in 1..Len(p) : k = 1 \/ k = 2 \/ k = 3 \/ (k = 4 /\ Len(p) = 4)
      BY <2>0
    <2>2. SeekFirst(p)
      BY <1>1 DEF SeekFirst
    <2>3. ASSUME NEW k \in 1..Len(p)
          PROVE  /\ p[k][1] \notin StopOps /\ ~(p[k][1] = "setState" /\ p[k][2] = "STOPPED")
                 /\ p[k][1] \notin NeverCalled
      <3>1. \/ p[k][1] \in {"coreFlush", "seekTo"}
            \/ p[k][1] = "setState" /\ p[k][2] = "STARTED"
        BY <1>1, <2>1, <2>3
      <3> QED
        BY <3>1 DEF StopOps
    <2>4. Len(p) >= 2
      BY <1>1
    <2>5. NotStop(p)
      BY <2>3 DEF NotStop
    <2> QED
      BY <1>1, <2>2, <2>3, <2>4, <2>5 DEF CallProgram
  <1>2. PICK a, b, c, d : /\ a = <<"coreFlush", "flushStart">> /\ b = <<"seekTo", "">>
                          /\ c = <<"coreFlush", "flushEnd">> /\ d = <<"setState", "STARTED">>
    OBVIOUS
  <1>3. DoSeek = <<a, b, c>>
    BY <1>2 DEF DoSeek
  <1>4. b[1] = "seekTo"
    BY <1>2, Pairs, Zenon
  <1>5. a = <<"coreFlush", "flushStart">> /\ c = <<"coreFlush", "flushEnd">> /\ d = <<"setState", "STARTED">>
    BY <1>2
  <1>6. WordOk(a) /\ WordOk(b) /\ WordOk(c) /\ WordOk(d)
    BY <1>2, CallWords, Zenon
  <1>7. CallProgram(<<a, b, c>>)
    <2>1. PICK p : p = <<a, b, c>>
      OBVIOUS
    <2>2. Program(p) /\ Len(p) = 3 /\ p[1] = a /\ p[2] = b /\ p[3] = c
      BY <2>1, LongerPrograms
    <2>3. WordsOk(p)
      BY <1>6, <2>2 DEF WordsOk
    <2>4. CallProgram(p)
      BY <1>1, <1>4, <1>5, <2>2, <2>3
    <2> QED
      BY <2>1, <2>4
  <1>8. CallProgram(<<a, b, c>> \o <<d>>)
    <2>1. PICK q : q = <<a, b, c>>
      OBVIOUS
    <2>2. Program(q) /\ Len(q) = 3 /\ q[1] = a /\ q[2] = b /\ q[3] = c
      BY <2>1, LongerPrograms
    <2>3. PICK p : p = q \o <<d>>
      OBVIOUS
    <2>4. WordsOk(q)
      BY <1>6, <2>2 DEF WordsOk
    <2>5. Program(p) /\ WordsOk(p) /\ Len(p) = 4 /\ p[1] = a /\ p[2] = b /\ p[3] = c /\ p[4] = d
      <3>1. 1 \in 1..Len(q) /\ 2 \in 1..Len(q) /\ 3 \in 1..Len(q) /\ Len(q) + 1 = 4
        BY <2>2
      <3>2. /\ Program(p) /\ Len(p) = Len(q) + 1 /\ \A i \in 1..Len(q) : p[i] = q[i]
            /\ p[Len(q) + 1] = d /\ WordsOk(p)
        <4>1. /\ Program(q \o <<d>>) /\ Len(q \o <<d>>) = Len(q) + 1
              /\ \A i \in 1..Len(q) : (q \o <<d>>)[i] = q[i]
              /\ (q \o <<d>>)[Len(q) + 1] = d
          <5>1. Program(q)
            BY <2>2
          <5>2. Program(q \o <<d>>) /\ Len(q \o <<d>>) = Len(q) + 1
            BY <5>1, MoreSteps
          <5>3. \A i \in 1..Len(q) : (q \o <<d>>)[i] = q[i]
            BY <5>1, MoreSteps
          <5>4. (q \o <<d>>)[Len(q) + 1] = d
            BY <5>1, MoreSteps
          <5> QED
            BY <5>2, <5>3, <5>4, Zenon
        <4>2. WordsOk(q \o <<d>>)
          BY <1>6, <2>2, <2>4, MoreSteps
        <4> QED
          BY <2>3, <4>1, <4>2
      <3>3. p[1] = q[1] /\ p[2] = q[2] /\ p[3] = q[3]
        BY <3>1, <3>2, Zenon
      <3>4. Len(p) = 4 /\ p[4] = d
        BY <3>1, <3>2
      <3> QED
        BY <2>2, <3>2, <3>3, <3>4, Zenon
    <2>6. CallProgram(p)
      BY <1>1, <1>4, <1>5, <2>5
    <2> QED
      BY <2>1, <2>3, <2>6
  <1> QED
    BY <1>3, <1>5, <1>7, <1>8, Zenon

(* The calls.                                                               *)
CallEffect ==
    /\ C = <<>> /\ D' = D /\ prog' = [t \in Threads |-> prog'[t]]
    /\ UNCHANGED <<task, demuxer, sink, core, player>>
    /\ \/ player.state = "IDLE" /\ call' = "SetSource" /\ C' = <<<<"init", "">>, <<"setSource", "">>>>
       \/ /\ player.state # "IDLE" /\ call' # "Stop" /\ CallProgram(C')
          /\ player.state = "STOPPED" => C'[1][1] = "setSource"
       \/ /\ player.state \notin {"IDLE", "STOPPED"} /\ call' = "Stop"
          /\ C' = <<<<"stopTask", "">>, <<"coreStop", "">>, <<"setState", "STOPPED">>>>

\* A call of the API is a CallEffect.
LEMMA CallEffects ==
    ASSUME Typed, Call
    PROVE  CallEffect
  <1>1. ASSUME NEW name, NEW p, Invoke(name, p)
        PROVE  /\ C = <<>> /\ D' = D /\ prog' = [t \in Threads |-> prog'[t]]
               /\ UNCHANGED <<task, demuxer, sink, core, player>> /\ call' = name /\ C' = p
    BY <1>1 DEF Invoke, Idle, unchangedPath, Typed, C, D, Threads
  <1>2. /\ Harmless(<<"setSource", "">>) /\ Harmless(<<"corePrepare", "">>)
        /\ Harmless(<<"awaitReady", "">>) /\ Harmless(<<"coreResume", "">>)
        /\ Harmless(<<"coreStart", "">>) /\ Harmless(<<"corePause", "">>)
        /\ \A x \in {"PREPARING", "STARTED", "PAUSED"} : Harmless(<<"setState", x>>)
    <2>1. ASSUME NEW o \in {"setSource", "corePrepare", "awaitReady", "coreResume", "coreStart", "corePause"},
                 NEW e, WordOk(<<o, e>>)
          PROVE  Harmless(<<o, e>>)
      BY <2>1 DEF Harmless, StopOps
    <2>2. ASSUME NEW x \in {"PREPARING", "STARTED", "PAUSED"} PROVE Harmless(<<"setState", x>>)
      BY CallWords DEF Harmless, StopOps
    <2>3. PICK e : e = ""
      OBVIOUS
    <2>4. /\ Harmless(<<"setSource", e>>) /\ Harmless(<<"corePrepare", e>>)
          /\ Harmless(<<"awaitReady", e>>) /\ Harmless(<<"coreResume", e>>)
          /\ Harmless(<<"coreStart", e>>) /\ Harmless(<<"corePause", e>>)
      <3>1. /\ WordOk(<<"setSource", e>>) /\ WordOk(<<"corePrepare", e>>)
            /\ WordOk(<<"awaitReady", e>>) /\ WordOk(<<"coreResume", e>>)
            /\ WordOk(<<"coreStart", e>>) /\ WordOk(<<"corePause", e>>)
        BY <2>3, CallWords, Zenon
      <3> QED
        BY <2>1, <3>1
    <2> QED
      BY <2>2, <2>3, <2>4, Zenon
  <1>3. CASE SetSource
    BY <1>1, <1>3 DEF SetSource, CallEffect
  <1>4. CASE Prepare \/ PrepareAsync
    <2> DEFINE a == IF player.state = "STOPPED" THEN <<<<"setSource", "">>>> ELSE <<>>
               b == <<<<"corePrepare", "">>, <<"setState", "PREPARING">>>>
               c == <<<<"awaitReady", "">>>>
    <2>1. /\ player.state \in {"INITIALIZED", "STOPPED"}
          /\ \/ Invoke("Prepare", (a \o b) \o c)
             \/ Invoke("PrepareAsync", a \o b)
      BY <1>4 DEF Prepare, PrepareAsync, PrepareSteps
    <2>2. AllHarmless(a) /\ AllHarmless(b) /\ AllHarmless(c) /\ Len(b) = 2
      BY <1>2, HarmlessCalls, Zenon
    <2>3. player.state = "STOPPED" => Program(a) /\ Len(a) = 1 /\ a[1][1] = "setSource"
      BY ShortPrograms, Pairs, Zenon
    <2> HIDE DEF a, b, c
    <2>4. AllHarmless(a \o b) /\ Len(a \o b) = Len(a) + 2 /\ Len(a) \in Nat /\ Len(c) \in Nat
      BY <2>2, HarmlessCalls, Zenon
    <2>5. AllHarmless((a \o b) \o c) /\ Len((a \o b) \o c) = Len(a) + 2 + Len(c)
      BY <2>2, <2>4, HarmlessCalls, Zenon
    <2>6. CallProgram(a \o b) /\ CallProgram((a \o b) \o c)
      <3>1. Len(a \o b) >= 2 /\ Len((a \o b) \o c) >= 2
        BY <2>4, <2>5
      <3> QED
        BY <2>4, <2>5, <3>1, HarmlessCalls, Zenon
    <2>7. player.state = "STOPPED" => (a \o b)[1][1] = "setSource" /\ ((a \o b) \o c)[1][1] = "setSource"
      <3> SUFFICES ASSUME player.state = "STOPPED"
                   PROVE  (a \o b)[1] = a[1] /\ ((a \o b) \o c)[1] = (a \o b)[1]
        BY <2>3
      <3>1. Program(a) /\ Program(b) /\ Program(c) /\ Program(a \o b)
        BY <2>2, <2>4 DEF AllHarmless
      <3>2. 1 \in 1..Len(a) /\ 1 \in 1..Len(a \o b)
        <4>1. \A n \in Nat : 1 \in 1..(n + 2)
          OBVIOUS
        <4>2. 1 \in 1..1
          OBVIOUS
        <4> QED
          BY <2>3, <2>4, <4>1, <4>2, Zenon
      <3>3. (a \o b)[1] = a[1]
        BY <3>1, <3>2, JoinedPrograms
      <3>4. ((a \o b) \o c)[1] = (a \o b)[1]
        BY <3>1, <3>2, JoinedPrograms
      <3> QED
        BY <3>3, <3>4
    <2>8. ASSUME NEW name \in {"Prepare", "PrepareAsync"}, NEW p, Invoke(name, p), CallProgram(p),
                 player.state = "STOPPED" => p[1][1] = "setSource"
          PROVE  CallEffect
      BY <1>1, <2>1, <2>8 DEF CallEffect
    <2> QED
      BY <2>1, <2>6, <2>7, <2>8
  <1>5. ASSUME NEW name \in {"Play", "Pause", "Seek"}, NEW p, Invoke(name, p), CallProgram(p),
               player.state \notin {"IDLE", "STOPPED"}
        PROVE  CallEffect
    <2>1. name # "Stop" /\ player.state # "IDLE" /\ player.state # "STOPPED"
      BY <1>5
    <2>2. /\ C = <<>> /\ D' = D /\ prog' = [t \in Threads |-> prog'[t]]
          /\ UNCHANGED <<task, demuxer, sink, core, player>> /\ call' = name /\ C' = p
      BY <1>1, <1>5
    <2>3. CallProgram(C')
      BY <1>5, <2>2, Zenon
    <2> QED
      BY <2>1, <2>2, <2>3, Zenon DEF CallEffect
  <1>6. CASE Play
    <2> DEFINE a == <<<<"coreResume", "">>>>
               b == <<<<"coreStart", "">>>>
               c == <<<<"setState", "STARTED">>>>
    <2>1. /\ player.state \notin {"IDLE", "STOPPED"}
          /\ Invoke("Play", DoSeek \o c) \/ Invoke("Play", a \o c) \/ Invoke("Play", b \o c)
      BY <1>6 DEF Play
    <2>2. AllHarmless(a) /\ AllHarmless(b) /\ AllHarmless(c)
      BY <1>2, HarmlessCalls, Zenon
    <2>3. Len(a) = 1 /\ Len(b) = 1 /\ Len(c) = 1
      BY ShortPrograms, Zenon
    <2>4. CallProgram(DoSeek \o c)
      BY SeekCalls
    <2> HIDE DEF a, b, c
    <2>5. /\ AllHarmless(a \o c) /\ Len(a \o c) = Len(a) + Len(c)
          /\ AllHarmless(b \o c) /\ Len(b \o c) = Len(b) + Len(c)
      BY <2>2, HarmlessCalls, Zenon
    <2>6. Len(a \o c) >= 2 /\ Len(b \o c) >= 2
      BY <2>3, <2>5
    <2>7. CallProgram(a \o c) /\ CallProgram(b \o c)
      BY <2>5, <2>6, HarmlessCalls, Zenon
    <2> QED
      BY <1>5, <2>1, <2>4, <2>7
  <1>7. CASE Pause
    <2> DEFINE p == <<<<"corePause", "">>, <<"setState", "PAUSED">>>>
    <2>1. player.state \notin {"IDLE", "STOPPED"} /\ Invoke("Pause", p)
      BY <1>7 DEF Pause
    <2>2. AllHarmless(p) /\ Len(p) = 2
      BY <1>2, HarmlessCalls, Zenon
    <2> HIDE DEF p
    <2>3. Len(p) >= 2
      BY <2>2
    <2>4. CallProgram(p)
      BY <2>2, <2>3, HarmlessCalls, Zenon
    <2> QED
      BY <1>5, <2>1, <2>4
  <1>8. CASE Seek
    <2>1. player.state \notin {"IDLE", "STOPPED"} /\ Invoke("Seek", DoSeek)
      BY <1>8 DEF Seek
    <2> QED
      BY <1>5, <2>1, SeekCalls
  <1>9. CASE Stop
    BY <1>1, <1>9 DEF Stop, CallEffect
  <1> QED
    BY <1>3, <1>4, <1>6, <1>7, <1>8, <1>9 DEF Call
-----------------------------------------------------------------------------
(* A seek and the demuxer's thread.                                         *)

Nil == ""

MidOps == PlainOps \cup {"await", "join", "taskStop", "taskPause", "stop", "coreRemove", "flushStart",
                         "unlink", "setState"}

\* A step is never followed by a new seek or by another Init.
LEMMA NewSteps ==
    ASSUME core.filters \in FilterLists, NEW s, WordOk(s), NEW q, Program(q), ProgramEffect(s, q)
    PROVE  \A i \in 1..Len(q) : q[i][1] \in MidOps
  <1>1. CASE s[1] \notin ProperOps
    BY <1>1 DEF ProgramEffect, MidOps
  <1>2. CASE q = <<>>
    BY <1>2, ShortPrograms
  <1>3. ASSUME NEW a, q = <<a>>, a[1] \in MidOps PROVE \A i \in 1..Len(q) : q[i][1] \in MidOps
    BY <1>3, ShortPrograms
  <1>4. ASSUME NEW a, NEW b, Len(q) = 2, q[1] = a, q[2] = b, a[1] \in MidOps, b[1] \in MidOps
        PROVE  \A i \in 1..Len(q) : q[i][1] \in MidOps
    BY <1>4
  <1>5. ASSUME NEW op \in MidOps, NEW e PROVE <<op, e>>[1] \in MidOps
    BY <1>5, Pairs
  <1>6. /\ "await" \in MidOps /\ "join" \in MidOps /\ "taskStop" \in MidOps /\ "unlink" \in MidOps
        /\ "wake" \in MidOps /\ "taskPause" \in MidOps /\ "setState" \in MidOps /\ "coreRemove" \in MidOps
        /\ "stop" \in MidOps /\ "flushStart" \in MidOps /\ "flushEnd" \in MidOps
    BY DEF MidOps, PlainOps
  <1>7. CASE s[1] \in {"join", "wake", "seekTo", "unlink", "coreRemove", "setState", "init", "await"}
    <2>1. q = <<>>
      BY <1>7 DEF ProgramEffect
    <2> QED
      BY <1>2, <2>1
  <1>8. CASE s[1] \in {"taskPause", "stopTask", "flushStart"} \/ (s[1] = "stop" /\ s[2] # "demuxer")
    <2>1. q = <<>> \/ (\E X : q = <<<<"await", X>>>>) \/ (\E e : q = <<<<"taskStop", e>>>>)
             \/ (\E e : q = <<<<"taskPause", e>>>>) \/ (\E e : q = <<<<"wake", e>>>>)
      <3>1. CASE s[1] = "taskPause"
        BY <3>1, Zenon DEF ProgramEffect
      <3>2. CASE s[1] = "stopTask"
        BY <3>2, Zenon DEF ProgramEffect
      <3>3. CASE s[1] = "flushStart"
        BY <3>3, Zenon DEF ProgramEffect
      <3>4. CASE s[1] = "stop" /\ s[2] # "demuxer"
        BY <3>4, Zenon DEF ProgramEffect
      <3> QED
        BY <1>8, <3>1, <3>2, <3>3, <3>4
    <2> QED
      BY <1>2, <1>3, <1>5, <1>6, <2>1, Zenon
  <1>9. CASE s[1] \in {"setSource", "failed"}
    <2>1. q = <<>> \/ \E x : q = <<<<"setState", x>>>>
      BY <1>9 DEF ProgramEffect
    <2> QED
      BY <1>2, <1>3, <1>5, <1>6, <2>1, Zenon
  <1>10. CASE s[1] = "taskStop" \/ (s[1] = "stop" /\ s[2] = "demuxer")
    <2>1. q = <<>> \/ \E a, b : q = <<a, b>> /\ a[1] \in MidOps /\ b[1] \in MidOps
      <3>1. CASE s[1] = "taskStop"
        <4>1. q = <<>> \/ q = <<<<"await", {"STOPPED"}>>, <<"join", "">>>>
          BY <3>1, Zenon DEF ProgramEffect
        <4> QED
          BY <1>5, <1>6, <4>1, Zenon
      <3>2. CASE s[1] = "stop" /\ s[2] = "demuxer"
        <4>1. q = <<<<"taskStop", "">>, <<"unlink", "">>>>
          BY <3>2, Zenon DEF ProgramEffect
        <4> QED
          BY <1>5, <1>6, <4>1, Zenon
      <3> QED
        BY <1>10, <3>1, <3>2
    <2>2. ASSUME NEW a, NEW b, q = <<a, b>>, a[1] \in MidOps, b[1] \in MidOps
          PROVE  \A i \in 1..Len(q) : q[i][1] \in MidOps
      <3>1. Len(q) = 2 /\ q[1] = a /\ q[2] = b
        BY <2>2, ShortPrograms
      <3> QED
        BY <1>4, <2>2, <3>1
    <2> QED
      BY <1>2, <2>1, <2>2, Zenon
  <1>11. CASE s[1] = "coreFlush"
    <2>1. q = ForFilters(s[2]) /\ s[2] \in {"flushStart", "flushEnd"}
      BY <1>11 DEF ProgramEffect, WordOk
    <2>2. \A i \in 1..Len(q) : \E f \in Filters : q[i] = <<s[2], f>>
      BY <2>1, Spread
    <2> QED
      BY <1>6, <2>1, <2>2
  <1>12. CASE s[1] = "coreStop"
    <2> DEFINE F == ForFilters("stop")
    <2>1. q = F \o <<<<"coreRemove", "">>>>
      BY <1>12, Zenon DEF ProgramEffect
    <2>2. Program(F) /\ \A i \in 1..Len(F) : \E f \in Filters : F[i] = <<"stop", f>>
      BY Spread
    <2>3. \A i \in 1..Len(F) : F[i][1] \in MidOps
      BY <1>5, <1>6, <2>2, Zenon
    <2> HIDE DEF F
    <2>4. PICK a : a = <<"coreRemove", "">> /\ a[1] \in MidOps
      BY <1>5, <1>6, Zenon
    <2>5. q = F \o <<a>>
      BY <2>1, <2>4, Zenon
    <2>6. \A i \in 1..Len(F) : (F \o <<a>>)[i] = F[i]
      BY <2>2, MoreSteps
    <2>7. Len(F \o <<a>>) = Len(F) + 1 /\ Len(F) \in Nat /\ (F \o <<a>>)[Len(F) + 1] = a
      BY <2>2, MoreSteps
    <2>8. a[1] \in MidOps
      BY <2>4
    <2>9. \A i \in 1..Len(q) : i \in 1..Len(F) \/ i = Len(F) + 1
      BY <2>5, <2>7
    <2> QED
      BY <2>3, <2>5, <2>6, <2>7, <2>8, <2>9, Zenon
  <1> QED
    BY <1>1, <1>7, <1>8, <1>9, <1>10, <1>11, <1>12 DEF ProperOps

(* The steps during which the demuxer has to be quiet, the ones that may come
   before them, and the ones that see to it.                                *)
SeekT == {<<"seekTo", Nil>>, <<"coreFlush", "flushEnd">>}

SeekM == {<<"taskPause", Nil>>, <<"coreFlush", "flushStart">>, <<"flushStart", "demuxer">>}
            \cup {<<"await", X>> : X \in SUBSET Calm}

SeekV == SeekM \cup {<<"seekTo", Nil>>, <<"wake", Nil>>} \cup {<<"flushStart", f>> : f \in Filters}

SeekOk == Guarded(C, SeekT, SeekV, SeekM, task.state, Calm)

\* Which steps are targets, makers and keepers of the pause, by name.
LEMMA SeekWords ==
    ASSUME NEW s, WordOk(s)
    PROVE  /\ s \in SeekT <=> s[1] = "seekTo" \/ (s[1] = "coreFlush" /\ s[2] = "flushEnd")
           /\ s \in SeekM <=> \/ s[1] \in {"taskPause", "await"}
                              \/ s[1] = "coreFlush" /\ s[2] = "flushStart"
                              \/ s[1] = "flushStart" /\ s[2] = "demuxer"
           /\ s \in SeekV <=> \/ s[1] \in {"taskPause", "await", "seekTo", "wake", "flushStart"}
                              \/ s[1] = "coreFlush" /\ s[2] = "flushStart"
  <1>1. s[1] \in BareOps => s[2] = Nil
    BY Zenon DEF WordOk, Nil
  <1>2. s = <<s[1], s[2]>>
    BY Zenon DEF WordOk
  <1>3. /\ s[1] \in {"taskPause", "seekTo", "wake"} => s[2] = Nil
        /\ s[1] = "flushStart" => s[2] \in Filters
        /\ s[1] = "await" => s[2] \in SUBSET Calm
    BY <1>1 DEF WordOk, BareOps, FilterOps
  <1>4. PICK a, b : a = s[1] /\ b = s[2]
    OBVIOUS
  <1>5. s = <<a, b>>
    BY <1>2, <1>4
  <1>6. \A o, e : s = <<o, e>> <=> a = o /\ b = e
    BY <1>5, Pairs, Zenon
  <1>7. s \in SeekT <=> a = "seekTo" \/ (a = "coreFlush" /\ b = "flushEnd")
    <2>1. s \in SeekT <=> s = <<"seekTo", Nil>> \/ s = <<"coreFlush", "flushEnd">>
      BY DEF SeekT
    <2> QED
      BY <1>3, <1>4, <1>6, <2>1
  <1>8. s \in SeekM <=> \/ a = "taskPause" \/ a = "await"
                        \/ a = "coreFlush" /\ b = "flushStart"
                        \/ a = "flushStart" /\ b = "demuxer"
    <2>1. s \in SeekM <=> \/ s = <<"taskPause", Nil>> \/ s = <<"coreFlush", "flushStart">>
                          \/ s = <<"flushStart", "demuxer">> \/ \E X \in SUBSET Calm : s = <<"await", X>>
      BY DEF SeekM
    <2> QED
      BY <1>3, <1>4, <1>6, <2>1
  <1>9. s \in SeekV <=> \/ s \in SeekM \/ a = "seekTo" \/ a = "wake" \/ a = "flushStart"
    <2>1. s \in SeekV <=> \/ s \in SeekM \/ s = <<"seekTo", Nil>> \/ s = <<"wake", Nil>>
                          \/ \E f \in Filters : s = <<"flushStart", f>>
      BY DEF SeekV
    <2> QED
      BY <1>3, <1>4, <1>6, <2>1
  <1> QED
    BY <1>4, <1>7, <1>8, <1>9

\* The step of a client in V leaves steps of V, and one of M or a task that is quiet.
LEMMA SeekProgress ==
    ASSUME Typed, core.filters # <<>>, NEW s, WordOk(s), s \in SeekV, TaskEffect(s),
           NEW q, Program(q), WordsOk(q), ProgramEffect(s, q)
    PROVE  /\ \A i \in 1..Len(q) : q[i] \in SeekV
           /\ task.state \in Calm \/ s \in SeekM => task'.state \in Calm \/ \E i \in 1..Len(q) : q[i] \in SeekM
  <1>0. \/ s[1] \in {"taskPause", "await", "seekTo", "wake", "flushStart"}
        \/ s[1] = "coreFlush" /\ s[2] = "flushStart"
    BY SeekWords
  <1>1. s[1] # "taskPause" => task' = task
    BY <1>0 DEF TaskEffect
  <1>2. ASSUME NEW a, q = <<a>>, a[1] \in {"taskPause", "await"}
        PROVE  /\ \A i \in 1..Len(q) : q[i] \in SeekV
               /\ \E i \in 1..Len(q) : q[i] \in SeekM
    <2>1. Len(q) = 1 /\ q[1] = a
      BY <1>2, ShortPrograms
    <2>2. 1 \in 1..Len(q)
      BY <2>1
    <2>3. WordOk(a)
      BY <2>1, <2>2 DEF WordsOk
    <2>4. a \in SeekV /\ a \in SeekM
      BY <1>2, <2>3, SeekWords
    <2> QED
      BY <2>1, <2>2, <2>4
  <1>3. ASSUME NEW a, q = <<a>>, a[1] = "wake"
        PROVE  \A i \in 1..Len(q) : q[i] \in SeekV
    <2>1. Len(q) = 1 /\ q[1] = a
      BY <1>3, ShortPrograms
    <2>2. WordOk(a)
      BY <2>1 DEF WordsOk
    <2>3. a \in SeekV
      BY <1>3, <2>2, SeekWords
    <2> QED
      BY <2>1, <2>3
  <1>4. q = <<>> => \A i \in 1..Len(q) : q[i] \in SeekV
    BY ShortPrograms
  <1>5. CASE s[1] = "taskPause"
    <2>1. (q = <<>> /\ task.state \in Calm) \/ \E X : q = <<<<"await", X>>>>
      BY <1>5, Zenon DEF ProgramEffect
    <2>2. CASE q = <<>> /\ task.state \in Calm
      BY <1>4, <1>5, <2>2 DEF TaskEffect
    <2>3. CASE \E X : q = <<<<"await", X>>>>
      BY <1>2, <2>3, Pairs, Zenon
    <2> QED
      BY <2>1, <2>2, <2>3
  <1>6. CASE s[1] \in {"seekTo", "wake", "await"}
    <2>1. q = <<>> /\ (s[1] = "await" => task.state \in Calm)
      BY <1>6 DEF ProgramEffect, WordOk
    <2>2. s[1] # "await" => s \notin SeekM
      BY <1>6, SeekWords
    <2> QED
      BY <1>1, <1>4, <1>6, <2>1, <2>2
  <1>7. CASE s[1] = "flushStart"
    <2>1. \/ s[2] = "source" /\ q = <<>>
          \/ s[2] = "demuxer" /\ \E e : q = <<<<"taskPause", e>>>>
          \/ s[2] = "sink" /\ \E e : q = <<<<"wake", e>>>>
      BY <1>7, Zenon DEF ProgramEffect
    <2>2. s[2] # "demuxer" => s \notin SeekM
      BY <1>7, SeekWords
    <2>3. CASE s[2] = "source" /\ q = <<>>
      BY <1>1, <1>4, <1>7, <2>2, <2>3
    <2>4. CASE s[2] = "demuxer" /\ \E e : q = <<<<"taskPause", e>>>>
      BY <1>2, <2>4, Pairs, Zenon
    <2>5. CASE s[2] = "sink" /\ \E e : q = <<<<"wake", e>>>>
      <3>1. \A i \in 1..Len(q) : q[i] \in SeekV
        BY <1>3, <2>5, Pairs, Zenon
      <3> QED
        BY <1>1, <1>7, <2>2, <2>5, <3>1
    <2> QED
      BY <2>1, <2>3, <2>4, <2>5
  <1>8. CASE s[1] = "coreFlush" /\ s[2] = "flushStart"
    <2>1. q = ForFilters("flushStart")
      BY <1>8, Zenon DEF ProgramEffect
    <2>2. \A i \in 1..Len(q) : \E f \in Filters : q[i] = <<"flushStart", f>>
      BY <2>1, Spread DEF Typed
    <2>3. \A i \in 1..Len(q) : q[i] \in SeekV
      BY <2>2 DEF SeekV
    <2>4. \E i \in 1..Len(q) : q[i] = <<"flushStart", "demuxer">>
      <3>1. CASE core.filters = <<"source", "demuxer">>
        <4>1. Len(q) = 2 /\ q[1] = <<"flushStart", "demuxer">>
          BY <2>1, <3>1, ForFiltersIs
        <4> QED
          BY <4>1
      <3>2. CASE core.filters = <<"source", "demuxer", "sink">>
        <4>1. Len(q) = 3 /\ q[2] = <<"flushStart", "demuxer">>
          BY <2>1, <3>2, ForFiltersIs
        <4> QED
          BY <4>1
      <3>3. CASE core.filters = <<"sink", "source", "demuxer">>
        <4>1. Len(q) = 3 /\ q[1] = <<"flushStart", "demuxer">>
          BY <2>1, <3>3, ForFiltersIs
        <4> QED
          BY <4>1
      <3> QED
        BY <3>1, <3>2, <3>3 DEF Typed, FilterLists
    <2>5. <<"flushStart", "demuxer">> \in SeekM
      BY DEF SeekM
    <2> QED
      BY <2>3, <2>4, <2>5
  <1> QED
    BY <1>0, <1>5, <1>6, <1>7, <1>8

\* A step of the client keeps the steps of a seek behind the pause.
LEMMA SeekClient ==
    ASSUME Typed, Begun, SeekOk, NEW s, Effect(s)
    PROVE  SeekOk'
  <1>1. C # <<>> /\ s = Head(C) /\ WordOk(s) /\ TaskEffect(s) /\ Program(C) /\ WordsOk(C)
    BY DEF Effect, Typed
  <1>2. ASSUME NEW q, Program(q), WordsOk(q), C' = q \o Tail(C), ProgramEffect(s, q)
        PROVE  SeekOk'
    <2>1. \A i \in 1..Len(q) : q[i] \notin SeekT
      <3>1. \A i \in 1..Len(q) : q[i][1] \in MidOps
        BY <1>1, <1>2, NewSteps DEF Typed
      <3>2. "seekTo" \notin MidOps /\ "coreFlush" \notin MidOps
        BY DEF MidOps, PlainOps
      <3>3. ASSUME NEW i \in 1..Len(q) PROVE q[i] \notin SeekT
        <4>1. WordOk(q[i]) /\ q[i][1] # "seekTo" /\ q[i][1] # "coreFlush"
          BY <1>2, <3>1, <3>2, <3>3 DEF WordsOk
        <4> QED
          BY <4>1, SeekWords
      <3> QED
        BY <3>3
    <2>2. Guarded(q, SeekT, SeekV, SeekM, task'.state, Calm)
      BY <2>1, GuardedNone
    <2>3. ASSUME Head(C) \in SeekV
          PROVE  /\ \A i \in 1..Len(q) : q[i] \in SeekV
                 /\ task.state \in Calm \/ Head(C) \in SeekM =>
                       task'.state \in Calm \/ \E i \in 1..Len(q) : q[i] \in SeekM
      <3>1. s[1] # "init"
        BY <1>1, <2>3, SeekWords
      <3>2. core.filters # <<>>
        BY <1>1, <3>1 DEF Begun, At, C
      <3> QED
        BY <1>1, <1>2, <2>3, <3>2, SeekProgress
    <2>4. Guarded(q \o Tail(C), SeekT, SeekV, SeekM, task'.state, Calm)
      BY <1>1, <1>2, <2>2, <2>3, GuardedThen DEF SeekOk
    <2> QED
      BY <1>2, <2>4 DEF SeekOk
  <1>3. CASE GivesUp(s) /\ D' = D /\ task' = task
    <2>1. CASE s[1] = "seekTo"
      <3>1. s = C[1] /\ 1 \in 1..Len(C) /\ s \in SeekT
        BY <1>1, <2>1, ProgramElements, SeekWords
      <3>2. task.state \in Calm
        BY <3>1 DEF SeekOk, Guarded
      <3>3. task'.state \in Calm /\ C' = <<<<"coreFlush", "flushEnd">>>>
        BY <1>3, <2>1, <3>2 DEF GivesUp
      <3> QED
        BY <3>3, ShortPrograms DEF SeekOk, Guarded
    <2>2. CASE s[1] # "seekTo"
      <3>1. \E e : C' = <<<<"failed", e>>>>
        BY <1>3, <2>2 DEF GivesUp
      <3>2. PICK a : C' = <<a>> /\ a[1] = "failed"
        BY <3>1, Pairs, Zenon
      <3>3. a \notin SeekT
        BY <3>2, Pairs DEF SeekT
      <3>4. Len(C') = 1 /\ C'[1] = a
        BY <3>2, ShortPrograms
      <3> QED
        BY <3>3, <3>4 DEF SeekOk, Guarded
    <2> QED
      BY <2>1, <2>2
  <1> QED
    BY <1>2, <1>3 DEF Effect

\* A call of the API puts the steps of a seek behind the pause.
LEMMA SeekCalled ==
    ASSUME Typed, SeekOk, CallEffect
    PROVE  SeekOk'
  <1>1. CASE CallProgram(C')
    <2>1. Program(C') /\ WordsOk(C') /\ SeekFirst(C')
      BY <1>1 DEF CallProgram
    <2>2. CASE \A k \in 1..Len(C') : C'[k][1] \notin {"seekTo", "coreFlush"}
      <3>1. \A k \in 1..Len(C') : C'[k] \notin SeekT
        BY <2>1, <2>2, SeekWords DEF WordsOk
      <3> QED
        BY <3>1 DEF SeekOk, Guarded
    <2>3. CASE /\ Len(C') \in {3, 4} /\ C'[1] = <<"coreFlush", "flushStart">> /\ C'[2][1] = "seekTo"
               /\ C'[3] = <<"coreFlush", "flushEnd">>
               /\ Len(C') = 4 => C'[4] = <<"setState", "STARTED">>
      <3>1. \A k \in 1..Len(C') : WordOk(C'[k])
        BY <2>1 DEF WordsOk
      <3>2. 1 \in 1..Len(C') /\ 2 \in 1..Len(C') /\ 3 \in 1..Len(C')
        BY <2>3
      <3>3. \A k \in 1..Len(C') : k \in {1, 2, 3} \/ (k = 4 /\ Len(C') = 4)
        <4>1. Len(C') = 3 \/ Len(C') = 4
          BY <2>3
        <4>2. /\ \A k \in 1..3 : k \in {1, 2, 3}
              /\ \A k \in 1..4 : k \in {1, 2, 3} \/ k = 4
          OBVIOUS
        <4> QED
          BY <4>1, <4>2, Zenon
      <3>4. C'[1] \in SeekM /\ C'[1] \in SeekV /\ C'[1] \notin SeekT
        <4>1. C'[1][1] = "coreFlush" /\ C'[1][2] = "flushStart" /\ WordOk(C'[1])
          BY <2>3, <3>1, <3>2
        <4> QED
          BY <4>1, SeekWords
      <3>5. C'[2] \in SeekV
        BY <2>3, <3>1, <3>2, SeekWords
      <3>6. 4 \in 1..Len(C') => C'[4] \notin SeekT
        <4> SUFFICES ASSUME 4 \in 1..Len(C') PROVE C'[4] \notin SeekT
          OBVIOUS
        <4>1. C'[4][1] = "setState" /\ WordOk(C'[4])
          BY <2>3, <3>1, <3>3
        <4> QED
          BY <4>1, SeekWords
      <3>7. ASSUME NEW k \in 1..Len(C'), C'[k] \in SeekT
            PROVE  /\ \A j \in 1..(k - 1) : C'[j] \in SeekV
                   /\ \E j \in 1..(k - 1) : C'[j] \in SeekM
        <4>1. k = 2 \/ k = 3
          BY <3>3, <3>4, <3>6, <3>7
        <4>2. \A j \in 1..(k - 1) : j = 1 \/ j = 2
          BY <4>1
        <4>3. 1 \in 1..(k - 1)
          BY <4>1
        <4> QED
          BY <3>4, <3>5, <4>2, <4>3
      <3> QED
        BY <3>7 DEF SeekOk, Guarded
    <2> QED
      BY <2>1, <2>2, <2>3 DEF SeekFirst
  <1>2. ASSUME NEW p, Program(p), C' = p, \A k \in 1..Len(p) : p[k][1] \notin {"seekTo", "coreFlush"}, WordsOk(p)
        PROVE  SeekOk'
    <2>1. \A k \in 1..Len(p) : p[k] \notin SeekT
      BY <1>2, SeekWords DEF WordsOk
    <2> QED
      BY <1>2, <2>1 DEF SeekOk, Guarded
  <1>3. CASE C' = <<<<"init", "">>, <<"setSource", "">>>>
    <2>1. PICK a, b : C' = <<a, b>> /\ a[1] = "init" /\ b[1] = "setSource" /\ WordOk(a) /\ WordOk(b)
      BY <1>3, Pairs, CallWords, Zenon
    <2>2. PICK p : p = <<a, b>>
      OBVIOUS
    <2>3. Program(p) /\ Len(p) = 2 /\ p[1] = a /\ p[2] = b /\ WordsOk(p)
      BY <2>1, <2>2, ShortPrograms, ShortWords
    <2>4. \A k \in 1..Len(p) : p[k][1] \notin {"seekTo", "coreFlush"}
      BY <2>1, <2>3
    <2> QED
      BY <1>2, <2>1, <2>2, <2>3, <2>4
  <1>4. CASE C' = <<<<"stopTask", "">>, <<"coreStop", "">>, <<"setState", "STOPPED">>>>
    <2>1. PICK a, b, c : /\ C' = <<a, b, c>> /\ WordOk(a) /\ WordOk(b) /\ WordOk(c)
                         /\ a[1] = "stopTask" /\ b[1] = "coreStop" /\ c[1] = "setState"
      <3>1. WordOk(<<"stopTask", "">>) /\ WordOk(<<"coreStop", "">>) /\ WordOk(<<"setState", "STOPPED">>)
        BY CallWords
      <3> QED
        BY <1>4, <3>1, Pairs, Zenon
    <2>2. PICK p : p = <<a, b, c>>
      OBVIOUS
    <2>3. Program(p) /\ Len(p) = 3 /\ p[1] = a /\ p[2] = b /\ p[3] = c
      BY <2>2, LongerPrograms
    <2>4. \A k \in 1..Len(p) : k = 1 \/ k = 2 \/ k = 3
      BY <2>3
    <2>5. WordsOk(p) /\ \A k \in 1..Len(p) : p[k][1] \notin {"seekTo", "coreFlush"}
      BY <2>1, <2>3, <2>4 DEF WordsOk
    <2> QED
      BY <1>2, <2>1, <2>2, <2>3, <2>5
  <1> QED
    BY <1>1, <1>3, <1>4, Zenon DEF CallEffect
-----------------------------------------------------------------------------
(* The invariant.                                                           *)

\* The program of the demuxer's thread keeps its form.
LEMMA DemuxThen ==
    ASSUME Typed, D # <<>>, NEW q, Program(q), DemuxProgram(q)
    PROVE  Program(q \o Tail(D)) /\ DemuxWords(q \o Tail(D))
  <1> DEFINE r == q \o Tail(D)
             n == Len(q)
  <1>1. /\ Program(r) /\ Len(r) = n + Len(D) - 1
        /\ n \in Nat /\ Len(D) \in Nat /\ Len(D) >= 1 /\ Head(D) = D[1]
        /\ \A i \in 1..n : r[i] = q[i]
        /\ \A i \in 1..(n + Len(D) - 1) : i > n => r[i] = D[i - n + 1]
    BY ThenElements DEF Typed
  <1> HIDE DEF r
  <1>2. DemuxWords(D)
    BY DEF Typed
  <1>3. ASSUME Len(D) = 1, DemuxWords(q) PROVE DemuxWords(r)
    <2>1. Len(r) = n /\ \A i \in 1..n : r[i] = q[i]
      BY <1>1, <1>3
    <2>2. n > 1 => r[n] = q[n]
      BY <1>1, <2>1
    <2> QED
      BY <1>3, <2>1, <2>2 DEF DemuxWords
  <1>4. CASE Head(D)[1] \in Inner /\ \A i \in 1..Len(q) : q[i][1] \in Inner
    <2>1. Len(D) > 1
      BY <1>4, DemuxAt DEF Inner
    <2>2. D[Len(D)][1] = "check"
      BY <1>2, <2>1 DEF DemuxWords
    <2>3. ASSUME NEW i \in 1..Len(r)
          PROVE  r[i][1] \in DemuxOps /\ (i < Len(r) <=> r[i][1] \notin Rounds)
      <3>1. CASE i <= n
        <4>1. i \in 1..n /\ i < Len(r) /\ r[i] = q[i]
          BY <1>1, <2>1, <3>1
        <4> QED
          BY <1>4, <4>1 DEF Inner
      <3>2. CASE i > n
        <4>1. i - n + 1 \in 1..Len(D) /\ r[i] = D[i - n + 1] /\ (i < Len(r) <=> i - n + 1 < Len(D))
          BY <1>1, <3>2
        <4> QED
          BY <1>2, <4>1 DEF DemuxWords
      <3> QED
        BY <1>1, <3>1, <3>2
    <2>4. r[Len(r)] = D[Len(D)]
      <3>1. Len(r) \in 1..(n + Len(D) - 1) /\ Len(r) > n /\ Len(r) - n + 1 = Len(D)
        BY <1>1, <2>1
      <3> QED
        BY <1>1, <3>1
    <2> QED
      BY <1>1, <2>2, <2>3, <2>4 DEF DemuxWords, r
  <1>5. CASE Head(D)[1] = "top" /\ DemuxWords(q) /\ q # <<>>
    <2>1. Len(D) = 1
      BY <1>5, DemuxAt DEF Rounds
    <2> QED
      BY <1>1, <1>3, <1>5, <2>1 DEF r
  <1>6. CASE /\ Head(D)[1] \in {"check", "paused"}
             /\ q = <<<<"paused", "">>>> \/ q = <<>> \/ q = <<<<"top", "">>>>
    <2>1. Len(D) = 1
      BY <1>6, DemuxAt DEF Rounds
    <2>2. q = <<>> \/ (Len(q) = 1 /\ q[1][1] \in {"paused", "top"})
      <3>1. q = <<>> \/ \E a : q = <<a>> /\ (a[1] = "paused" \/ a[1] = "top")
        BY <1>6, Pairs, Zenon
      <3> QED
        BY <3>1, ShortPrograms
    <2>3. DemuxWords(q)
      <3>1. CASE q = <<>>
        BY <3>1, ShortPrograms DEF DemuxWords
      <3>2. CASE Len(q) = 1 /\ q[1][1] \in {"paused", "top"}
        BY <3>2 DEF DemuxWords, DemuxOps, Rounds
      <3> QED
        BY <2>2, <3>1, <3>2
    <2> QED
      BY <1>1, <1>3, <2>1, <2>3 DEF r
  <1> QED
    BY <1>4, <1>5, <1>6, Zenon DEF DemuxProgram

\* Append on a pair.
LEMMA Appended ==
    ASSUME NEW a, NEW b, NEW c
    PROVE  Append(<<a, b>>, c) = <<a, b, c>>
  <1> DEFINE S == {a, b, c}
  <1>1. <<a, b>> \in Seq(S) /\ <<a, b, c>> \in Seq(S) /\ c \in S
    OBVIOUS
  <1>2. PICK p, r : p = <<a, b>> /\ r = <<a, b, c>>
    OBVIOUS
  <1>3. /\ Len(p) = 2 /\ Len(r) = 3 /\ p[1] = a /\ p[2] = b /\ r[1] = a /\ r[2] = b /\ r[3] = c
        /\ p \in Seq(S) /\ r \in Seq(S) /\ c \in S
    BY <1>1, <1>2
  <1> HIDE DEF S
  <1>4. PICK x : x = Append(p, c)
    OBVIOUS
  <1>5. x \in Seq(S) /\ Len(x) = Len(p) + 1 /\ (\A i \in 1..Len(p) : x[i] = p[i]) /\ x[Len(p) + 1] = c
    BY <1>3, <1>4, AppendProperties
  <1>6. Len(x) = 3 /\ x[1] = a /\ x[2] = b /\ x[3] = c
    BY <1>3, <1>5
  <1>7. \A i \in 1..Len(x) : x[i] = r[i]
    BY <1>3, <1>6
  <1>8. x = r
    BY <1>3, <1>5, <1>6, <1>7, SeqEqual
  <1> QED
    BY <1>2, <1>4, <1>8

\* Of the demuxer's thread.
LEMMA DemuxTyped ==
    ASSUME Typed, Begun, DemuxEffect, Fields'
    PROVE  Typed'
  <1>1. Program(D') /\ DemuxWords(D')
    BY DemuxThen DEF DemuxEffect
  <1>2. Program(C') /\ WordsOk(C')
    <2>1. CASE C' = C
      BY <2>1 DEF Typed
    <2>2. CASE C' = <<<<"awaitReady", "">>>>
      BY <2>2, CallWords, ShortPrograms, ShortWords, Zenon
    <2> QED
      BY <2>1, <2>2 DEF DemuxEffect
  <1>3. core'.filters \in FilterLists
    <2>1. CASE core'.filters = core.filters
      BY <2>1 DEF Typed
    <2>2. CASE core'.filters = Append(core.filters, "sink") /\ "sink" \notin ToSet(core.filters)
      <3>1. "sink" \in ToSet(<<"source", "demuxer", "sink">>) /\ "sink" \in ToSet(<<"sink", "source", "demuxer">>)
        BY DEF ToSet
      <3>2. core.filters = <<"source", "demuxer">>
        BY <2>2, <3>1 DEF Typed, FilterLists, Begun, DemuxEffect
      <3>3. Append(<<"source", "demuxer">>, "sink") = <<"source", "demuxer", "sink">>
        BY Appended
      <3>4. core'.filters = <<"source", "demuxer", "sink">>
        BY <2>2, <3>2, <3>3, Zenon
      <3> QED
        BY <3>4 DEF FilterLists
    <2> QED
      BY <2>1, <2>2 DEF DemuxEffect, Added
  <1>4. task' \in [state : TaskStates, thread : BOOLEAN] /\ prog' = [t \in Threads |-> prog'[t]]
    BY DEF DemuxEffect
  <1> QED
    BY <1>1, <1>2, <1>3, <1>4 DEF Typed, Fields

\* Of the client.
LEMMA ClientTyped ==
    ASSUME Typed, NEW s, Effect(s), Fields'
    PROVE  Typed'
  <1>1. C # <<>> /\ s = Head(C) /\ WordOk(s) /\ TaskEffect(s) /\ FilterEffect(s) /\ Program(C) /\ WordsOk(C)
    BY DEF Effect, Typed
  <1>2. Program(C') /\ WordsOk(C')
    <2>1. ASSUME NEW q, Program(q), WordsOk(q), C' = q \o Tail(C)
          PROVE  Program(C') /\ WordsOk(C')
      <3>1. PICK r : r = q \o Tail(C)
        OBVIOUS
      <3>2. /\ Program(r) /\ Len(r) = Len(q) + Len(C) - 1
            /\ Len(q) \in Nat /\ Len(C) \in Nat /\ Len(C) >= 1
            /\ \A i \in 1..Len(q) : r[i] = q[i]
            /\ \A i \in 1..(Len(q) + Len(C) - 1) : i > Len(q) => r[i] = C[i - Len(q) + 1]
        BY <1>1, <2>1, <3>1, ThenElements
      <3>3. ASSUME NEW i \in 1..Len(r) PROVE WordOk(r[i])
        <4>1. CASE i <= Len(q)
          <5>1. i \in 1..Len(q) /\ r[i] = q[i]
            BY <3>2, <4>1
          <5> QED
            BY <2>1, <5>1 DEF WordsOk
        <4>2. CASE i > Len(q)
          <5>1. i - Len(q) + 1 \in 1..Len(C) /\ r[i] = C[i - Len(q) + 1]
            BY <3>2, <4>2
          <5> QED
            BY <1>1, <5>1 DEF WordsOk
        <4> QED
          BY <3>2, <4>1, <4>2
      <3>4. WordsOk(r)
        BY <3>3 DEF WordsOk
      <3> QED
        BY <2>1, <3>1, <3>2, <3>4
    <2>2. CASE GivesUp(s)
      <3>1. WordOk(<<"failed", "">>) /\ WordOk(<<"coreFlush", "flushEnd">>)
        BY DEF WordOk, BareOps, FilterOps
      <3>2. C' = <<<<"failed", "">>>> \/ C' = <<<<"coreFlush", "flushEnd">>>>
        BY <2>2, Zenon DEF GivesUp
      <3> QED
        BY <3>1, <3>2, ShortPrograms, ShortWords, Zenon
    <2> QED
      BY <2>1, <2>2 DEF Effect
  <1>3. Program(D') /\ DemuxWords(D')
    <2>1. CASE D' = D
      BY <2>1 DEF Typed
    <2>2. CASE D' = <<<<"top", "">>>>
      <3>1. PICK a : D' = <<a>> /\ a[1] = "top"
        BY <2>2, Pairs, Zenon
      <3>2. Program(D') /\ Len(D') = 1 /\ D'[1][1] = "top"
        BY <3>1, ShortPrograms
      <3> QED
        BY <3>2 DEF DemuxWords, DemuxOps, Rounds
    <2>3. CASE At("demux", "asleep") /\ D' = <<<<"evaluate", Arg("demux")>>>> \o Tail(D)
      <3>1. PICK a : a = <<"evaluate", Arg("demux")>> /\ a[1] = "evaluate"
        BY Pairs
      <3>2. D # <<>> /\ Head(D)[1] = "asleep" /\ D' = <<a>> \o Tail(D)
        BY <2>3, <3>1 DEF At, D
      <3>3. Program(<<a>>) /\ Len(<<a>>) = 1 /\ <<a>>[1] = a
        BY ShortPrograms
      <3>4. PICK q : q = <<a>>
        OBVIOUS
      <3>5. Program(q) /\ DemuxProgram(q)
        <4>1. "asleep" \in Inner /\ "evaluate" \in Inner
          BY DEF Inner, DemuxOps, Rounds
        <4>2. Program(q) /\ Len(q) = 1 /\ q[1][1] = "evaluate"
          BY <3>1, <3>3, <3>4, Zenon
        <4>3. \A i \in 1..Len(q) : q[i][1] \in Inner
          BY <4>1, <4>2
        <4> QED
          BY <3>2, <4>1, <4>2, <4>3, Zenon DEF DemuxProgram
      <3> QED
        BY <3>2, <3>4, <3>5, DemuxThen
    <2> QED
      BY <1>1, <2>1, <2>2, <2>3 DEF TaskEffect
  <1>4. task' \in [state : TaskStates, thread : BOOLEAN]
    <2>1. ASSUME NEW x \in TaskStates, task' = [task EXCEPT !.state = x]
          PROVE  task' \in [state : TaskStates, thread : BOOLEAN]
      BY <2>1 DEF Typed
    <2>2. "PAUSING" \in TaskStates /\ "STOPPING" \in TaskStates /\ "STARTED" \in TaskStates
      BY DEF TaskStates
    <2>3. CASE task' = task
      BY <2>3 DEF Typed
    <2>4. CASE task' = [state |-> "STARTED", thread |-> TRUE]
      BY <2>2, <2>4
    <2>5. CASE task' = [task EXCEPT !.thread = FALSE]
      BY <2>5 DEF Typed
    <2> QED
      BY <1>1, <2>1, <2>2, <2>3, <2>4, <2>5 DEF TaskEffect
  <1>5. core'.filters \in FilterLists
    <2>1. Reordered(core.filters) \in FilterLists
      BY ReorderedIs DEF Typed
    <2>2. Removed(core.filters) \in FilterLists
      BY RemovedIs DEF Typed, FilterLists
    <2>3. <<"source", "demuxer">> \in FilterLists /\ core.filters \in FilterLists
      BY DEF FilterLists, Typed
    <2> QED
      BY <1>1, <2>1, <2>2, <2>3 DEF FilterEffect
  <1>6. prog' = [t \in Threads |-> prog'[t]]
    BY DEF Effect
  <1> QED
    BY <1>2, <1>3, <1>4, <1>5, <1>6 DEF Typed, Fields

\* Of a call.
LEMMA CallTyped ==
    ASSUME Typed, CallEffect
    PROVE  Typed'
  <1>1. Program(C') /\ WordsOk(C')
    <2>1. CASE CallProgram(C')
      BY <2>1 DEF CallProgram
    <2>2. CASE C' = <<<<"init", "">>, <<"setSource", "">>>>
      <3>1. WordsOk(<<<<"init", "">>, <<"setSource", "">>>>)
        BY CallWords, ShortWords, Zenon
      <3> QED
        BY <2>2, <3>1, ShortPrograms, Zenon
    <2>3. CASE C' = <<<<"stopTask", "">>, <<"coreStop", "">>, <<"setState", "STOPPED">>>>
      <3>1. WordOk(<<"stopTask", "">>) /\ WordOk(<<"coreStop", "">>) /\ WordOk(<<"setState", "STOPPED">>)
        BY CallWords
      <3>2. ASSUME NEW p, NEW a, NEW b, NEW c, WordOk(a), WordOk(b), WordOk(c),
                   Len(p) = 3, p[1] = a, p[2] = b, p[3] = c
            PROVE  WordsOk(p)
        <4>1. \A i \in 1..Len(p) : i = 1 \/ i = 2 \/ i = 3
          BY <3>2
        <4> QED
          BY <3>2, <4>1 DEF WordsOk
      <3>3. WordsOk(<<<<"stopTask", "">>, <<"coreStop", "">>, <<"setState", "STOPPED">>>>)
        BY <3>1, <3>2, LongerPrograms, Zenon
      <3> QED
        BY <2>3, <3>3, LongerPrograms, Zenon
    <2> QED
      BY <2>1, <2>2, <2>3, Zenon DEF CallEffect
  <1>2. /\ D' = D /\ prog' = [t \in Threads |-> prog'[t]]
        /\ UNCHANGED <<task, demuxer, sink, core, player>>
    BY Zenon DEF CallEffect
  <1> QED
    BY <1>1, <1>2 DEF Typed

\* A step of the client keeps Begun.
LEMMA BegunClient ==
    ASSUME Typed, Begun, NEW s, Effect(s)
    PROVE  Begun'
  <1>1. C # <<>> /\ s = Head(C) /\ WordOk(s) /\ FilterEffect(s) /\ Program(C)
    BY DEF Effect, Typed
  <1>2. core'.filters # <<>>
    <2>1. CASE core.filters = <<>>
      <3>1. s[1] = "init"
        BY <1>1, <2>1 DEF Begun, At, C
      <3>2. core'.filters = <<"source", "demuxer">>
        BY <1>1, <3>1 DEF FilterEffect
      <3> QED
        BY <3>2
    <2>2. CASE core.filters # <<>>
      <3>1. Reordered(core.filters) # <<>>
        BY <2>2, ReorderedIs DEF Typed
      <3>2. Removed(core.filters) # <<>>
        BY <2>2, RemovedIs DEF Typed
      <3>3. \/ core'.filters \in {core.filters, Reordered(core.filters), Removed(core.filters)}
            \/ core'.filters = <<"source", "demuxer">>
        BY <1>1 DEF FilterEffect
      <3>4. <<"source", "demuxer">> # <<>>
        OBVIOUS
      <3> QED
        BY <2>2, <3>1, <3>2, <3>3, <3>4, Zenon
    <2> QED
      BY <2>1, <2>2
  <1>3. \A k \in 1..Len(C') : C'[k][1] # "init"
    <2>1. ASSUME NEW q, Program(q), C' = q \o Tail(C), ProgramEffect(s, q)
          PROVE  \A k \in 1..Len(C') : C'[k][1] # "init"
      <3>1. PICK r : r = q \o Tail(C)
        OBVIOUS
      <3>2. /\ Program(r) /\ Len(r) = Len(q) + Len(C) - 1
            /\ Len(q) \in Nat /\ Len(C) \in Nat /\ Len(C) >= 1
            /\ \A i \in 1..Len(q) : r[i] = q[i]
            /\ \A i \in 1..(Len(q) + Len(C) - 1) : i > Len(q) => r[i] = C[i - Len(q) + 1]
        BY <1>1, <2>1, <3>1, ThenElements
      <3>3. \A i \in 1..Len(q) : q[i][1] # "init"
        <4>1. \A i \in 1..Len(q) : q[i][1] \in MidOps
          BY <1>1, <2>1, NewSteps DEF Typed
        <4>2. "init" \notin MidOps
          BY DEF MidOps, PlainOps
        <4> QED
          BY <4>1, <4>2
      <3>4. \A k \in 1..Len(C) : k # 1 => C[k][1] # "init"
        BY DEF Begun
      <3>5. ASSUME NEW i \in 1..Len(r) PROVE r[i][1] # "init"
        <4>1. CASE i <= Len(q)
          <5>1. i \in 1..Len(q) /\ r[i] = q[i]
            BY <3>2, <4>1
          <5> QED
            BY <3>3, <5>1
        <4>2. CASE i > Len(q)
          <5>1. i - Len(q) + 1 \in 1..Len(C) /\ i - Len(q) + 1 # 1 /\ r[i] = C[i - Len(q) + 1]
            BY <3>2, <4>2
          <5> QED
            BY <3>4, <5>1
        <4> QED
          BY <3>2, <4>1, <4>2
      <3> QED
        BY <2>1, <3>1, <3>5
    <2>2. CASE GivesUp(s)
      <3>1. PICK a : C' = <<a>> /\ (a[1] = "failed" \/ a[1] = "coreFlush")
        BY <2>2, Pairs, Zenon DEF GivesUp
      <3> QED
        BY <3>1, ShortPrograms
    <2> QED
      BY <2>1, <2>2 DEF Effect
  <1>4. ASSUME player'.state = "IDLE"
        PROVE  C' # <<>> /\ Head(C')[1] \in {"setSource", "setState"}
    <2>1. player.state = "IDLE" /\ s[1] \notin {"failed", "event", "setState"}
      BY <1>1, <1>4 DEF FilterEffect, WordOk
    <2>2. PICK q : Program(q) /\ C' = q \o Tail(C) /\ ProgramEffect(s, q)
      <3>1. s[1] \in {"init", "setSource"}
        BY <1>1, <2>1 DEF Begun, At, C
      <3>2. ~GivesUp(s)
        BY <3>1 DEF GivesUp
      <3> QED
        BY <3>2 DEF Effect
    <2>3. CASE s[1] = "init"
      <3>1. q = <<>>
        BY <2>2, <2>3 DEF ProgramEffect
      <3>2. s = C[1] /\ 1 \in 1..Len(C)
        BY <1>1, ProgramElements
      <3>3. Len(C) = 2 /\ C[2][1] = "setSource"
        BY <2>3, <3>2 DEF Begun
      <3>4. PICK r : r = Tail(C)
        OBVIOUS
      <3>5. Program(r) /\ Len(r) = 1 /\ r[1] = C[2] /\ <<>> \o r = r
        BY <1>1, <3>3, <3>4, ProgramElements
      <3>6. r # <<>> /\ Head(r) = r[1]
        BY <3>5, ProgramElements
      <3> QED
        BY <2>2, <3>1, <3>3, <3>4, <3>5, <3>6
    <2>4. CASE s[1] = "setSource"
      <3>1. PICK a : q = <<a>> /\ a[1] = "setState"
        <4>1. \E x : q = <<<<"setState", x>>>>
          BY <2>2, <2>4 DEF ProgramEffect
        <4> QED
          BY <4>1, Pairs, Zenon
      <3>2. PICK r : r = q \o Tail(C)
        OBVIOUS
      <3>3. Len(q) = 1 /\ q[1] = a
        BY <3>1, ShortPrograms
      <3>4. Program(r) /\ Len(r) >= 1 /\ r[1] = a
        <4>1. /\ Program(r) /\ Len(r) = Len(q) + Len(C) - 1 /\ Len(C) \in Nat /\ Len(C) >= 1
              /\ \A i \in 1..Len(q) : r[i] = q[i]
          BY <1>1, <2>2, <3>2, ThenElements
        <4>2. 1 \in 1..Len(q) /\ Len(r) >= 1
          BY <3>3, <4>1
        <4> QED
          BY <3>3, <4>1, <4>2
      <3>5. r # <<>> /\ Head(r) = r[1]
        BY <3>4, ProgramElements
      <3> QED
        BY <2>2, <3>1, <3>2, <3>4, <3>5
    <2> QED
      BY <1>1, <2>1, <2>3, <2>4 DEF Begun, At, C
  <1> QED
    BY <1>2, <1>3, <1>4 DEF Begun, At, C

\* A step of the demuxer's thread keeps Begun.
LEMMA BegunDemux ==
    ASSUME Typed, Begun, DemuxEffect
    PROVE  Begun'
  <1>1. D # <<>> /\ core.filters # <<>>
    BY DEF DemuxEffect, Begun
  <1>2. core'.filters # <<>>
    <2>1. CASE core'.filters = core.filters
      BY <1>1, <2>1
    <2>2. CASE core'.filters = Append(core.filters, "sink") /\ "sink" \notin ToSet(core.filters)
      <3>1. "sink" \in ToSet(<<"source", "demuxer", "sink">>) /\ "sink" \in ToSet(<<"sink", "source", "demuxer">>)
        BY DEF ToSet
      <3>2. core.filters = <<"source", "demuxer">>
        BY <1>1, <2>2, <3>1 DEF Typed, FilterLists
      <3>3. core'.filters = <<"source", "demuxer", "sink">>
        BY <2>2, <3>2, Appended, Zenon
      <3> QED
        BY <3>3
    <2> QED
      BY <2>1, <2>2 DEF DemuxEffect, Added
  <1>3. player'.state = "IDLE" => player.state = "IDLE"
    BY DEF DemuxEffect, Told
  <1>4. CASE C' = C
    BY <1>1, <1>2, <1>3, <1>4 DEF Begun, At, C
  <1>5. CASE At("client", "waiting") /\ C' = <<<<"awaitReady", "">>>>
    <2>1. player'.state # "IDLE"
      BY <1>1, <1>3, <1>5 DEF Begun, At
    <2>2. PICK a : C' = <<a>> /\ a[1] = "awaitReady"
      BY <1>5, Pairs, Zenon
    <2>3. \A k \in 1..Len(C') : C'[k][1] # "init"
      BY <2>2, ShortPrograms
    <2> QED
      BY <1>2, <2>1, <2>3 DEF Begun
  <1> QED
    BY <1>4, <1>5 DEF DemuxEffect

\* A call of the API keeps Begun.
LEMMA BegunCall ==
    ASSUME Typed, Begun, CallEffect
    PROVE  Begun'
  <1>1. C = <<>> /\ D' = D /\ UNCHANGED <<task, core, player>>
    BY Zenon DEF CallEffect
  <1>2. player.state = "IDLE" <=> core.filters = <<>>
    BY <1>1 DEF Begun, At, C
  <1>3. CASE player.state = "IDLE" /\ C' = <<<<"init", "">>, <<"setSource", "">>>>
    <2>1. PICK a, b : C' = <<a, b>> /\ a[1] = "init" /\ b[1] = "setSource"
      <3>1. <<"init", "">>[1] = "init" /\ <<"setSource", "">>[1] = "setSource"
        BY Pairs, Zenon
      <3> QED
        BY <1>3, <3>1, Zenon
    <2>2. Len(C') = 2 /\ C'[1] = a /\ C'[2] = b /\ Program(C')
      BY <2>1, ShortPrograms
    <2>3. C' # <<>> /\ Head(C') = a
      BY <2>2, ProgramElements
    <2>4. \A k \in 1..Len(C') : C'[k][1] = "init" => k = 1
      BY <2>1, <2>2
    <2>5. core'.filters = <<>> /\ D' = <<>> /\ player'.state = "IDLE"
      BY <1>1, <1>2, <1>3 DEF Begun
    <2> QED
      BY <2>1, <2>2, <2>3, <2>4, <2>5 DEF Begun, At, C
  <1>4. CASE player.state # "IDLE" /\ \A k \in 1..Len(C') : C'[k][1] # "init"
    BY <1>1, <1>2, <1>4 DEF Begun
  <1>5. CASE CallProgram(C') /\ player.state # "IDLE"
    BY <1>4, <1>5 DEF CallProgram
  <1>6. CASE /\ player.state # "IDLE"
             /\ C' = <<<<"stopTask", "">>, <<"coreStop", "">>, <<"setState", "STOPPED">>>>
    <2>1. PICK a, b, c : C' = <<a, b, c>> /\ a[1] = "stopTask" /\ b[1] = "coreStop" /\ c[1] = "setState"
      <3>1. /\ <<"stopTask", "">>[1] = "stopTask" /\ <<"coreStop", "">>[1] = "coreStop"
            /\ <<"setState", "STOPPED">>[1] = "setState"
        BY Pairs, Zenon
      <3> QED
        BY <1>6, <3>1, Zenon
    <2>2. Len(C') = 3 /\ C'[1] = a /\ C'[2] = b /\ C'[3] = c
      BY <2>1, LongerPrograms
    <2>3. \A k \in 1..3 : k = 1 \/ k = 2 \/ k = 3
      OBVIOUS
    <2>4. \A k \in 1..Len(C') : C'[k][1] # "init"
      BY <2>1, <2>2, <2>3
    <2> QED
      BY <1>4, <1>6, <2>4
  <1>7. \/ player.state = "IDLE" /\ C' = <<<<"init", "">>, <<"setSource", "">>>>
        \/ player.state # "IDLE" /\ CallProgram(C')
        \/ /\ player.state # "IDLE"
           /\ C' = <<<<"stopTask", "">>, <<"coreStop", "">>, <<"setState", "STOPPED">>>>
    BY Zenon DEF CallEffect
  <1> QED
    BY <1>3, <1>5, <1>6, <1>7, Zenon

(* A paused thread is in its wait, and a stopped one has left Run.          *)
Resting ==
    /\ task.state = "PAUSED" => At("demux", "paused")
    /\ task.state = "STOPPED" => D = <<>>

\* The demuxer's thread takes a step only outside a pause, and enters one by resting.
LEMMA RestingDemux ==
    ASSUME Typed, Resting, DemuxEffect
    PROVE  task.state \notin Calm /\ Resting'
  <1>1. task.state \notin Calm
    BY DEF DemuxEffect, Resting
  <1>2. ASSUME task'.state = "PAUSED" PROVE D' # <<>> /\ Head(D')[1] = "paused"
    <2>1. D' = <<<<"paused", "">>>> \o Tail(D)
      BY <1>1, <1>2, Zenon DEF DemuxEffect
    <2>2. PICK a : D' = <<a>> \o Tail(D) /\ a[1] = "paused"
      BY <2>1, Pairs, Zenon
    <2>3. PICK q, r : q = <<a>> /\ r = q \o Tail(D)
      OBVIOUS
    <2>4. Program(q) /\ Len(q) = 1 /\ q[1] = a
      BY <2>3, ShortPrograms
    <2>5. D # <<>> /\ Program(D)
      BY DEF DemuxEffect, Typed
    <2>6. /\ Program(r) /\ Len(r) = Len(q) + Len(D) - 1 /\ Len(D) \in Nat /\ Len(D) >= 1
          /\ \A i \in 1..Len(q) : r[i] = q[i]
      BY <2>3, <2>4, <2>5, ThenElements
    <2>7. Len(r) >= 1 /\ 1 \in 1..Len(q)
      BY <2>4, <2>6
    <2>8. r # <<>> /\ Head(r) = r[1]
      BY <2>6, <2>7, ProgramElements
    <2>9. r[1] = a
      BY <2>4, <2>6, <2>7
    <2>10. D' = r
      BY <2>2, <2>3, Zenon
    <2> QED
      BY <2>2, <2>8, <2>9, <2>10, Zenon
  <1>3. ASSUME task'.state = "STOPPED" PROVE D' = <<>>
    <2>1. D' = <<>> \o Tail(D) /\ Head(D)[1] \in {"check", "paused"} /\ D # <<>> /\ Program(D)
      BY <1>1, <1>3 DEF DemuxEffect, Typed
    <2>2. Len(D) = 1
      BY <2>1, DemuxAt DEF Rounds
    <2>3. PICK r : r = Tail(D)
      OBVIOUS
    <2>4. Program(r) /\ Len(r) = 0
      BY <2>1, <2>2, <2>3, ProgramElements
    <2>5. r = <<>> /\ <<>> \o r = r
      BY <2>4, ProgramElements
    <2> QED
      BY <2>1, <2>3, <2>5, Zenon
  <1> QED
    BY <1>1, <1>2, <1>3 DEF Resting, At, D

\* No step of the client pauses the task by itself, nor moves a resting thread.
LEMMA RestingClient ==
    ASSUME Typed, Resting, NEW s, Effect(s)
    PROVE  Resting'
  <1>1. TaskEffect(s) /\ task \in [state : TaskStates, thread : BOOLEAN]
    BY DEF Effect, Typed
  <1>2. ASSUME task'.state \in Calm PROVE task.state = task'.state /\ s[1] # "taskStart"
    <2>0. task'.state = "PAUSED" \/ task'.state = "STOPPED"
      BY <1>2 DEF Calm
    <2>1. CASE s[1] = "taskStart"
      <3>1. task' = [state |-> "STARTED", thread |-> TRUE]
        BY <1>1, <2>1 DEF TaskEffect
      <3> QED
        BY <2>0, <3>1
    <2>2. CASE s[1] \in {"taskPause", "pauseAsync"}
      <3>1. task' = IF task.state = "STARTED" THEN [task EXCEPT !.state = "PAUSING"] ELSE task
        BY <1>1, <2>2 DEF TaskEffect
      <3>2. task.state # "STARTED"
        BY <1>1, <2>0, <3>1
      <3> QED
        BY <2>2, <3>1, <3>2
    <2>3. CASE s[1] = "taskStop"
      <3>1. task' = IF task.state = "STOPPED" THEN task ELSE [task EXCEPT !.state = "STOPPING"]
        BY <1>1, <2>3 DEF TaskEffect
      <3>2. task.state = "STOPPED"
        BY <1>1, <2>0, <3>1
      <3> QED
        BY <2>3, <3>1, <3>2
    <2>4. CASE s[1] = "join"
      <3>1. task' = [task EXCEPT !.thread = FALSE]
        BY <1>1, <2>4 DEF TaskEffect
      <3> QED
        BY <1>1, <2>4, <3>1
    <2>5. CASE s[1] \notin {"taskStart", "taskPause", "pauseAsync", "taskStop", "join"}
      <3>1. task' = task
        BY <1>1, <2>5 DEF TaskEffect
      <3> QED
        BY <2>5, <3>1
    <2> QED
      BY <2>1, <2>2, <2>3, <2>4, <2>5
  <1>3. ASSUME task'.state \in Calm PROVE D' = D
    <2>1. ~At("demux", "asleep")
      BY <1>2, <1>3 DEF Resting, At, D
    <2> QED
      BY <1>1, <1>2, <1>3, <2>1 DEF TaskEffect
  <1> QED
    BY <1>2, <1>3 DEF Resting, At, D

\* A step of the demuxer's thread, outside a pause, keeps the steps of a seek guarded.
LEMMA SeekDemux ==
    ASSUME Typed, SeekOk, DemuxEffect, task.state \notin Calm
    PROVE  SeekOk'
  <1>1. CASE C' = C
    BY <1>1, GuardedSame DEF SeekOk
  <1>2. CASE C' = <<<<"awaitReady", "">>>>
    <2>1. PICK a : C' = <<a>> /\ a[1] = "awaitReady" /\ WordOk(a)
      BY <1>2, Pairs, CallWords, Zenon
    <2>2. a \notin SeekT
      BY <2>1, SeekWords
    <2> QED
      BY <2>1, <2>2, ShortPrograms DEF SeekOk, Guarded
  <1> QED
    BY <1>1, <1>2 DEF DemuxEffect

(* The inductive invariant.                                                 *)
QuietInv == Typed /\ Begun /\ Resting /\ SeekOk

\* The invariant holds before SetSource.
LEMMA QuietInit ==
    ASSUME Init
    PROVE  QuietInv
  <1>1. C = <<>> /\ D = <<>> /\ task.state = "STOPPED"
    BY DEF Init, PathInit, C, D, Threads
  <1>2. Resting
    BY <1>1 DEF Resting
  <1>3. SeekOk
    BY <1>1, ShortPrograms DEF SeekOk, Guarded
  <1> QED
    BY <1>2, <1>3, InitTyped DEF QuietInv

\* A step is one of the client, of the demuxer's thread, or a call.
LEMMA NextIs ==
    ASSUME Typed, Next
    PROVE  Effect(Head(C)) \/ DemuxEffect \/ CallEffect
  <1>1. CASE Call
    BY <1>1, CallEffects
  <1>2. CASE Step("client") \/ SpuriousReturn
    BY <1>2, ClientEffects
  <1>3. CASE Step("demux") \/ (SpuriousWakeup /\ UNCHANGED <<player, call>>)
    BY <1>3, DemuxEffects
  <1> QED
    BY <1>1, <1>2, <1>3 DEF Next, Threads

\* Every step keeps the invariant.
LEMMA QuietNext ==
    ASSUME QuietInv, [Next]_vars
    PROVE  QuietInv'
  <1>1. CASE UNCHANGED vars
    <2>1. UNCHANGED <<prog, task, demuxer, sink, core, player>> /\ C' = C /\ D' = D
      BY <1>1 DEF vars, C, D
    <2>2. Typed'
      BY <2>1 DEF QuietInv, Typed
    <2>3. Begun'
      BY <2>1 DEF QuietInv, Begun, At, C
    <2>4. Resting' /\ SeekOk'
      BY <2>1 DEF QuietInv, Resting, SeekOk, At
    <2> QED
      BY <2>2, <2>3, <2>4 DEF QuietInv
  <1>2. CASE Next
    <2>1. Typed /\ Begun /\ Resting /\ SeekOk
      BY DEF QuietInv
    <2>2. Fields'
      BY <1>2, <2>1, FieldsStay DEF Typed, Fields
    <2>3. CASE Effect(Head(C))
      <3>1. PICK s : s = Head(C)
        OBVIOUS
      <3>2. Effect(s)
        BY <2>3, <3>1
      <3>3. Typed' /\ Begun' /\ Resting' /\ SeekOk'
        BY <2>1, <2>2, <3>2, ClientTyped, BegunClient, RestingClient, SeekClient
      <3> QED
        BY <3>3 DEF QuietInv
    <2>4. CASE DemuxEffect
      <3>1. Typed' /\ Begun' /\ Resting' /\ task.state \notin Calm
        BY <2>1, <2>2, <2>4, DemuxTyped, BegunDemux, RestingDemux
      <3>2. SeekOk'
        BY <2>1, <2>4, <3>1, SeekDemux
      <3> QED
        BY <3>1, <3>2 DEF QuietInv
    <2>5. CASE CallEffect
      <3>1. Typed' /\ Begun' /\ SeekOk'
        BY <2>1, <2>5, CallTyped, BegunCall, SeekCalled
      <3>2. D' = D /\ task' = task
        BY <2>5, Zenon DEF CallEffect
      <3>3. Resting'
        BY <2>1, <3>2 DEF Resting, At, D
      <3> QED
        BY <3>1, <3>3 DEF QuietInv
    <2> QED
      BY <1>2, <2>1, <2>3, <2>4, <2>5, NextIs
  <1> QED
    BY <1>1, <1>2

\* The steps of a seek find the thread in its wait, or gone.
LEMMA QuietIs ==
    ASSUME QuietInv
    PROVE  QuietWhileFlushing
  <1> SUFFICES ASSUME At("client", "seekTo") \/ (At("client", "coreFlush") /\ Arg("client") = "flushEnd")
               PROVE  prog["demux"] = <<>> \/ At("demux", "paused")
    BY DEF QuietWhileFlushing
  <1>1. Typed /\ Resting /\ SeekOk
    BY DEF QuietInv
  <1>2. PICK s : s = Head(C)
    OBVIOUS
  <1>3. /\ C # <<>> /\ s = C[1] /\ WordOk(s) /\ Arg("client") = s[2]
        /\ s[1] = "seekTo" \/ (s[1] = "coreFlush" /\ s[2] = "flushEnd")
    BY <1>1, <1>2, ClientAt
  <1>4. s \in SeekT
    BY <1>3, SeekWords
  <1>5. 1 \in 1..Len(C)
    BY <1>1, <1>3, ProgramElements DEF Typed
  <1>6. task.state \in Calm
    BY <1>1, <1>3, <1>4, <1>5 DEF SeekOk, Guarded
  <1> QED
    BY <1>1, <1>6 DEF Resting, D

(* While a seek moves the demuxer plug-in, the thread of DemuxerLoop runs no
   handler: FlushStart pauses the task and waits, and nothing before FlushEnd
   starts it again.  For any number of calls, frames and failures.          *)
THEOREM QuietStaysWhileFlushing == Spec => []QuietWhileFlushing
  <1>1. Init => QuietInv
    BY QuietInit
  <1>2. QuietInv /\ [Next]_vars => QuietInv'
    BY QuietNext
  <1>3. QuietInv => QuietWhileFlushing
    BY QuietIs
  <1> QED
    BY <1>1, <1>2, <1>3, PTL DEF Spec
-----------------------------------------------------------------------------
(* The name of a step; the stop of a filter is named by the filter.         *)
Key(s) == IF s[1] = "stop" THEN s[2] ELSE s[1]

(* Before a step named in T there are only steps named in V, and P holds or a
   step named in M comes first that will see to it.                         *)
Led(p, T, V, M, P) ==
    \A k \in 1..Len(p) : Key(p[k]) \in T =>
        /\ \A j \in 1..(k - 1) : Key(p[j]) \in V
        /\ P \/ \E j \in 1..(k - 1) : Key(p[j]) \in M

\* A program stays led when the steps q replace its first one.
LEMMA LedThen ==
    ASSUME NEW p, Program(p), p # <<>>, NEW q, Program(q), NEW T, NEW V, NEW M, NEW P, NEW R,
           Led(p, T, V, M, P), Led(q, T, V, M, R),
           Key(Head(p)) \in V =>
              /\ \A i \in 1..Len(q) : Key(q[i]) \in V
              /\ P \/ Key(Head(p)) \in M => R \/ \E i \in 1..Len(q) : Key(q[i]) \in M
    PROVE  Led(q \o Tail(p), T, V, M, R)
  <1> DEFINE r == q \o Tail(p)
             n == Len(q)
  <1>1. /\ Program(r) /\ Len(r) = n + Len(p) - 1
        /\ n \in Nat /\ Len(p) \in Nat /\ Len(p) >= 1 /\ Head(p) = p[1]
        /\ \A i \in 1..n : r[i] = q[i]
        /\ \A i \in 1..(n + Len(p) - 1) : i > n => r[i] = p[i - n + 1]
    BY ThenElements
  <1> HIDE DEF r
  <1> SUFFICES ASSUME NEW k \in 1..Len(r), Key(r[k]) \in T
               PROVE  /\ \A j \in 1..(k - 1) : Key(r[j]) \in V
                      /\ R \/ \E j \in 1..(k - 1) : Key(r[j]) \in M
    BY DEF Led, r
  <1>2. CASE k <= n
    <2>1. k \in 1..n /\ Key(q[k]) \in T
      BY <1>1, <1>2
    <2>2. /\ \A j \in 1..(k - 1) : Key(q[j]) \in V
          /\ R \/ \E j \in 1..(k - 1) : Key(q[j]) \in M
      BY <2>1 DEF Led
    <2>3. \A j \in 1..(k - 1) : j \in 1..n /\ r[j] = q[j]
      BY <1>1, <2>1
    <2> QED
      BY <2>2, <2>3
  <1>3. CASE k > n
    <2> DEFINE m == k - n + 1
    <2>1. m \in 1..Len(p) /\ m >= 2 /\ Key(p[m]) \in T
      BY <1>1, <1>3
    <2>2. /\ \A j \in 1..(m - 1) : Key(p[j]) \in V
          /\ P \/ \E j \in 1..(m - 1) : Key(p[j]) \in M
      BY <2>1 DEF Led
    <2>3. Key(Head(p)) \in V
      BY <1>1, <2>1, <2>2
    <2>4. \A j \in 1..(k - 1) : j <= n \/ (j > n /\ j - n + 1 \in 1..(m - 1) /\ r[j] = p[j - n + 1])
      BY <1>1, <1>3
    <2>5. ASSUME NEW j \in 1..(k - 1) PROVE Key(r[j]) \in V
      <3>1. CASE j <= n
        <4>1. j \in 1..n /\ r[j] = q[j]
          BY <1>1, <3>1
        <4> QED
          BY <2>3, <4>1
      <3>2. CASE j > n
        BY <1>1, <2>2, <2>4, <3>2
      <3> QED
        BY <1>1, <3>1, <3>2
    <2>6. CASE P \/ Key(Head(p)) \in M
      <3>1. R \/ \E i \in 1..n : Key(q[i]) \in M
        BY <2>3, <2>6
      <3>2. \A i \in 1..n : i \in 1..(k - 1) /\ r[i] = q[i]
        BY <1>1, <1>3
      <3> QED
        BY <2>5, <3>1, <3>2
    <2>7. CASE ~(P \/ Key(Head(p)) \in M)
      <3>1. PICK j \in 1..(m - 1) : Key(p[j]) \in M
        BY <2>2, <2>7
      <3>2. j # 1
        BY <1>1, <2>7, <3>1
      <3>3. j + n - 1 \in 1..(k - 1) /\ j + n - 1 > n /\ (j + n - 1) - n + 1 = j
        BY <1>1, <2>1, <3>1, <3>2
      <3>4. j + n - 1 > n => r[j + n - 1] = p[j]
        BY <1>1, <1>3, <3>3
      <3>5. Key(r[j + n - 1]) \in M
        BY <3>1, <3>3, <3>4
      <3> QED
        BY <2>5, <3>3, <3>5
    <2> QED
      BY <2>6, <2>7
  <1> QED
    BY <1>1, <1>2, <1>3

\* The step that comes first is in T only when P holds.
LEMMA LedHead ==
    ASSUME NEW p, Program(p), p # <<>>, NEW T, NEW V, NEW M, NEW P,
           Led(p, T, V, M, P), Key(Head(p)) \in T
    PROVE  P
  <1>1. 1 \in 1..Len(p) /\ Head(p) = p[1]
    BY ProgramElements
  <1> QED
    BY <1>1 DEF Led

\* Steps of which none is named in T.
LEMMA LedNone ==
    ASSUME NEW q, NEW T, NEW V, NEW M, NEW P, \A i \in 1..Len(q) : Key(q[i]) \notin T
    PROVE  Led(q, T, V, M, P)
  BY DEF Led

\* What leads a program goes on leading it while P stays.
LEMMA LedSame ==
    ASSUME NEW p, NEW T, NEW V, NEW M, NEW P, NEW R, Led(p, T, V, M, P), P => R
    PROVE  Led(p, T, V, M, R)
  BY DEF Led
-----------------------------------------------------------------------------
(* The steps of Stop.                                                       *)

StopKeys == {"stopTask", "taskStop", "await", "join", "coreStop", "source", "demuxer", "sink", "unlink",
             "coreRemove", "wake", "failed", "setState"}

StopWord(s) ==
    /\ s[1] \in {"stopTask", "taskStop", "await", "join", "coreStop", "stop", "unlink", "coreRemove",
                 "wake", "failed", "setState"}
    /\ s[1] = "await" => s[2] = {"STOPPED"}
    /\ s[1] = "setState" => s[2] = "STOPPED"

\* The names of the steps of Stop.
LEMMA KeyIs ==
    ASSUME NEW s, WordOk(s), StopWord(s)
    PROVE  /\ Key(s) \in StopKeys
           /\ \A x \in StopKeys \ Filters : Key(s) = x <=> s[1] = x
           /\ \A f \in Filters : Key(s) = f <=> s[1] = "stop" /\ s[2] = f
  <1>1. CASE s[1] = "stop"
    <2>1. Key(s) = s[2] /\ s[2] \in Filters
      BY <1>1 DEF Key, WordOk, FilterOps
    <2> QED
      BY <1>1, <2>1 DEF StopKeys, Filters
  <1>2. CASE s[1] # "stop"
    <2>1. Key(s) = s[1]
      BY <1>2 DEF Key
    <2> QED
      BY <1>2, <2>1 DEF StopWord, StopKeys, Filters
  <1> QED
    BY <1>1, <1>2

(* What follows a step of Stop, by name.                                    *)
StopEffect(s, q) ==
    /\ Key(s) = "stopTask" =>
          (Len(q) = 0 /\ demuxer.plugin = "FRAME") \/ (Len(q) = 1 /\ Key(q[1]) = "taskStop")
    /\ Key(s) = "taskStop" =>
          (Len(q) = 0 /\ task.state = "STOPPED") \/ (Len(q) = 2 /\ Key(q[1]) = "await" /\ Key(q[2]) = "join")
    /\ Key(s) \in {"await", "join", "wake", "unlink", "coreRemove", "setState", "source"} => Len(q) = 0
    /\ Key(s) = "demuxer" => Len(q) = 2 /\ Key(q[1]) = "taskStop" /\ Key(q[2]) = "unlink"
    /\ Key(s) = "sink" => Len(q) = 1 /\ Key(q[1]) = "wake"
    /\ Key(s) = "failed" => Len(q) = 1 /\ Key(q[1]) = "setState"
    /\ Key(s) = "coreStop" =>
          \/ /\ "sink" \notin ToSet(core.filters)
             /\ Len(q) = 3 /\ Key(q[1]) = "demuxer" /\ Key(q[2]) = "source" /\ Key(q[3]) = "coreRemove"
          \/ /\ Len(q) = 4 /\ Key(q[1]) = "sink" /\ Key(q[2]) = "demuxer" /\ Key(q[3]) = "source"
             /\ Key(q[4]) = "coreRemove"
          \/ /\ SinkLeftOver
             /\ Len(q) = 4 /\ Key(q[1]) = "demuxer" /\ Key(q[2]) = "source" /\ Key(q[3]) = "sink"
             /\ Key(q[4]) = "coreRemove"

\* The names of the steps for the filters.
LEMMA StopSpread ==
    ASSUME core.filters \in FilterLists, core.filters # <<>>,
           NEW a, a[1] = "coreRemove", NEW q, q = ForFilters("stop") \o <<a>>
    PROVE  \/ /\ "sink" \notin ToSet(core.filters)
              /\ Len(q) = 3 /\ q[1] = <<"stop", "demuxer">> /\ q[2] = <<"stop", "source">>
              /\ q[3][1] = "coreRemove"
           \/ /\ Len(q) = 4 /\ q[1] = <<"stop", "sink">> /\ q[2] = <<"stop", "demuxer">>
              /\ q[3] = <<"stop", "source">> /\ q[4][1] = "coreRemove"
           \/ /\ SinkLeftOver
              /\ Len(q) = 4 /\ q[1] = <<"stop", "demuxer">> /\ q[2] = <<"stop", "source">>
              /\ q[3] = <<"stop", "sink">> /\ q[4][1] = "coreRemove"
  <1> DEFINE F == ForFilters("stop")
  <1>2. Program(F)
    BY Spread
  <1>3. /\ core.filters = <<"source", "demuxer">> =>
              Len(F) = 2 /\ F[1] = <<"stop", "demuxer">> /\ F[2] = <<"stop", "source">>
        /\ core.filters = <<"source", "demuxer", "sink">> =>
              Len(F) = 3 /\ F[1] = <<"stop", "sink">> /\ F[2] = <<"stop", "demuxer">> /\ F[3] = <<"stop", "source">>
        /\ core.filters = <<"sink", "source", "demuxer">> =>
              Len(F) = 3 /\ F[1] = <<"stop", "demuxer">> /\ F[2] = <<"stop", "source">> /\ F[3] = <<"stop", "sink">>
    BY ForFiltersIs, ShortPrograms, LongerPrograms
  <1> HIDE DEF F
  <1>4. q = F \o <<a>>
    BY DEF F
  <1>5. Len(F \o <<a>>) = Len(F) + 1 /\ Len(F) \in Nat /\ (F \o <<a>>)[Len(F) + 1] = a
    BY <1>2, MoreSteps
  <1>6. \A i \in 1..Len(F) : (F \o <<a>>)[i] = F[i]
    BY <1>2, MoreSteps
  <1>7. CASE core.filters = <<"source", "demuxer">>
    <2>1. "sink" \notin ToSet(core.filters)
      BY <1>7 DEF ToSet
    <2>2. Len(F) = 2 /\ 1 \in 1..Len(F) /\ 2 \in 1..Len(F)
      BY <1>3, <1>7
    <2> QED
      BY <1>3, <1>4, <1>5, <1>6, <1>7, <2>1, <2>2
  <1>8. CASE core.filters = <<"source", "demuxer", "sink">>
    <2>0. Len(F) = 3
      BY <1>3, <1>8
    <2>1. Len(F) = 3 /\ 1 \in 1..Len(F) /\ 2 \in 1..Len(F) /\ 3 \in 1..Len(F)
      BY <2>0
    <2> QED
      BY <1>3, <1>4, <1>5, <1>6, <1>8, <2>1
  <1>9. CASE core.filters = <<"sink", "source", "demuxer">>
    <2>0. Len(F) = 3
      BY <1>3, <1>9
    <2>1. Len(F) = 3 /\ 1 \in 1..Len(F) /\ 2 \in 1..Len(F) /\ 3 \in 1..Len(F)
      BY <2>0
    <2>2. SinkLeftOver
      BY <1>9 DEF SinkLeftOver
    <2> QED
      BY <1>3, <1>4, <1>5, <1>6, <1>9, <2>1, <2>2
  <1> QED
    BY <1>7, <1>8, <1>9 DEF FilterLists

\* What follows a step of Stop is a step of Stop, and which one.
LEMMA StopFollows ==
    ASSUME Typed, core.filters # <<>>, call = "Stop", NEW s, WordOk(s), StopWord(s),
           NEW q, Program(q), WordsOk(q), ProgramEffect(s, q)
    PROVE  StopEffect(s, q) /\ \A i \in 1..Len(q) : StopWord(q[i])
  <1> USE KeyIs
  <1>0. /\ \A a : WordOk(a) /\ StopWord(a) /\ a[1] # "stop" => Key(a) = a[1]
        /\ Key(s) \in StopKeys /\ s[1] # "stop" => Key(s) = s[1]
    BY DEF Key
  <1>1. q = <<>> => Len(q) = 0 /\ \A i \in 1..Len(q) : StopWord(q[i])
    BY ShortPrograms
  <1>2. ASSUME NEW a, q = <<a>>, StopWord(a), a[1] # "stop"
        PROVE  Len(q) = 1 /\ Key(q[1]) = a[1] /\ \A i \in 1..Len(q) : StopWord(q[i])
    <2>1. Len(q) = 1 /\ q[1] = a
      BY <1>2, ShortPrograms
    <2>2. Key(a) = a[1]
      BY <1>2 DEF Key
    <2> QED
      BY <1>2, <2>1, <2>2
  <1>3. ASSUME NEW a, NEW b, q = <<a, b>>, StopWord(a), StopWord(b), a[1] # "stop", b[1] # "stop"
        PROVE  Len(q) = 2 /\ Key(q[1]) = a[1] /\ Key(q[2]) = b[1] /\ \A i \in 1..Len(q) : StopWord(q[i])
    <2>1. Len(q) = 2 /\ q[1] = a /\ q[2] = b
      BY <1>3, ShortPrograms
    <2>2. Key(a) = a[1] /\ Key(b) = b[1]
      BY <1>3 DEF Key
    <2> QED
      BY <1>3, <2>1, <2>2
  <1>4. CASE s[1] \in {"await", "join", "wake", "unlink", "coreRemove", "setState"} \/ (s[1] = "stop" /\ s[2] = "source")
    <2>1. q = <<>>
      BY <1>4 DEF ProgramEffect
    <2>2. Key(s) \in {"await", "join", "wake", "unlink", "coreRemove", "setState", "source"}
      BY <1>4 DEF Key
    <2> QED
      BY <1>1, <2>1, <2>2 DEF StopEffect
  <1>5. CASE s[1] = "stopTask"
    <2>1. \/ q = <<>> /\ demuxer.plugin = "FRAME"
          \/ \E a : q = <<a>> /\ a[1] = "taskStop"
      <3>1. \/ q = <<>> /\ demuxer.plugin = "FRAME"
            \/ q = <<<<"taskStop", "">>>>
        BY <1>5, Zenon DEF ProgramEffect
      <3>2. <<"taskStop", "">>[1] = "taskStop"
        BY Pairs, Zenon
      <3> QED
        BY <3>1, <3>2, Zenon
    <2>2. Key(s) = "stopTask"
      BY <1>5 DEF Key
    <2>3. \A a : a[1] = "taskStop" => StopWord(a)
      BY DEF StopWord
    <2> QED
      BY <1>1, <1>2, <2>1, <2>2, <2>3 DEF StopEffect
  <1>6. CASE s[1] = "taskStop"
    <2>1. \/ q = <<>> /\ task.state = "STOPPED"
          \/ \E a, b : q = <<a, b>> /\ a[1] = "await" /\ a[2] = {"STOPPED"} /\ b[1] = "join"
      <3>1. \/ q = <<>> /\ task.state = "STOPPED"
            \/ q = <<<<"await", {"STOPPED"}>>, <<"join", "">>>>
        BY <1>6, Zenon DEF ProgramEffect
      <3>2. <<"await", {"STOPPED"}>>[1] = "await" /\ <<"await", {"STOPPED"}>>[2] = {"STOPPED"} /\ <<"join", "">>[1] = "join"
        BY Pairs, Zenon
      <3> QED
        BY <3>1, <3>2, Zenon
    <2>2. Key(s) = "taskStop"
      BY <1>6 DEF Key
    <2>3. \A a : (a[1] = "await" /\ a[2] = {"STOPPED"}) \/ a[1] = "join" => StopWord(a)
      BY DEF StopWord
    <2> QED
      BY <1>1, <1>3, <2>1, <2>2, <2>3 DEF StopEffect
  <1>7. CASE s[1] = "stop" /\ s[2] = "demuxer"
    <2>1. \E a, b : q = <<a, b>> /\ a[1] = "taskStop" /\ b[1] = "unlink"
      <3>1. q = <<<<"taskStop", "">>, <<"unlink", "">>>>
        BY <1>7, Zenon DEF ProgramEffect
      <3>2. <<"taskStop", "">>[1] = "taskStop" /\ <<"unlink", "">>[1] = "unlink"
        BY Pairs, Zenon
      <3> QED
        BY <3>1, <3>2, Zenon
    <2>2. Key(s) = "demuxer"
      BY <1>7 DEF Key
    <2>3. \A a : a[1] = "taskStop" \/ a[1] = "unlink" => StopWord(a)
      BY DEF StopWord
    <2> QED
      BY <1>3, <2>1, <2>2, <2>3 DEF StopEffect
  <1>8. CASE s[1] = "stop" /\ s[2] = "sink"
    <2>1. \E a : q = <<a>> /\ a[1] = "wake"
      <3>1. q = <<<<"wake", "">>>>
        BY <1>8, Zenon DEF ProgramEffect
      <3> QED
        BY <3>1, Pairs, Zenon
    <2>2. Key(s) = "sink"
      BY <1>8 DEF Key
    <2>3. \A a : a[1] = "wake" => StopWord(a)
      BY DEF StopWord
    <2> QED
      BY <1>2, <2>1, <2>2, <2>3 DEF StopEffect
  <1>9. CASE s[1] = "failed"
    <2>1. \E a : q = <<a>> /\ a[1] = "setState" /\ a[2] = "STOPPED"
      <3>1. q = <<<<"setState", "STOPPED">>>>
        BY <1>9, Zenon DEF ProgramEffect
      <3>2. <<"setState", "STOPPED">>[1] = "setState" /\ <<"setState", "STOPPED">>[2] = "STOPPED"
        BY Pairs, Zenon
      <3> QED
        BY <3>1, <3>2, Zenon
    <2>2. Key(s) = "failed"
      BY <1>9 DEF Key
    <2>3. \A a : a[1] = "setState" /\ a[2] = "STOPPED" => StopWord(a)
      BY DEF StopWord
    <2> QED
      BY <1>2, <2>1, <2>2, <2>3 DEF StopEffect
  <1>10. CASE s[1] = "coreStop"
    <2>1. \E a : a[1] = "coreRemove" /\ q = ForFilters("stop") \o <<a>>
      <3>1. q = ForFilters("stop") \o <<<<"coreRemove", "">>>>
        BY <1>10, Zenon DEF ProgramEffect
      <3> QED
        BY <3>1, Pairs, Zenon
    <2>2. Key(s) = "coreStop"
      BY <1>10 DEF Key
    <2>3. \A f : Key(<<"stop", f>>) = f /\ StopWord(<<"stop", f>>)
      BY DEF Key, StopWord
    <2>4. \A a : a[1] = "coreRemove" => Key(a) = "coreRemove" /\ StopWord(a)
      BY DEF Key, StopWord
    <2>5. \/ /\ "sink" \notin ToSet(core.filters)
             /\ Len(q) = 3 /\ q[1] = <<"stop", "demuxer">> /\ q[2] = <<"stop", "source">>
             /\ q[3][1] = "coreRemove"
          \/ /\ Len(q) = 4 /\ q[1] = <<"stop", "sink">> /\ q[2] = <<"stop", "demuxer">>
             /\ q[3] = <<"stop", "source">> /\ q[4][1] = "coreRemove"
          \/ /\ SinkLeftOver
             /\ Len(q) = 4 /\ q[1] = <<"stop", "demuxer">> /\ q[2] = <<"stop", "source">>
             /\ q[3] = <<"stop", "sink">> /\ q[4][1] = "coreRemove"
      <3>1. PICK a : a[1] = "coreRemove" /\ q = ForFilters("stop") \o <<a>>
        BY <2>1, Zenon
      <3>2. core.filters \in FilterLists /\ core.filters # <<>>
        BY DEF Typed
      <3> QED
        BY ONLY <3>1, <3>2, StopSpread
    <2>6. StopEffect(s, q)
      BY <2>2, <2>3, <2>4, <2>5, Zenon DEF StopEffect
    <2>7. ASSUME NEW i \in 1..Len(q) PROVE StopWord(q[i])
      <3>1. i \in {1, 2, 3, 4} /\ (i = 4 => Len(q) = 4)
        <4>1. Len(q) = 3 \/ Len(q) = 4
          BY <2>5
        <4>2. CASE Len(q) = 3
          BY <2>7, <4>2
        <4>3. CASE Len(q) = 4
          BY <2>7, <4>3
        <4> QED
          BY <4>1, <4>2, <4>3
      <3>2. q[i][1] = "coreRemove" \/ \E f \in Filters : q[i] = <<"stop", f>>
        BY <2>5, <3>1 DEF Filters
      <3> QED
        BY <2>3, <2>4, <3>2, Zenon
    <2> QED
      BY <2>6, <2>7
  <1> QED
    BY <1>4, <1>5, <1>6, <1>7, <1>8, <1>9, <1>10 DEF StopWord, WordOk, FilterOps, Filters
-----------------------------------------------------------------------------
(* The demuxer's thread and the sink.                                       *)

Parsing == {"addSink", "negotiate", "parsed"}

Tame == DemuxOps \ {"loop", "addSink", "negotiate", "parsed"}

Blocks == {"evaluate", "sleep", "asleep"}

(* Only a handler that finds no frames yet parses.                          *)
ParseStep ==
    \E q : /\ Program(q) /\ D' = q \o Tail(D)
           /\ \/ \A i \in 1..Len(q) : q[i][1] \in Tame
              \/ /\ At("demux", "loop") /\ demuxer.plugin # "FRAME"
                 /\ Len(q) = 4 /\ q[1][1] = "addSink" /\ q[2][1] = "negotiate" /\ q[3][1] = "parsed"
                 /\ q[4][1] = "ready"
              \/ At("demux", "top") /\ \A i \in 1..Len(q) : q[i][1] \notin Parsing

(* What a step of the demuxer's thread does to the sink and to the link.    *)
SinkEffect ==
    /\ sink'.state = sink.state \/ At("demux", "addSink") \/ At("demux", "negotiate")
    /\ demuxer'.plugin = demuxer.plugin \/ At("demux", "parsed")
    /\ At("demux", "parsed") => demuxer'.plugin = "FRAME"
    /\ core'.filters = core.filters \/ At("demux", "addSink")
    /\ At("demux", "addSink") => "sink" \in ToSet(core'.filters)
    /\ sink'.blocking =>
          \/ D' # <<>> /\ Head(D')[1] \in Blocks
          \/ sink.blocking /\ ~\E op \in Blocks : At("demux", op)

PathEffect ==
    /\ D # <<>> /\ ParseStep /\ SinkEffect
    /\ task'.state \in {"STOPPING", "STOPPED"} => task.state \in {"STOPPING", "STOPPED"}

\* Short pieces that have nothing to do with the parsing.
LEMMA TameStep ==
    ASSUME Typed,
           \/ Then("demux", <<>>)
           \/ \E a : a[1] \in Tame /\ Then("demux", <<a>>)
           \/ \E a, b : a[1] \in Tame /\ b[1] \in Tame /\ Then("demux", <<a, b>>)
    PROVE  ParseStep
  <1>1. ASSUME NEW q, Then("demux", q) PROVE D' = q \o Tail(D)
    BY <1>1 DEF Then, Typed, D, Threads
  <1>2. ASSUME NEW q, Then("demux", q), Program(q), \A i \in 1..Len(q) : q[i][1] \in Tame
        PROVE  ParseStep
    BY <1>1, <1>2, Zenon DEF ParseStep
  <1>3. CASE Then("demux", <<>>)
    BY <1>2, <1>3, ShortPrograms
  <1>4. ASSUME NEW a, a[1] \in Tame, Then("demux", <<a>>) PROVE ParseStep
    <2>1. Program(<<a>>) /\ \A i \in 1..Len(<<a>>) : <<a>>[i][1] \in Tame
      BY <1>4, ShortPrograms
    <2> QED
      BY <1>2, <1>4, <2>1
  <1>5. ASSUME NEW a, NEW b, a[1] \in Tame, b[1] \in Tame, Then("demux", <<a, b>>) PROVE ParseStep
    <2>1. PICK q : q = <<a, b>>
      OBVIOUS
    <2>2. Program(q) /\ Len(q) = 2 /\ q[1] = a /\ q[2] = b
      BY <2>1, ShortPrograms
    <2>3. \A i \in 1..Len(q) : q[i][1] \in Tame
      BY <1>5, <2>2
    <2> QED
      BY <1>2, <1>5, <2>1, <2>2, <2>3
  <1> QED
    BY <1>3, <1>4, <1>5

\* A step that comes to block begins with a step of the wait.
LEMMA BlockStep ==
    ASSUME Typed, D # <<>>, NEW a, a[1] \in Blocks, Then("demux", <<a>>)
    PROVE  D' # <<>> /\ Head(D')[1] \in Blocks
  <1>1. D' = <<a>> \o Tail(D)
    BY DEF Then, Typed, D, Threads
  <1>2. PICK q, r : q = <<a>> /\ r = q \o Tail(D)
    OBVIOUS
  <1>3. Program(q) /\ Len(q) = 1 /\ q[1] = a
    BY <1>2, ShortPrograms
  <1>4. /\ Program(r) /\ Len(r) = Len(q) + Len(D) - 1 /\ Len(D) \in Nat /\ Len(D) >= 1
        /\ \A i \in 1..Len(q) : r[i] = q[i]
    BY <1>2, <1>3, ThenElements DEF Typed
  <1>5. Len(r) >= 1 /\ r[1] = a
    BY <1>3, <1>4
  <1>6. r # <<>> /\ Head(r) = r[1]
    BY <1>4, <1>5, ProgramElements
  <1> QED
    BY <1>1, <1>2, <1>5, <1>6, Zenon

\* A step that leaves the sink and the link alone.
LEMMA TameEffect ==
    ASSUME Typed, NEW op, At("demux", op), op \notin Blocks \cup {"addSink", "parsed"}, ParseStep,
           sink' = sink, demuxer'.plugin = demuxer.plugin, core'.filters = core.filters,
           task'.state \in {"STOPPING", "STOPPED"} => task.state \in {"STOPPING", "STOPPED"}
    PROVE  PathEffect
  BY DEF PathEffect, SinkEffect, At, D

\* Every step of the demuxer's thread is a PathEffect.
LEMMA PathEffects ==
    ASSUME Typed, Step("demux") \/ (SpuriousWakeup /\ UNCHANGED <<player, call>>)
    PROVE  PathEffect
  <1>0. \A op : At("demux", op) => op \in DemuxOps
    BY DemuxAt DEF At, D
  <1>t. {"check", "paused", "top", "push", "pauseAsync", "event", "ready", "count", "countReset", "block",
         "evaluate", "sleep", "asleep", "write"} \subseteq Tame
    BY DEF Tame, DemuxOps, Rounds
  <1>1. CASE PathStep("demux") /\ UNCHANGED <<player, call>>
    <2>1. ~(TaskStart("demux") \/ TaskPause("demux") \/ TaskStop("demux") \/ Await("demux") \/ Join("demux") \/ WakePusher("demux"))
      <3>1. \A op \in {"taskStart", "taskPause", "taskStop", "await", "join", "wake"} : ~At("demux", op)
        BY <1>0 DEF DemuxOps, Rounds
      <3> QED
        BY <3>1 DEF TaskStart, TaskPause, TaskStop, Await, Join, WakePusher
    <2>2. CASE PauseAsync("demux")
      <3>1. /\ At("demux", "pauseAsync") /\ Then("demux", <<>>) /\ UNCHANGED <<core, sink, demuxer>>
            /\ task'.state \in {"STOPPING", "STOPPED"} => task.state \in {"STOPPING", "STOPPED"}
        BY <2>2 DEF PauseAsync, Typed
      <3> QED
        BY <3>1, TameStep, TameEffect DEF Blocks
    <2>3. CASE Ready("demux")
      <3>1. /\ At("demux", "ready") /\ \E a : a[1] = "count" /\ Then("demux", <<a>>)
            /\ UNCHANGED <<core, sink, demuxer, task>>
        BY <2>3 DEF Ready
      <3>2. ParseStep
        BY <1>t, <3>1, TameStep
      <3> QED
        BY <3>1, <3>2, TameEffect DEF Blocks
    <2>4. CASE Count("demux")
      <3>1. /\ At("demux", "count") /\ core'.filters = core.filters /\ UNCHANGED <<sink, demuxer, task>>
            /\ \/ Then("demux", <<>>)
               \/ \E a, b : a[1] = "event" /\ b[1] = "countReset" /\ Then("demux", <<a, b>>)
        BY <2>4 DEF Count, Typed
      <3>2. ParseStep
        BY <1>t, <3>1, TameStep
      <3> QED
        BY <3>1, <3>2, TameEffect DEF Blocks
    <2>5. CASE CountReset("demux")
      <3>1. /\ At("demux", "countReset") /\ core'.filters = core.filters /\ UNCHANGED <<sink, demuxer, task>>
            /\ Then("demux", <<>>)
        BY <2>5 DEF CountReset, Typed
      <3> QED
        BY <3>1, TameStep, TameEffect DEF Blocks
    <2>6. CASE RunHandler
      <3>1. /\ At("demux", "top") /\ UNCHANGED <<core, sink, demuxer, task>>
            /\ \/ \E a : a[1] = "check" /\ Then("demux", <<a>>)
               \/ \E a, b : a[1] = "loop" /\ b[1] = "check" /\ Then("demux", <<a, b>>)
        BY <2>6 DEF RunHandler
      <3>2. CASE \E a : a[1] = "check" /\ Then("demux", <<a>>)
        <4>1. ParseStep
          BY <1>t, <3>2, TameStep
        <4> QED
          BY <3>1, <4>1, TameEffect DEF Blocks
      <3>3. ASSUME NEW a, NEW b, a[1] = "loop", b[1] = "check", Then("demux", <<a, b>>)
            PROVE  ParseStep
        <4>1. PICK q : q = <<a, b>>
          OBVIOUS
        <4>2. Program(q) /\ Len(q) = 2 /\ q[1] = a /\ q[2] = b
          BY <4>1, ShortPrograms
        <4>3. \A i \in 1..Len(q) : q[i][1] \notin Parsing
          BY <3>3, <4>2 DEF Parsing
        <4>4. D' = q \o Tail(D)
          BY <3>3, <4>1 DEF Then, Typed, D, Threads
        <4> QED
          BY <3>1, <4>2, <4>3, <4>4, Zenon DEF ParseStep
      <3> QED
        BY <3>1, <3>2, <3>3, TameEffect DEF Blocks
    <2>7. CASE CheckState
      <3>1. /\ At("demux", "check") \/ At("demux", "paused")
            /\ UNCHANGED <<core, sink, demuxer>>
            /\ \/ Then("demux", <<>>)
               \/ \E a : a[1] \in {"paused", "top"} /\ Then("demux", <<a>>)
        <4>1. \/ Then("demux", <<<<"paused", "">>>>) \/ Then("demux", <<>>) \/ Then("demux", <<<<"top", "">>>>)
          BY <2>7 DEF CheckState
        <4>2. <<"paused", "">>[1] = "paused" /\ <<"top", "">>[1] = "top"
          BY Pairs, Zenon
        <4>3. /\ At("demux", "check") \/ At("demux", "paused")
              /\ UNCHANGED <<core, sink, demuxer>>
          BY <2>7 DEF CheckState
        <4>4. Then("demux", <<>>) \/ \E a : (a[1] = "paused" \/ a[1] = "top") /\ Then("demux", <<a>>)
          BY <4>1, <4>2, Zenon
        <4> QED
          BY <4>3, <4>4
      <3>2. ParseStep
        BY <1>t, <3>1, TameStep
      <3>3. task'.state \in {"STOPPING", "STOPPED"} => task.state \in {"STOPPING", "STOPPED"}
        BY <2>7 DEF CheckState, Typed
      <3> QED
        BY <3>1, <3>2, <3>3, TameEffect DEF Blocks
    <2>8. CASE ReadFrame
      <3>1. /\ At("demux", "loop") /\ UNCHANGED <<core, sink, task>> /\ demuxer'.plugin = demuxer.plugin
            /\ \/ \E a : a[1] = "push" /\ Then("demux", <<a>>)
               \/ \E a, b : a[1] = "push" /\ b[1] = "pauseAsync" /\ Then("demux", <<a, b>>)
        BY <2>8 DEF ReadFrame, Typed
      <3>2. ParseStep
        BY <1>t, <3>1, TameStep
      <3> QED
        BY <3>1, <3>2, TameEffect DEF Blocks
    <2>9. CASE GetMediaInfo
      <3>1. /\ At("demux", "loop") /\ demuxer.plugin # "FRAME" /\ UNCHANGED <<core, sink, demuxer, task>>
            /\ \/ \E a, b : a[1] = "pauseAsync" /\ b[1] = "event" /\ Then("demux", <<a, b>>)
               \/ \E a, b, c, d : /\ a[1] = "addSink" /\ b[1] = "negotiate" /\ c[1] = "parsed" /\ d[1] = "ready"
                                  /\ Then("demux", <<a, b, c, d>>)
        BY <2>9 DEF GetMediaInfo
      <3>2. ASSUME NEW a, NEW b, NEW c, NEW d, a[1] = "addSink", b[1] = "negotiate", c[1] = "parsed",
                   d[1] = "ready", Then("demux", <<a, b, c, d>>)
            PROVE  ParseStep
        <4>1. PICK q : q = <<a, b, c, d>>
          OBVIOUS
        <4>2. Program(q) /\ Len(q) = 4 /\ q[1] = a /\ q[2] = b /\ q[3] = c /\ q[4] = d
          BY <4>1, LongerPrograms
        <4>3. D' = q \o Tail(D)
          BY <3>2, <4>1 DEF Then, Typed, D, Threads
        <4> QED
          BY <3>1, <3>2, <4>2, <4>3, Zenon DEF ParseStep
      <3>3. ASSUME \E a, b : a[1] = "pauseAsync" /\ b[1] = "event" /\ Then("demux", <<a, b>>)
            PROVE  ParseStep
        BY <1>t, <3>3, TameStep
      <3>4. ParseStep
        BY <3>1, <3>2, <3>3
      <3> QED
        BY <3>1, <3>4, TameEffect DEF Blocks
    <2>10. CASE AddSink
      <3>1. /\ At("demux", "addSink") /\ Then("demux", <<>>) /\ task' = task
            /\ demuxer'.plugin = demuxer.plugin /\ sink'.blocking = sink.blocking
        BY <2>10 DEF AddSink, Typed
      <3>2. "sink" \in ToSet(core'.filters)
        <4>1. CASE "sink" \in ToSet(core.filters)
          BY <2>10, <4>1 DEF AddSink
        <4>2. CASE "sink" \notin ToSet(core.filters)
          <5>1. core'.filters = Append(core.filters, "sink")
            BY <2>10, <4>2 DEF AddSink, Typed
          <5>2. PICK S : S = Filters
            OBVIOUS
          <5>3. core.filters \in Seq(S) /\ "sink" \in S
            <6>1. /\ <<>> \in Seq(Filters) /\ <<"source", "demuxer">> \in Seq(Filters)
                  /\ <<"source", "demuxer", "sink">> \in Seq(Filters)
                  /\ <<"sink", "source", "demuxer">> \in Seq(Filters)
              BY DEF Filters
            <6>2. core.filters \in Seq(Filters)
              BY <6>1 DEF Typed, FilterLists
            <6> QED
              BY <5>2, <6>2 DEF Filters
          <5>4. PICK x : x = Append(core.filters, "sink")
            OBVIOUS
          <5>5. Len(x) = Len(core.filters) + 1 /\ x[Len(core.filters) + 1] = "sink" /\ x \in Seq(S)
            BY <5>3, <5>4, AppendProperties
          <5>6. Len(core.filters) + 1 \in DOMAIN x
            BY <5>3, <5>5
          <5> QED
            BY <5>1, <5>4, <5>5, <5>6 DEF ToSet
        <4> QED
          BY <4>1, <4>2
      <3>3. ParseStep /\ D # <<>> /\ ~\E op \in Blocks : At("demux", op)
        BY <3>1, TameStep DEF At, D, Blocks
      <3>4. ~At("demux", "parsed")
        BY <3>1 DEF At
      <3> QED
        BY <3>1, <3>2, <3>3, <3>4 DEF PathEffect, SinkEffect
    <2>11. CASE NegotiateDownstream
      <3>1. /\ At("demux", "negotiate") /\ UNCHANGED <<task, demuxer, core>>
            /\ \/ Then("demux", <<<<"ready", "sink">>>>) \/ Then("demux", <<<<"event", "ERROR">>>>)
               \/ Then("demux", <<<<"pauseAsync", "">>, <<"event", "ERROR">>>>)
            /\ sink'.blocking = sink.blocking
        BY <2>11 DEF NegotiateDownstream, Typed
      <3>2. /\ <<"ready", "sink">>[1] \in Tame /\ <<"event", "ERROR">>[1] \in Tame
            /\ <<"pauseAsync", "">>[1] \in Tame
        BY <1>t, Pairs
      <3>3. ParseStep
        BY <3>1, <3>2, TameStep, Zenon
      <3>4. D # <<>> /\ ~At("demux", "parsed") /\ ~At("demux", "addSink") /\ ~\E op \in Blocks : At("demux", op)
        BY <3>1 DEF At, D, Blocks
      <3> QED
        BY <3>1, <3>3, <3>4 DEF PathEffect, SinkEffect
    <2>12. CASE Parsed
      <3>1. /\ At("demux", "parsed") /\ UNCHANGED <<task, sink, core>> /\ Then("demux", <<>>)
            /\ demuxer'.plugin = "FRAME"
        BY <2>12 DEF Parsed, Typed
      <3>2. D # <<>> /\ ~At("demux", "addSink") /\ ~\E op \in Blocks : At("demux", op)
        BY <3>1 DEF At, D, Blocks
      <3> QED
        BY <3>1, <3>2, TameStep DEF PathEffect, SinkEffect
    <2>13. CASE PushData \/ Write
      <3>1. /\ At("demux", "push") \/ At("demux", "write")
            /\ UNCHANGED <<task, demuxer, sink, core>>
            /\ \/ Then("demux", <<>>)
               \/ \E a : a[1] \in {"block", "write", "event"} /\ Then("demux", <<a>>)
        <4>1. CASE PushData
          BY <4>1 DEF PushData
        <4>2. CASE Write
          BY <4>2 DEF Write
        <4> QED
          BY <2>13, <4>1, <4>2
      <3>2. ParseStep
        BY <1>t, <3>1, TameStep
      <3> QED
        BY <3>1, <3>2, TameEffect DEF Blocks
    <2>14. CASE Block \/ Evaluate \/ Sleep
      <3>1. /\ At("demux", "block") \/ At("demux", "evaluate") \/ At("demux", "sleep")
            /\ UNCHANGED <<task, demuxer, core>> /\ sink'.state = sink.state
            /\ \/ \E a : a[1] = "write" /\ Then("demux", <<a>>) /\ ~sink'.blocking
               \/ \E a : a[1] \in Blocks /\ Then("demux", <<a>>)
        <4>1. /\ At("demux", "block") \/ At("demux", "evaluate") \/ At("demux", "sleep")
              /\ UNCHANGED <<task, demuxer, core>> /\ sink'.state = sink.state
          BY <2>14 DEF Block, Evaluate, Sleep, Typed
        <4>2. \/ \E a : a[1] = "write" /\ Then("demux", <<a>>) /\ ~sink'.blocking
              \/ \E a : a[1] = "evaluate" /\ Then("demux", <<a>>)
              \/ \E a : a[1] = "sleep" /\ Then("demux", <<a>>)
              \/ \E a : a[1] = "asleep" /\ Then("demux", <<a>>)
          <5>1. ASSUME Block PROVE \E a : a[1] = "evaluate" /\ Then("demux", <<a>>)
            BY <5>1 DEF Block
          <5>2. ASSUME Evaluate
                PROVE  \/ \E a : a[1] = "write" /\ Then("demux", <<a>>) /\ ~sink'.blocking
                       \/ \E a : a[1] = "sleep" /\ Then("demux", <<a>>)
            BY <5>2 DEF Evaluate, Typed
          <5>3. ASSUME Sleep PROVE \E a : a[1] = "asleep" /\ Then("demux", <<a>>)
            BY <5>3 DEF Sleep
          <5> QED
            BY <2>14, <5>1, <5>2, <5>3
        <4>3. "evaluate" \in Blocks /\ "sleep" \in Blocks /\ "asleep" \in Blocks
          BY DEF Blocks
        <4> QED
          BY <4>1, <4>2, <4>3, Zenon
      <3>2. D # <<>> /\ ~At("demux", "addSink") /\ ~At("demux", "parsed")
        BY <3>1 DEF At, D
      <3>3. ParseStep
        BY <1>t, <3>1, TameStep DEF Blocks
      <3>4. sink'.blocking => D' # <<>> /\ Head(D')[1] \in Blocks
        BY <3>1, <3>2, BlockStep
      <3> QED
        BY <3>1, <3>2, <3>3, <3>4 DEF PathEffect, SinkEffect
    <2> QED
      BY <1>1, <2>1, <2>2, <2>3, <2>4, <2>5, <2>6, <2>7, <2>8, <2>9, <2>10, <2>11, <2>12, <2>13, <2>14 DEF PathStep
  <1>2. CASE HandleErrorEvent("demux")
    <2>1. At("demux", "event") /\ Then("demux", <<>>) /\ UNCHANGED <<task, core, sink, demuxer>>
      BY <1>2 DEF HandleErrorEvent, unchangedPath
    <2> QED
      BY <2>1, TameStep, TameEffect DEF Blocks
  <1>3. CASE HandleReadyEvent("demux") \/ HandleCompleteEvent("demux")
    <2>1. /\ At("demux", "event") /\ UNCHANGED <<task, core, sink, demuxer>>
          /\ prog' = [prog EXCEPT !["demux"] = Tail(@),
                                  !["client"] = IF Waiting THEN <<<<"awaitReady", "">>>> ELSE @]
      BY <1>3 DEF HandleReadyEvent, HandleCompleteEvent, ChangeState, unchangedPath
    <2>2. D' = Tail(D)
      BY <2>1 DEF Typed, D, Threads
    <2>3. D' = <<>> \o Tail(D)
      BY <2>1, <2>2, ProgramElements DEF Typed, At, D
    <2>4. Program(<<>>) /\ \A i \in 1..Len(<<>>) : <<>>[i][1] \in Tame
      BY ShortPrograms
    <2>5. ParseStep
      BY <2>3, <2>4, Zenon DEF ParseStep
    <2> QED
      BY <2>1, <2>5, TameEffect DEF Blocks
  <1>4. CASE SpuriousWakeup /\ UNCHANGED <<player, call>>
    <2>1. /\ At("demux", "asleep") /\ UNCHANGED <<core, task, sink, demuxer>>
          /\ \E a : a[1] = "evaluate" /\ Then("demux", <<a>>)
      BY <1>4 DEF SpuriousWakeup
    <2>2. D # <<>> /\ ~At("demux", "addSink") /\ ~At("demux", "parsed")
      BY <2>1 DEF At, D
    <2>3. ParseStep
      BY <1>t, <2>1, TameStep
    <2>4. D' # <<>> /\ Head(D')[1] \in Blocks
      BY <2>1, <2>2, BlockStep DEF Blocks
    <2> QED
      BY <2>1, <2>2, <2>3, <2>4 DEF PathEffect, SinkEffect
  <1> QED
    BY <1>1, <1>2, <1>3, <1>4 DEF Step
-----------------------------------------------------------------------------
(* The client's work on the sink.                                           *)

Works == {"prepare", "start", "pause", "resume"}

SinkWork(s) == s[1] \in Works /\ s[2] = "sink"

(* New work on the sink is for a sink that is in filters_.                  *)
WorkEffect ==
    \A i \in 1..Len(C') : SinkWork(C'[i]) =>
        "sink" \in ToSet(core'.filters) \/ \E j \in 1..Len(C) : SinkWork(C[j])

\* Steps without work on the sink in the place of the first one.
LEMMA WorkThen ==
    ASSUME Typed, C # <<>>, NEW q, Program(q), C' = q \o Tail(C),
           \A i \in 1..Len(q) : ~SinkWork(q[i])
    PROVE  WorkEffect
  <1>1. PICK r : r = q \o Tail(C)
    OBVIOUS
  <1>2. /\ Len(r) = Len(q) + Len(C) - 1 /\ Len(q) \in Nat /\ Len(C) \in Nat /\ Len(C) >= 1
        /\ \A i \in 1..Len(q) : r[i] = q[i]
        /\ \A i \in 1..(Len(q) + Len(C) - 1) : i > Len(q) => r[i] = C[i - Len(q) + 1]
    BY <1>1, ThenElements DEF Typed
  <1>3. ASSUME NEW i \in 1..Len(r), SinkWork(r[i]) PROVE \E j \in 1..Len(C) : SinkWork(C[j])
    <2>1. CASE i <= Len(q)
      <3>1. i \in 1..Len(q) /\ r[i] = q[i]
        BY <1>2, <2>1
      <3> QED
        BY <1>3, <3>1
    <2>2. CASE i > Len(q)
      <3>1. i - Len(q) + 1 \in 1..Len(C) /\ r[i] = C[i - Len(q) + 1]
        BY <1>2, <2>2
      <3> QED
        BY <1>3, <3>1
    <2> QED
      BY <1>2, <2>1, <2>2
  <1> QED
    BY <1>1, <1>3 DEF WorkEffect

\* A step whose successors are few.
LEMMA WorkShort ==
    ASSUME Typed, C # <<>>,
           \/ Fail
           \/ Then("client", <<>>)
           \/ \E a : a[1] \notin Works /\ Then("client", <<a>>)
           \/ \E a, b : a[1] \notin Works /\ b[1] \notin Works /\ Then("client", <<a, b>>)
    PROVE  WorkEffect
  <1>0. CASE Fail
    <2>1. C' = <<<<"failed", "">>>>
      BY <1>0, FailIs
    <2>2. <<"failed", "">>[1] = "failed"
      BY Pairs, Zenon
    <2>3. \E a : C' = <<a>> /\ a[1] = "failed"
      BY <2>1, <2>2, Zenon
    <2>4. PICK a : C' = <<a>> /\ a[1] = "failed"
      BY <2>3
    <2>5. Len(C') = 1 /\ C'[1] = a
      BY <2>4, ShortPrograms
    <2> QED
      BY <2>4, <2>5 DEF WorkEffect, SinkWork, Works
  <1>1. ASSUME NEW q, Then("client", q), Program(q), \A i \in 1..Len(q) : q[i][1] \notin Works
        PROVE  WorkEffect
    <2>1. C' = q \o Tail(C) /\ \A i \in 1..Len(q) : ~SinkWork(q[i])
      BY <1>1, ThenIs DEF SinkWork
    <2> QED
      BY <1>1, <2>1, WorkThen
  <1>3. CASE Then("client", <<>>)
    <2>1. \A i \in 1..Len(<<>>) : <<>>[i][1] \notin Works
      BY ShortPrograms
    <2> QED
      BY <1>1, <1>3, <2>1, ShortPrograms
  <1>4. ASSUME NEW a, a[1] \notin Works, Then("client", <<a>>) PROVE WorkEffect
    <2>1. Program(<<a>>) /\ \A i \in 1..Len(<<a>>) : <<a>>[i][1] \notin Works
      BY <1>4, ShortPrograms
    <2> QED
      BY <1>1, <1>4, <2>1
  <1>5. ASSUME NEW a, NEW b, a[1] \notin Works, b[1] \notin Works, Then("client", <<a, b>>) PROVE WorkEffect
    <2>1. PICK q : q = <<a, b>>
      OBVIOUS
    <2>2. Program(q) /\ Len(q) = 2 /\ q[1] = a /\ q[2] = b
      BY <2>1, ShortPrograms
    <2>3. \A i \in 1..Len(q) : q[i][1] \notin Works
      BY <1>5, <2>2
    <2> QED
      BY <1>1, <1>5, <2>1, <2>2, <2>3
  <1> QED
    BY <1>0, <1>3, <1>4, <1>5

\* A pipeline without a sink has no step for it.
LEMMA SpreadNoSink ==
    ASSUME core.filters \in FilterLists, "sink" \notin ToSet(core.filters), NEW op
    PROVE  \A i \in 1..Len(ForFilters(op)) : ~SinkWork(ForFilters(op)[i])
  <1>1. "sink" \in ToSet(<<"source", "demuxer", "sink">>) /\ "sink" \in ToSet(<<"sink", "source", "demuxer">>)
    BY DEF ToSet
  <1>2. CASE core.filters = <<>>
    <2>1. ForFilters(op) = <<>>
      BY <1>2, ForFiltersIs
    <2> QED
      BY <2>1, ShortPrograms
  <1>3. CASE core.filters = <<"source", "demuxer">>
    <2>1. PICK F : F = ForFilters(op)
      OBVIOUS
    <2>2. Len(F) = 2 /\ F[1] = <<op, "demuxer">> /\ F[2] = <<op, "source">>
      BY <1>3, <2>1, ForFiltersIs, ShortPrograms
    <2>3. \A i \in 1..Len(F) : ~SinkWork(F[i])
      BY <2>2 DEF SinkWork
    <2> QED
      BY <2>1, <2>3
  <1> QED
    BY <1>1, <1>2, <1>3 DEF FilterLists

\* The work that PipelineCore has done on the filters.
LEMMA CoreWork ==
    ASSUME Typed, CorePrepare \/ CoreStart \/ CorePause \/ CoreResume \/ CoreStop \/ CoreFlush
    PROVE  WorkEffect
  <1>0. C # <<>>
    BY DEF CorePrepare, CoreStart, CorePause, CoreResume, CoreStop, CoreFlush, At, C
  <1>1. \A op : Program(ForFilters(op)) /\ \A i \in 1..Len(ForFilters(op)) : \E f \in Filters : ForFilters(op)[i] = <<op, f>>
    BY Spread DEF Typed
  <1>2. ASSUME NEW q, Program(q), Then("client", q), \A i \in 1..Len(q) : ~SinkWork(q[i])
        PROVE  WorkEffect
    <2>1. C' = q \o Tail(C)
      BY <1>2, ThenIs
    <2> QED
      BY <1>0, <1>2, <2>1, WorkThen
  <1>3. ASSUME NEW q, Program(q), \A i \in 1..Len(q) : ~SinkWork(q[i]), NEW a, a[1] \notin Works,
               Then("client", q \o <<a>>)
        PROVE  WorkEffect
    <2>1. PICK r : r = q \o <<a>>
      OBVIOUS
    <2>2. /\ Program(r) /\ Len(r) = Len(q) + 1 /\ Len(q) \in Nat
          /\ \A i \in 1..Len(q) : r[i] = q[i]
          /\ r[Len(q) + 1] = a
      BY <1>3, <2>1, MoreSteps
    <2>3. \A i \in 1..Len(r) : i \in 1..Len(q) \/ i = Len(q) + 1
      BY <2>2
    <2>4. ~SinkWork(a)
      BY <1>3 DEF SinkWork
    <2>5. \A i \in 1..Len(r) : ~SinkWork(r[i])
      BY <1>3, <2>2, <2>3, <2>4
    <2> QED
      BY <1>2, <1>3, <2>1, <2>2, <2>5
  <1>4. CASE CoreStop
    <2>1. Then("client", ForFilters("stop") \o <<<<"coreRemove", "">>>>)
      BY <1>4 DEF CoreStop
    <2>2. \A i \in 1..Len(ForFilters("stop")) : ~SinkWork(ForFilters("stop")[i])
      <3>1. \A f : ~SinkWork(<<"stop", f>>)
        BY DEF SinkWork, Works
      <3> QED
        BY <1>1, <3>1, Zenon
    <2>3. <<"coreRemove", "">>[1] \notin Works
      <3>1. <<"coreRemove", "">>[1] = "coreRemove"
        BY Pairs, Zenon
      <3> QED
        BY <3>1 DEF Works
    <2> QED
      BY <1>1, <1>3, <2>1, <2>2, <2>3, Zenon
  <1>5. CASE CoreFlush
    <2>1. PICK s : s = Head(C)
      OBVIOUS
    <2>2. Then("client", ForFilters(s[2])) /\ s[2] \in {"flushStart", "flushEnd"}
      BY <1>5, <2>1, ClientAt DEF CoreFlush, WordOk
    <2>3. \A i \in 1..Len(ForFilters(s[2])) : ~SinkWork(ForFilters(s[2])[i])
      <3>1. \A f : ~SinkWork(<<s[2], f>>)
        BY <2>2 DEF SinkWork, Works
      <3> QED
        BY <1>1, <3>1, Zenon
    <2> QED
      BY <1>1, <1>2, <2>2, <2>3, Zenon
  <1>6. ASSUME CoreStart \/ CorePause \/ CoreResume, "sink" \notin ToSet(core.filters)
        PROVE  WorkEffect
    <2>1. \A op : \A i \in 1..Len(ForFilters(op)) : ~SinkWork(ForFilters(op)[i])
      BY <1>6, SpreadNoSink DEF Typed
    <2>2. CASE CoreStart
      BY <1>1, <1>2, <2>1, <2>2 DEF CoreStart
    <2>3. CASE CorePause
      <3>1. Fail \/ Then("client", <<>>) \/ Then("client", ForFilters("pause"))
        BY <2>3 DEF CorePause
      <3> QED
        BY <1>0, <1>1, <1>2, <2>1, <3>1, WorkShort
    <2>4. CASE CoreResume
      <3>1. Then("client", ForFilters("resume") \o <<<<"coreRunning", "">>>>)
        BY <2>4 DEF CoreResume
      <3>2. <<"coreRunning", "">>[1] \notin Works
        <4>1. <<"coreRunning", "">>[1] = "coreRunning"
          BY Pairs, Zenon
        <4> QED
          BY <4>1 DEF Works
      <3> QED
        BY <1>1, <1>3, <2>1, <3>1, <3>2, Zenon
    <2> QED
      BY <1>6, <2>2, <2>3, <2>4
  <1>7. ASSUME CoreStart \/ CorePause \/ CoreResume, "sink" \in ToSet(core.filters)
        PROVE  WorkEffect
    <2>1. core'.filters = core.filters
      BY <1>7 DEF CoreStart, CorePause, CoreResume, Typed
    <2> QED
      BY <1>7, <2>1 DEF WorkEffect
  <1>8. CASE CorePrepare
    <2>1. core'.filters = Reordered(core.filters)
      BY <1>8 DEF CorePrepare, Typed
    <2>2. CASE "sink" \in ToSet(core.filters)
      <3>1. "sink" \in ToSet(core'.filters)
        BY <2>1, <2>2, ReorderedIs DEF Typed
      <3> QED
        BY <3>1 DEF WorkEffect
    <2>3. CASE "sink" \notin ToSet(core.filters)
      <3>1. Reordered(core.filters) = core.filters
        BY <2>3 DEF Reordered
      <3>2. PICK op : op = "prepare"
        OBVIOUS
      <3>3. [i \in DOMAIN Reverse(core.filters) |-> <<op, Reverse(core.filters)[i]>>] = ForFilters(op)
        <4>1. DOMAIN Reverse(core.filters) = DOMAIN core.filters
          <5>1. CASE core.filters = <<>>
            BY <5>1 DEF Reverse
          <5>2. CASE core.filters = <<"source", "demuxer">>
            BY <5>2 DEF Reverse
          <5>3. "sink" \in ToSet(<<"source", "demuxer", "sink">>) /\ "sink" \in ToSet(<<"sink", "source", "demuxer">>)
            BY DEF ToSet
          <5> QED
            BY <2>3, <5>1, <5>2, <5>3 DEF Typed, FilterLists
        <4> QED
          BY <4>1 DEF ForFilters
      <3>4. Then("client", ForFilters(op) \o <<<<"coreUnlock", "">>>>)
        BY <1>8, <3>1, <3>2, <3>3, Zenon DEF CorePrepare
      <3>5. \A i \in 1..Len(ForFilters(op)) : ~SinkWork(ForFilters(op)[i])
        BY <2>3, SpreadNoSink DEF Typed
      <3>6. <<"coreUnlock", "">>[1] \notin Works
        <4>1. <<"coreUnlock", "">>[1] = "coreUnlock"
          BY Pairs, Zenon
        <4> QED
          BY <4>1 DEF Works
      <3> QED
        BY <1>1, <1>3, <3>4, <3>5, <3>6, Zenon
    <2> QED
      BY <2>2, <2>3
  <1> QED
    BY <1>4, <1>5, <1>6, <1>7, <1>8

\* Every step of the client brings work for the sink only when it is in the pipeline.
LEMMA WorkEffects ==
    ASSUME Typed, Step("client") \/ SpuriousReturn
    PROVE  WorkEffect
  <1>0. ASSUME NEW op, At("client", op) PROVE C # <<>>
    BY <1>0 DEF At, C
  <1>1. ASSUME NEW op, At("client", op), NEW o, NEW e, o \notin Works, Then("client", <<<<o, e>>>>)
        PROVE  WorkEffect
    <2>1. \E a : a[1] \notin Works /\ Then("client", <<a>>)
      BY <1>1, Pairs, Zenon
    <2> QED
      BY <1>0, <1>1, <2>1, WorkShort
  <1>2. ASSUME NEW op, At("client", op), NEW o, NEW e, NEW u, NEW f, o \notin Works, u \notin Works,
               Then("client", <<<<o, e>>, <<u, f>>>>)
        PROVE  WorkEffect
    <2>1. \E a, b : a[1] \notin Works /\ b[1] \notin Works /\ Then("client", <<a, b>>)
      BY <1>2, Pairs, Zenon
    <2> QED
      BY <1>0, <1>2, <2>1, WorkShort
  <1>3. ASSUME NEW op, At("client", op), Then("client", <<>>) \/ Fail PROVE WorkEffect
    BY <1>0, <1>3, WorkShort
  <1>4. ASSUME NEW op, At("client", op), C' = Tail(C) PROVE WorkEffect
    <2>1. C' = <<>> \o Tail(C)
      BY <1>0, <1>4, ProgramElements DEF Typed
    <2>2. Program(<<>>) /\ \A i \in 1..Len(<<>>) : ~SinkWork(<<>>[i])
      BY ShortPrograms
    <2> QED
      BY <1>0, <1>4, <2>1, <2>2, WorkThen
  <1>5. ASSUME NEW o, NEW e, o \notin Works, C' = <<<<o, e>>>> PROVE WorkEffect
    <2>1. PICK a : C' = <<a>> /\ a[1] \notin Works
      BY <1>5, Pairs, Zenon
    <2>2. Len(C') = 1 /\ C'[1] = a
      BY <2>1, ShortPrograms
    <2> QED
      BY <2>1, <2>2 DEF WorkEffect, SinkWork
  <1>w. /\ "await" \notin Works /\ "join" \notin Works /\ "count" \notin Works /\ "event" \notin Works
        /\ "countReset" \notin Works /\ "ready" \notin Works /\ "taskStart" \notin Works
        /\ "taskPause" \notin Works /\ "taskStop" \notin Works /\ "unlink" \notin Works
        /\ "wake" \notin Works /\ "resumed" \notin Works /\ "setState" \notin Works
        /\ "coreFlush" \notin Works /\ "waiting" \notin Works /\ "awaitReady" \notin Works
    BY DEF Works
  <1>6. CASE TaskStart("client") \/ WakePusher("client")
    <2>1. C' = Tail(C)
      BY <1>6 DEF TaskStart, WakePusher, Typed, C, Threads
    <2> QED
      BY <1>4, <1>6, <2>1 DEF TaskStart, WakePusher
  <1>7. CASE TaskPause("client")
    <2>1. At("client", "taskPause") /\ (Then("client", <<>>) \/ \E X : Then("client", <<<<"await", X>>>>))
      <3>1. CASE task.state = "STARTED"
        BY <1>7, <3>1 DEF TaskPause
      <3>2. CASE task.state = "STOPPING"
        BY <1>7, <3>2 DEF TaskPause
      <3>3. CASE task.state = "PAUSING"
        BY <1>7, <3>3 DEF TaskPause
      <3>4. CASE task.state \in {"PAUSED", "STOPPED"}
        BY <1>7, <3>4 DEF TaskPause
      <3> QED
        BY <3>1, <3>2, <3>3, <3>4 DEF Typed, TaskStates
    <2> QED
      BY <1>1, <1>3, <1>w, <2>1, Zenon
  <1>8. CASE TaskStop("client")
    <2>1. /\ At("client", "taskStop")
          /\ Then("client", <<>>) \/ Then("client", <<<<"await", {"STOPPED"}>>, <<"join", "">>>>)
      BY <1>8, Zenon DEF TaskStop
    <2> QED
      BY <1>2, <1>3, <1>w, <2>1, Zenon
  <1>9. CASE \/ Await("client") \/ Join("client") \/ PauseAsync("client") \/ CountReset("client")
             \/ CoreUnlock \/ CoreRunning \/ CoreRemove \/ SourceStart \/ SourceStop \/ NothingToDo
             \/ Unlink \/ SinkPrepare \/ SinkPause \/ SinkResumed
             \/ InitPipeline \/ SetState \/ HandleErrorEvent("client")
    <2>1. \E op : At("client", op)
      BY <1>9, Zenon DEF Await, Join, PauseAsync, CountReset, CoreUnlock, CoreRunning, CoreRemove, SourceStart,
                  SourceStop, NothingToDo, Unlink, SinkPrepare, SinkPause, SinkResumed, InitPipeline,
                  SetState, HandleErrorEvent
    <2>2. Then("client", <<>>) \/ Fail
      BY <1>9 DEF Await, Join, PauseAsync, CountReset, CoreUnlock, CoreRunning, CoreRemove, SourceStart,
                  SourceStop, NothingToDo, Unlink, SinkPrepare, SinkPause, SinkResumed, InitPipeline,
                  SetState, HandleErrorEvent
    <2> QED
      BY <1>3, <2>1, <2>2, Zenon
  <1>10. CASE Ready("client")
    <2>1. At("client", "ready") /\ \E n : Then("client", <<<<"count", n>>>>)
      BY <1>10, Zenon DEF Ready
    <2> QED
      BY <1>1, <1>w, <2>1, Zenon
  <1>11. CASE Count("client")
    <2>1. /\ At("client", "count")
          /\ Then("client", <<>>) \/ Then("client", <<<<"event", "READY">>, <<"countReset", "">>>>)
      BY <1>11, Zenon DEF Count
    <2> QED
      BY <1>2, <1>3, <1>w, <2>1, Zenon
  <1>12. CASE SourcePrepare
    <2>1. At("client", "prepare") /\ (Fail \/ Then("client", <<<<"ready", "source">>>>))
      BY <1>12 DEF SourcePrepare
    <2> QED
      BY <1>1, <1>3, <1>w, <2>1, Zenon
  <1>13. CASE DemuxerPrepare
    <2>1. /\ At("client", "prepare")
          /\ Then("client", <<<<"event", "ERROR">>>>) \/ Then("client", <<<<"taskStart", "">>>>)
      <3>1. PICK f \in BOOLEAN : Then("client", IF f THEN <<<<"event", "ERROR">>>> ELSE <<<<"taskStart", "">>>>)
        BY <1>13, Zenon DEF DemuxerPrepare
      <3>2. At("client", "prepare")
        BY <1>13 DEF DemuxerPrepare
      <3> QED
        BY <3>1, <3>2
    <2> QED
      BY <1>1, <1>w, <2>1, Zenon
  <1>14. CASE DemuxerStart
    <2>1. Then("client", <<<<"taskStart", "">>>>) /\ \E op : At("client", op)
      BY <1>14, Zenon DEF DemuxerStart
    <2> QED
      BY <1>1, <1>w, <2>1, Zenon
  <1>15. CASE DemuxerFlushStart
    <2>1. Then("client", <<<<"taskPause", "">>>>) /\ At("client", "flushStart")
      BY <1>15, Zenon DEF DemuxerFlushStart
    <2> QED
      BY <1>1, <1>w, <2>1, Zenon
  <1>16. CASE StopTaskUnlessParsed
    <2>1. /\ At("client", "stopTask")
          /\ Then("client", <<<<"taskStop", "">>>>) \/ Then("client", <<>>)
      BY <1>16 DEF StopTaskUnlessParsed
    <2> QED
      BY <1>1, <1>3, <1>w, <2>1, Zenon
  <1>17. CASE DemuxerStop
    <2>1. At("client", "stop") /\ Then("client", <<<<"taskStop", "">>, <<"unlink", "">>>>)
      BY <1>17, Zenon DEF DemuxerStop
    <2> QED
      BY <1>2, <1>w, <2>1, Zenon
  <1>18. CASE SinkStart
    <2>1. At("client", "start") /\ (Fail \/ Then("client", <<<<"wake", "">>>>))
      BY <1>18 DEF SinkStart
    <2> QED
      BY <1>1, <1>3, <1>w, <2>1, Zenon
  <1>19. CASE SinkStop
    <2>1. At("client", "stop") /\ Then("client", <<<<"wake", "">>>>)
      BY <1>19, Zenon DEF SinkStop
    <2> QED
      BY <1>1, <1>w, <2>1, Zenon
  <1>20. CASE SinkResume
    <2>1. /\ At("client", "resume")
          /\ Then("client", <<>>) \/ Then("client", <<<<"wake", "">>, <<"resumed", "">>>>)
      BY <1>20 DEF SinkResume
    <2> QED
      BY <1>2, <1>3, <1>w, <2>1, Zenon
  <1>21. CASE SinkFlush
    <2>1. /\ At("client", "flushStart") \/ At("client", "flushEnd")
          /\ Then("client", <<>>) \/ Then("client", <<<<"wake", "">>>>)
      BY <1>21 DEF SinkFlush
    <2> QED
      BY <1>1, <1>3, <1>w, <2>1, Zenon
  <1>22. CASE DoSetSource
    <2>1. At("client", "setSource") /\ \E x : Then("client", <<<<"setState", x>>>>)
      BY <1>22, Zenon DEF DoSetSource
    <2> QED
      BY <1>1, <1>w, <2>1, Zenon
  <1>23. CASE SeekTo
    <2>1. At("client", "seekTo")
      BY <1>23 DEF SeekTo
    <2>2. Then("client", <<>>) \/ C' = <<<<"coreFlush", "flushEnd">>>>
      BY <1>23 DEF SeekTo, Typed, C, Threads
    <2> QED
      BY <1>3, <1>5, <1>w, <2>1, <2>2, Zenon
  <1>24. CASE Failed
    <2>1. At("client", "failed") /\ (Then("client", <<>>) \/ \E x : Then("client", <<<<"setState", x>>>>))
      <3>1. CASE call \in {"PrepareAsync", "Pause", "Stop"}
        BY <1>24, <3>1 DEF Failed
      <3>2. CASE call \notin {"PrepareAsync", "Pause", "Stop"}
        BY <1>24, <3>2 DEF Failed
      <3> QED
        BY <3>1, <3>2
    <2> QED
      BY <1>1, <1>3, <1>w, <2>1, Zenon
  <1>25. CASE AwaitReady
    <2>1. At("client", "awaitReady") /\ (Then("client", <<>>) \/ Then("client", <<<<"waiting", "">>>>))
      BY <1>25 DEF AwaitReady
    <2> QED
      BY <1>1, <1>3, <1>w, <2>1, Zenon
  <1>26. CASE SpuriousReturn
    <2>1. At("client", "waiting") /\ Then("client", <<<<"awaitReady", "">>>>)
      BY <1>26, Zenon DEF SpuriousReturn, Waiting
    <2> QED
      BY <1>1, <1>w, <2>1, Zenon
  <1>27. CASE HandleReadyEvent("client") \/ HandleCompleteEvent("client")
    <2>1. /\ At("client", "event") /\ ~Waiting
          /\ prog' = [prog EXCEPT !["client"] = IF Waiting THEN <<<<"awaitReady", "">>>> ELSE Tail(@)]
      <3>1. At("client", "event") /\ ~Waiting
        BY <1>27 DEF HandleReadyEvent, HandleCompleteEvent, Waiting, At
      <3>2. prog' = [prog EXCEPT !["client"] = Tail(@)]
        BY <1>27, <3>1 DEF HandleReadyEvent, HandleCompleteEvent, ChangeState, Typed, Threads
      <3> QED
        BY <3>1, <3>2
    <2>2. C' = Tail(C)
      BY <2>1 DEF Typed, C, Threads
    <2> QED
      BY <1>4, <2>1, <2>2
  <1>28. CASE CorePrepare \/ CoreStart \/ CorePause \/ CoreResume \/ CoreStop \/ CoreFlush
    BY <1>28, CoreWork
  <1>29. CASE PathStep("client")
    BY <1>29, <1>6, <1>7, <1>8, <1>9, <1>10, <1>11, <1>12, <1>13, <1>14, <1>15, <1>16, <1>17, <1>18, <1>19,
       <1>20, <1>21, <1>28, Zenon DEF PathStep
  <1> QED
    BY <1>29, <1>9, <1>22, <1>23, <1>24, <1>25, <1>26, <1>27 DEF Step
-----------------------------------------------------------------------------
(* The inductive invariant of Stop.                                         *)

Dead == task = [state |-> "STOPPED", thread |-> FALSE]

(* The demuxer parses no more: it pushes frames, or its thread is gone.     *)
Settled == demuxer.plugin = "FRAME" \/ task.state = "STOPPED"

Down == sink.state \in {"CREATED", "INITIALIZED"}

EndKeys == {"failed", "setState", "source"}

LateKeys == {"source", "demuxer", "sink", "coreRemove", "failed", "setState"}

SinkDone == Down \/ SinkLeftOver

(* Before Stop can end, by its last step or by a failure, the demuxer's thread
   has been joined and the sink stopped, or a step comes first that does it. *)
StopLed ==
    /\ Led(C, EndKeys, StopKeys, {"coreStop", "taskStop", "join", "demuxer"}, Dead)
    /\ Led(C, {"coreStop"}, StopKeys, {"stopTask", "taskStop", "join"}, Settled)
    /\ Led(C, LateKeys, StopKeys, {"coreStop"}, Settled)
    /\ Led(C, EndKeys, StopKeys, {"coreStop", "sink"}, SinkDone)
    /\ Led(C, {"coreRemove"}, StopKeys, {"coreStop", "sink"}, Down)

Ends(p) == \A k \in 1..Len(p) : Key(p[k]) \in {"failed", "setState"} => k = Len(p)

(* A thread that ends is joined next, after the wait for it.                *)
JoinNext ==
    \A k \in 1..Len(C) : Key(C[k]) = "join" =>
        (k = 1 /\ task.state = "STOPPED") \/ (k = 2 /\ Key(C[1]) = "await")

Stops(p) == \A k \in 1..Len(p) : StopWord(p[k])

StopInv == Stops(C) /\ Ends(C) /\ JoinNext /\ StopLed

Calls == IF call = "Stop" THEN StopInv ELSE NotStop(C)

Joined ==
    /\ task.state = "STOPPING" \/ (task.state = "STOPPED" /\ task.thread) =>
          call = "Stop" /\ \E k \in 1..Len(C) : Key(C[k]) = "join"
    /\ ~task.thread => task.state = "STOPPED"

(* Only a demuxer that finds no frames yet parses, one round at a time.      *)
ParseOk ==
    /\ Led(D, Parsing, DemuxOps \ {"loop", "parsed"}, {}, demuxer.plugin # "FRAME")
    /\ Led(D, {"negotiate"}, DemuxOps, {"addSink"}, "sink" \in ToSet(core.filters))

(* A sink outside filters_ is not used.                                     *)
Unused ==
    "sink" \notin ToSet(core.filters) => Down /\ \A k \in 1..Len(C) : ~SinkWork(C[k])

Blocked == sink.blocking => D # <<>> /\ Head(D)[1] \in Blocks

(* The player stays STOPPED only until the source is set again.             *)
Finished ==
    player.state = "STOPPED" =>
        \/ C = <<>> /\ Dead /\ SinkDone
        \/ At("client", "setSource")
        \/ At("client", "setState") /\ Arg("client") # "STOPPED"

FreshInv == QuietInv /\ Calls /\ Joined /\ ParseOk /\ Unused /\ Blocked /\ Finished

\* Steps that all keep what a program is led by.
LEMMA LedTrue ==
    ASSUME NEW q, NEW T, NEW V, NEW M, NEW P, P, \A i \in 1..Len(q) : Key(q[i]) \in V,
           Len(q) \in Nat
    PROVE  Led(q, T, V, M, P)
  BY DEF Led

\* What a step of Stop does to the task, the sink and the filters.
LEMMA StopMoves ==
    ASSUME Typed, NEW s, WordOk(s), StopWord(s), TaskEffect(s), FilterEffect(s)
    PROVE  /\ demuxer'.plugin = demuxer.plugin
           /\ Key(s) # "coreRemove" => core'.filters = core.filters
           /\ sink'.state = sink.state \/ sink'.state = "INITIALIZED"
           /\ Key(s) = "sink" => sink'.state = "INITIALIZED"
           /\ Key(s) = "taskStop" =>
                 task' = IF task.state = "STOPPED" THEN task ELSE [task EXCEPT !.state = "STOPPING"]
           /\ Key(s) = "join" => task' = [task EXCEPT !.thread = FALSE]
           /\ Key(s) \notin {"taskStop", "join"} => task' = task
  <1>1. /\ \A x \in StopKeys \ Filters : Key(s) = x <=> s[1] = x
        /\ \A f \in Filters : Key(s) = f <=> s[1] = "stop" /\ s[2] = f
    BY KeyIs
  <1>2. /\ Key(s) = "coreRemove" <=> s[1] = "coreRemove"
        /\ Key(s) = "taskStop" <=> s[1] = "taskStop"
        /\ Key(s) = "join" <=> s[1] = "join"
        /\ Key(s) = "sink" <=> s[1] = "stop" /\ s[2] = "sink"
    BY <1>1 DEF StopKeys, Filters
  <1>3. s[1] \notin {"prepare", "start", "pause", "resume", "init", "corePrepare", "taskStart", "taskPause",
                     "pauseAsync"}
    BY DEF StopWord
  <1>4. demuxer'.plugin = demuxer.plugin
    BY <1>3 DEF FilterEffect
  <1>5. Key(s) # "coreRemove" => core'.filters = core.filters
    BY <1>2, <1>3 DEF FilterEffect
  <1>6. /\ sink'.state = sink.state \/ sink'.state = "INITIALIZED"
        /\ Key(s) = "sink" => sink'.state = "INITIALIZED"
    BY <1>2, <1>3 DEF FilterEffect
  <1>7. /\ Key(s) = "taskStop" =>
              task' = IF task.state = "STOPPED" THEN task ELSE [task EXCEPT !.state = "STOPPING"]
        /\ Key(s) = "join" => task' = [task EXCEPT !.thread = FALSE]
        /\ Key(s) \notin {"taskStop", "join"} => task' = task
    BY <1>2, <1>3 DEF TaskEffect
  <1> QED
    BY <1>4, <1>5, <1>6, <1>7

\* What Stop has achieved stays.
LEMMA StopKeeps ==
    ASSUME Typed, NEW s, WordOk(s), StopWord(s), TaskEffect(s), FilterEffect(s)
    PROVE  /\ Dead => Dead'
           /\ Settled => Settled'
           /\ Down => Down'
           /\ SinkDone /\ (Key(s) = "coreRemove" => Down) => SinkDone'
  <1>1. task \in [state : TaskStates, thread : BOOLEAN]
    BY DEF Typed
  <1>2. /\ task.state = "STOPPED" => task'.state = "STOPPED"
        /\ task.state = "STOPPED" /\ ~task.thread => task' = task
    <2>1. CASE Key(s) = "taskStop"
      BY <1>1, <2>1, StopMoves
    <2>2. CASE Key(s) = "join"
      <3>1. task' = [task EXCEPT !.thread = FALSE]
        BY <2>2, StopMoves
      <3> QED
        BY <1>1, <3>1
    <2>3. CASE Key(s) \notin {"taskStop", "join"}
      BY <2>3, StopMoves
    <2> QED
      BY <2>1, <2>2, <2>3
  <1>3. Dead => Dead'
    BY <1>2 DEF Dead
  <1>4. Settled => Settled'
    BY <1>2, StopMoves DEF Settled
  <1>5. Down => Down'
    BY StopMoves DEF Down
  <1>6. SinkDone /\ (Key(s) = "coreRemove" => Down) => SinkDone'
    <2>1. Key(s) # "coreRemove" => core'.filters = core.filters
      BY StopMoves
    <2> QED
      BY <1>5, <2>1 DEF SinkDone, SinkLeftOver
  <1> QED
    BY <1>3, <1>4, <1>5, <1>6

\* A step of Stop keeps the rest of Stop led.
LEMMA StopLedThen ==
    ASSUME Typed, Stops(C), JoinNext, StopLed, Joined, Unused, call = "Stop",
           NEW s, C # <<>>, s = Head(C), WordOk(s), TaskEffect(s), FilterEffect(s),
           NEW q, Program(q), WordsOk(q), Stops(q), StopEffect(s, q), C' = q \o Tail(C)
    PROVE  StopLed'
  <1>1. /\ Program(C) /\ s = C[1] /\ 1 \in 1..Len(C) /\ StopWord(s)
        /\ Len(q) \in Nat
    BY ProgramElements DEF Typed, Stops
  <1>2. Key(s) \in StopKeys
    BY <1>1, KeyIs
  <1>3. \A i \in 1..Len(q) : Key(q[i]) \in StopKeys
    BY KeyIs DEF Stops, WordsOk
  <1>4. /\ Led(C, EndKeys, StopKeys, {"coreStop", "taskStop", "join", "demuxer"}, Dead)
        /\ Led(C, {"coreStop"}, StopKeys, {"stopTask", "taskStop", "join"}, Settled)
        /\ Led(C, LateKeys, StopKeys, {"coreStop"}, Settled)
        /\ Led(C, EndKeys, StopKeys, {"coreStop", "sink"}, SinkDone)
        /\ Led(C, {"coreRemove"}, StopKeys, {"coreStop", "sink"}, Down)
    BY DEF StopLed
  <1>5. Key(s) \in EndKeys => Dead /\ SinkDone
    BY <1>1, <1>4, LedHead
  <1>6. Key(s) \in {"coreStop"} \/ Key(s) \in LateKeys => Settled
    BY <1>1, <1>4, LedHead
  <1>7. Key(s) \in {"coreRemove"} => Down
    BY <1>1, <1>4, LedHead
  <1>8. Dead => Dead'
    BY <1>1, StopKeeps
  <1>9. Settled => Settled'
    BY <1>1, StopKeeps
  <1>10. Down => Down'
    BY <1>1, StopKeeps
  <1>11. SinkDone => SinkDone'
    BY <1>1, <1>7, StopKeeps
  <1>12. CASE Key(s) = "coreStop"
    <2>1. "sink" \notin ToSet(core.filters) => Down
      BY DEF Unused
    <2>2. /\ Settled /\ Settled'
          /\ Key(s) \notin EndKeys /\ Key(s) # "coreRemove"
      BY <1>6, <1>9, <1>12 DEF EndKeys
    <2>3. \/ /\ Down' /\ SinkDone'
             /\ Len(q) = 3 /\ Key(q[1]) = "demuxer" /\ Key(q[2]) = "source" /\ Key(q[3]) = "coreRemove"
          \/ /\ Len(q) = 4 /\ Key(q[1]) = "sink" /\ Key(q[2]) = "demuxer" /\ Key(q[3]) = "source"
             /\ Key(q[4]) = "coreRemove"
          \/ /\ SinkDone'
             /\ Len(q) = 4 /\ Key(q[1]) = "demuxer" /\ Key(q[2]) = "source" /\ Key(q[3]) = "sink"
             /\ Key(q[4]) = "coreRemove"
      BY <1>10, <1>11, <1>12, <2>1 DEF StopEffect, SinkDone
    <2>4. Led(q, EndKeys, StopKeys, {"coreStop", "taskStop", "join", "demuxer"}, Dead')
      BY <1>3, <2>3 DEF Led, EndKeys
    <2>5. Led(q, {"coreStop"}, StopKeys, {"stopTask", "taskStop", "join"}, Settled')
      BY <1>1, <1>3, <2>2, LedTrue
    <2>6. Led(q, LateKeys, StopKeys, {"coreStop"}, Settled')
      BY <1>1, <1>3, <2>2, LedTrue
    <2>7. Led(q, EndKeys, StopKeys, {"coreStop", "sink"}, SinkDone')
      BY <1>3, <2>3 DEF Led, EndKeys
    <2>8. Led(q, {"coreRemove"}, StopKeys, {"coreStop", "sink"}, Down')
      BY <1>3, <2>3 DEF Led
    <2>9. \E i \in 1..Len(q) : Key(q[i]) = "demuxer"
      BY <2>3
    <2>10. SinkDone' \/ \E i \in 1..Len(q) : Key(q[i]) = "sink"
      BY <2>3
    <2>11. Down' \/ \E i \in 1..Len(q) : Key(q[i]) = "sink"
      BY <2>3
    <2>12. Led(C', EndKeys, StopKeys, {"coreStop", "taskStop", "join", "demuxer"}, Dead')
      BY <1>1, <1>3, <1>4, <2>4, <2>9, LedThen
    <2>13. Led(C', {"coreStop"}, StopKeys, {"stopTask", "taskStop", "join"}, Settled')
      BY <1>1, <1>3, <1>4, <2>2, <2>5, LedThen
    <2>14. Led(C', LateKeys, StopKeys, {"coreStop"}, Settled')
      BY <1>1, <1>3, <1>4, <2>2, <2>6, LedThen
    <2>15. Led(C', EndKeys, StopKeys, {"coreStop", "sink"}, SinkDone')
      BY <1>1, <1>3, <1>4, <2>7, <2>10, LedThen
    <2>16. Led(C', {"coreRemove"}, StopKeys, {"coreStop", "sink"}, Down')
      BY <1>1, <1>3, <1>4, <2>8, <2>11, LedThen
    <2> QED
      BY <2>12, <2>13, <2>14, <2>15, <2>16 DEF StopLed
  <1>13. CASE Key(s) # "coreStop"
    <2>1. \/ Len(q) = 0
          \/ Len(q) = 1 /\ Key(q[1]) \in {"taskStop", "wake"}
          \/ Len(q) = 1 /\ Key(q[1]) = "setState" /\ Key(s) = "failed"
          \/ Len(q) = 2 /\ Key(q[1]) \in {"await", "taskStop"} /\ Key(q[2]) \in {"join", "unlink"}
      BY <1>2, <1>13 DEF StopEffect, StopKeys
    <2>2. \A i \in 1..Len(q) : i = 1 \/ (i = 2 /\ Len(q) = 2)
      BY <2>1
    <2>3. ASSUME NEW i \in 1..Len(q)
          PROVE  /\ Key(q[i]) \notin {"coreStop", "source", "coreRemove", "failed", "sink", "demuxer"}
                 /\ Key(q[i]) = "setState" => Key(s) = "failed"
      BY <2>1, <2>2, <2>3
    <2>4. /\ Led(q, EndKeys, StopKeys, {"coreStop", "taskStop", "join", "demuxer"}, Dead')
          /\ Led(q, LateKeys, StopKeys, {"coreStop"}, Settled')
          /\ Led(q, EndKeys, StopKeys, {"coreStop", "sink"}, SinkDone')
      <3>1. CASE Key(s) = "failed"
        <4>1. Dead' /\ Settled' /\ SinkDone'
          BY <1>5, <1>6, <1>8, <1>9, <1>11, <3>1 DEF EndKeys, LateKeys
        <4>2. Led(q, EndKeys, StopKeys, {"coreStop", "taskStop", "join", "demuxer"}, Dead')
          BY <1>1, <1>3, <4>1, LedTrue
        <4>3. Led(q, LateKeys, StopKeys, {"coreStop"}, Settled')
          BY <1>1, <1>3, <4>1, LedTrue
        <4>4. Led(q, EndKeys, StopKeys, {"coreStop", "sink"}, SinkDone')
          BY <1>1, <1>3, <4>1, LedTrue
        <4> QED
          BY <4>2, <4>3, <4>4
      <3>2. CASE Key(s) # "failed"
        <4>1. \A i \in 1..Len(q) : Key(q[i]) \notin EndKeys /\ Key(q[i]) \notin LateKeys
          BY <2>3, <3>2 DEF EndKeys, LateKeys
        <4> QED
          BY <4>1, LedNone
      <3> QED
        BY <3>1, <3>2
    <2>5. /\ Led(q, {"coreStop"}, StopKeys, {"stopTask", "taskStop", "join"}, Settled')
          /\ Led(q, {"coreRemove"}, StopKeys, {"coreStop", "sink"}, Down')
      BY <2>3, LedNone
    <2>6. Key(s) = "join" => task.state = "STOPPED" /\ Dead'
      <3>1. HAVE Key(s) = "join"
      <3>2. task.state = "STOPPED"
        BY <1>1, <3>1 DEF JoinNext
      <3>3. task' = [task EXCEPT !.thread = FALSE]
        BY <1>1, <3>1, StopMoves
      <3> QED
        BY <3>2, <3>3 DEF Dead, Typed
    <2>7. Key(s) = "taskStop" => (task.state = "STOPPED" /\ Dead) \/ \E i \in 1..Len(q) : Key(q[i]) = "join"
      <3>1. HAVE Key(s) = "taskStop"
      <3>2. \A k \in 1..Len(C) : Key(C[k]) # "join"
        BY <1>1, <3>1 DEF JoinNext
      <3>3. CASE Len(q) = 0 /\ task.state = "STOPPED"
        <4>1. ~task.thread
          BY <3>2, <3>3 DEF Joined
        <4> QED
          BY <3>3, <4>1 DEF Dead, Typed
      <3>4. CASE Len(q) = 2 /\ Key(q[2]) = "join"
        BY <3>4
      <3> QED
        BY <3>1, <3>3, <3>4 DEF StopEffect
    <2>8. Dead \/ Key(s) \in {"coreStop", "taskStop", "join", "demuxer"} =>
             Dead' \/ \E i \in 1..Len(q) : Key(q[i]) \in {"coreStop", "taskStop", "join", "demuxer"}
      <3>1. CASE Key(s) = "demuxer"
        <4>1. Len(q) = 2 /\ Key(q[1]) = "taskStop"
          BY <3>1 DEF StopEffect
        <4> QED
          BY <4>1
      <3> QED
        BY <1>8, <1>13, <2>6, <2>7, <3>1
    <2>9. Settled \/ Key(s) \in {"stopTask", "taskStop", "join"} =>
             Settled' \/ \E i \in 1..Len(q) : Key(q[i]) \in {"stopTask", "taskStop", "join"}
      <3>1. CASE Key(s) = "stopTask"
        <4>1. CASE Len(q) = 0 /\ demuxer.plugin = "FRAME"
          BY <1>9, <4>1 DEF Settled
        <4>2. CASE Len(q) = 1 /\ Key(q[1]) = "taskStop"
          BY <4>2
        <4> QED
          BY <3>1, <4>1, <4>2 DEF StopEffect
      <3>2. task.state = "STOPPED" => Settled
        BY DEF Settled
      <3> QED
        BY <1>9, <2>6, <2>7, <3>1, <3>2
    <2>10. Settled \/ Key(s) \in {"coreStop"} => Settled' \/ \E i \in 1..Len(q) : Key(q[i]) \in {"coreStop"}
      BY <1>9, <1>13
    <2>11. Key(s) = "sink" => Down' /\ SinkDone'
      <3>1. HAVE Key(s) = "sink"
      <3>2. sink'.state = "INITIALIZED"
        BY <1>1, <3>1, StopMoves
      <3> QED
        BY <3>2 DEF Down, SinkDone
    <2>12. /\ SinkDone \/ Key(s) \in {"coreStop", "sink"} => SinkDone'
           /\ Down \/ Key(s) \in {"coreStop", "sink"} => Down'
      BY <1>10, <1>11, <1>13, <2>11
    <2>13. Led(C', EndKeys, StopKeys, {"coreStop", "taskStop", "join", "demuxer"}, Dead')
      BY <1>1, <1>3, <1>4, <2>4, <2>8, LedThen
    <2>14. Led(C', {"coreStop"}, StopKeys, {"stopTask", "taskStop", "join"}, Settled')
      BY <1>1, <1>3, <1>4, <2>5, <2>9, LedThen
    <2>15. Led(C', LateKeys, StopKeys, {"coreStop"}, Settled')
      BY <1>1, <1>3, <1>4, <2>4, <2>10, LedThen
    <2>16. Led(C', EndKeys, StopKeys, {"coreStop", "sink"}, SinkDone')
      BY <1>1, <1>3, <1>4, <2>4, <2>12, LedThen
    <2>17. Led(C', {"coreRemove"}, StopKeys, {"coreStop", "sink"}, Down')
      BY <1>1, <1>3, <1>4, <2>5, <2>12, LedThen
    <2> QED
      BY <2>13, <2>14, <2>15, <2>16, <2>17 DEF StopLed
  <1> QED
    BY <1>12, <1>13

\* The places in a short program.
LEMMA Places ==
    ASSUME NEW n \in {0, 1, 2, 3, 4}, NEW j \in 1..n
    PROVE  j = 1 \/ (j = 2 /\ n \in {2, 3, 4}) \/ (j = 3 /\ n \in {3, 4}) \/ (j = 4 /\ n = 4)
  <1>1. CASE n \in {0, 1, 2}
    BY <1>1
  <1>2. CASE n = 3
    BY <1>2
  <1>3. CASE n = 4
    BY <1>3
  <1> QED
    BY <1>1, <1>2, <1>3

\* The rest of Stop is still of steps of Stop, and its failure or end comes last.
LEMMA StopRest ==
    ASSUME Typed, Stops(C), Ends(C), NEW s, C # <<>>, s = Head(C), WordOk(s),
           NEW q, Program(q), Stops(q), StopEffect(s, q), C' = q \o Tail(C)
    PROVE  Stops(C') /\ Ends(C')
  <1>1. PICK r : r = q \o Tail(C)
    OBVIOUS
  <1>2. /\ Len(r) = Len(q) + Len(C) - 1 /\ Len(q) \in Nat /\ Len(C) \in Nat /\ Len(C) >= 1 /\ s = C[1]
        /\ \A i \in 1..Len(q) : r[i] = q[i]
        /\ \A i \in 1..(Len(q) + Len(C) - 1) : i > Len(q) => r[i] = C[i - Len(q) + 1]
    BY <1>1, ThenElements DEF Typed
  <1>3. Key(s) \in StopKeys
    BY <1>2, KeyIs DEF Stops
  <1>4. ASSUME NEW i \in 1..Len(q), Key(q[i]) \in {"failed", "setState"}
        PROVE  Key(s) = "failed" /\ Len(q) = 1
    <2>1. \/ Len(q) = 0
          \/ Len(q) = 1 /\ Key(q[1]) \in {"taskStop", "wake"}
          \/ Len(q) = 1 /\ Key(q[1]) = "setState" /\ Key(s) = "failed"
          \/ Len(q) = 2 /\ Key(q[1]) \in {"await", "taskStop"} /\ Key(q[2]) \in {"join", "unlink"}
          \/ /\ Len(q) = 3 /\ Key(q[1]) = "demuxer" /\ Key(q[2]) = "source" /\ Key(q[3]) = "coreRemove"
          \/ /\ Len(q) = 4 /\ Key(q[1]) \in {"demuxer", "sink"} /\ Key(q[2]) \in {"demuxer", "source"}
             /\ Key(q[3]) \in {"source", "sink"} /\ Key(q[4]) = "coreRemove"
      BY <1>3 DEF StopEffect, StopKeys
    <2>2. Len(q) \in {0, 1, 2, 3, 4}
      BY <2>1
    <2>3. \/ i = 1 \/ (i = 2 /\ Len(q) \in {2, 3, 4}) \/ (i = 3 /\ Len(q) \in {3, 4})
          \/ (i = 4 /\ Len(q) = 4)
      BY <2>2, Places
    <2>4. CASE i = 1
      <3>1. Key(q[1]) \in {"failed", "setState"}
        BY <1>4, <2>4
      <3> QED
        BY <2>1, <2>4, <3>1
    <2>5. CASE i = 2 /\ Len(q) \in {2, 3, 4}
      <3>1. Key(q[2]) \in {"failed", "setState"}
        BY <1>4, <2>5
      <3> QED
        BY <2>1, <2>5, <3>1
    <2>6. CASE i = 3 /\ Len(q) \in {3, 4}
      <3>1. Key(q[3]) \in {"failed", "setState"}
        BY <1>4, <2>6
      <3>2. Key(q[3]) \in {"source", "sink", "coreRemove"}
        BY <2>1, <2>6
      <3> QED
        BY <3>1, <3>2
    <2>7. CASE i = 4 /\ Len(q) = 4
      <3>1. Key(q[4]) \in {"failed", "setState"}
        BY <1>4, <2>7
      <3>2. Key(q[4]) = "coreRemove"
        BY <2>1, <2>7
      <3> QED
        BY <3>1, <3>2
    <2> QED
      BY <2>3, <2>4, <2>5, <2>6, <2>7
  <1>5. ASSUME NEW i \in 1..Len(r)
        PROVE  StopWord(r[i]) /\ (Key(r[i]) \in {"failed", "setState"} => i = Len(r))
    <2>1. CASE i <= Len(q)
      <3>1. i \in 1..Len(q) /\ r[i] = q[i]
        BY <1>2, <2>1
      <3>2. StopWord(r[i])
        BY <3>1 DEF Stops
      <3>3. ASSUME Key(r[i]) \in {"failed", "setState"} PROVE i = Len(r)
        <4>1. Key(s) = "failed" /\ Len(q) = 1
          BY <1>4, <3>1, <3>3
        <4>2. Len(C) = 1
          BY <1>2, <4>1 DEF Ends
        <4> QED
          BY <1>2, <3>1, <4>1, <4>2
      <3> QED
        BY <3>2, <3>3
    <2>2. CASE i > Len(q)
      <3>1. i - Len(q) + 1 \in 1..Len(C) /\ r[i] = C[i - Len(q) + 1]
        BY <1>2, <2>2
      <3>2. StopWord(r[i])
        BY <3>1 DEF Stops
      <3>3. Key(r[i]) \in {"failed", "setState"} => i - Len(q) + 1 = Len(C)
        BY <3>1 DEF Ends
      <3> QED
        BY <1>2, <3>2, <3>3
    <2> QED
      BY <1>2, <2>1, <2>2
  <1> QED
    BY <1>1, <1>5 DEF Stops, Ends

\* A thread that Stop ends is joined: the wait for it and the join come first.
LEMMA StopJoins ==
    ASSUME Typed, Stops(C), JoinNext, Joined, call = "Stop", call' = call,
           NEW s, C # <<>>, s = Head(C), WordOk(s), TaskEffect(s), FilterEffect(s),
           NEW q, Program(q), StopEffect(s, q), ProgramEffect(s, q), C' = q \o Tail(C)
    PROVE  JoinNext' /\ Joined'
  <1>1. PICK r : r = q \o Tail(C)
    OBVIOUS
  <1>2. /\ Len(r) = Len(q) + Len(C) - 1 /\ Len(q) \in Nat /\ Len(C) \in Nat /\ Len(C) >= 1 /\ s = C[1]
        /\ \A i \in 1..Len(q) : r[i] = q[i]
        /\ \A i \in 1..(Len(q) + Len(C) - 1) : i > Len(q) => r[i] = C[i - Len(q) + 1]
    BY <1>1, ThenElements DEF Typed
  <1>3. Key(s) \in StopKeys /\ StopWord(s) /\ 1 \in 1..Len(C)
    BY <1>2, KeyIs DEF Stops
  <1>4. ASSUME NEW i \in 1..Len(q), Key(q[i]) = "join"
        PROVE  Key(s) = "taskStop" /\ i = 2 /\ Key(q[1]) = "await" /\ Len(q) = 2
    <2>1. \/ Len(q) = 0
          \/ Len(q) = 1 /\ Key(q[1]) \in {"taskStop", "wake", "setState"}
          \/ Len(q) = 2 /\ Key(q[1]) = "taskStop" /\ Key(q[2]) = "unlink"
          \/ Len(q) = 2 /\ Key(q[1]) = "await" /\ Key(q[2]) = "join" /\ Key(s) = "taskStop"
          \/ /\ Len(q) = 3 /\ Key(q[1]) = "demuxer" /\ Key(q[2]) = "source" /\ Key(q[3]) = "coreRemove"
          \/ /\ Len(q) = 4 /\ Key(q[1]) \in {"demuxer", "sink"} /\ Key(q[2]) \in {"demuxer", "source"}
             /\ Key(q[3]) \in {"source", "sink"} /\ Key(q[4]) = "coreRemove"
      BY <1>3 DEF StopEffect, StopKeys
    <2>2. Len(q) \in {0, 1, 2, 3, 4}
      BY <2>1
    <2>3. \/ i = 1 \/ (i = 2 /\ Len(q) \in {2, 3, 4}) \/ (i = 3 /\ Len(q) \in {3, 4})
          \/ (i = 4 /\ Len(q) = 4)
      BY <2>2, Places
    <2>4. CASE i = 1
      <3>1. Key(q[1]) \in {"join"}
        BY <1>4, <2>4
      <3> QED
        BY <2>1, <2>4, <3>1
    <2>5. CASE i = 2 /\ Len(q) \in {2, 3, 4}
      <3>1. Key(q[2]) \in {"join"}
        BY <1>4, <2>5
      <3> QED
        BY <2>1, <2>5, <3>1
    <2>6. CASE i = 3 /\ Len(q) \in {3, 4}
      <3>1. Key(q[3]) \in {"join"}
        BY <1>4, <2>6
      <3>2. Key(q[3]) \in {"source", "sink", "coreRemove"}
        BY <2>1, <2>6
      <3> QED
        BY <3>1, <3>2
    <2>7. CASE i = 4 /\ Len(q) = 4
      <3>1. Key(q[4]) \in {"join"}
        BY <1>4, <2>7
      <3>2. Key(q[4]) = "coreRemove"
        BY <2>1, <2>7
      <3> QED
        BY <3>1, <3>2
    <2> QED
      BY <2>3, <2>4, <2>5, <2>6, <2>7
  <1>5. Key(s) = "await" => task.state = "STOPPED" /\ task' = task /\ Len(q) = 0
    <2>1. HAVE Key(s) = "await"
    <2>2. s[1] = "await" /\ s[2] = {"STOPPED"}
      BY <1>3, <2>1, KeyIs DEF StopWord, StopKeys, Filters
    <2>3. task.state \in s[2] /\ q = <<>>
      BY <2>2 DEF ProgramEffect
    <2>4. task' = task
      BY <1>3, <2>1, StopMoves
    <2> QED
      BY <2>2, <2>3, <2>4, ShortPrograms
  <1>6. ASSUME NEW i \in 1..Len(r), Key(r[i]) = "join"
        PROVE  (i = 1 /\ task'.state = "STOPPED") \/ (i = 2 /\ Key(r[1]) = "await")
    <2>1. CASE i <= Len(q)
      <3>1. i \in 1..Len(q) /\ r[i] = q[i]
        BY <1>2, <2>1
      <3>2. i = 2 /\ Key(q[1]) = "await" /\ Len(q) = 2
        BY <1>4, <1>6, <3>1
      <3>3. r[1] = q[1]
        BY <1>2, <3>2
      <3> QED
        BY <3>2, <3>3
    <2>2. CASE i > Len(q)
      <3>1. i - Len(q) + 1 \in 1..Len(C) /\ r[i] = C[i - Len(q) + 1] /\ i - Len(q) + 1 >= 2
        BY <1>2, <2>2
      <3>2. i - Len(q) + 1 = 2 /\ Key(C[1]) = "await"
        BY <1>6, <3>1 DEF JoinNext
      <3> QED
        BY <1>2, <1>5, <3>2
    <2> QED
      BY <1>2, <2>1, <2>2
  <1>7. JoinNext'
    BY <1>1, <1>6 DEF JoinNext
  <1>8. Key(s) \notin {"await", "join"} =>
           task.state # "STOPPING" /\ (task.state = "STOPPED" => ~task.thread)
    BY <1>2 DEF JoinNext, Joined
  <1>9. Joined'
    <2>1. CASE Key(s) = "taskStop"
      <3>1. task' = IF task.state = "STOPPED" THEN task ELSE [task EXCEPT !.state = "STOPPING"]
        BY <1>3, <2>1, StopMoves
      <3>2. CASE task.state = "STOPPED"
        BY <1>8, <2>1, <3>1, <3>2 DEF Joined
      <3>3. CASE task.state # "STOPPED"
        <4>1. task'.state = "STOPPING" /\ task'.thread = task.thread /\ task.thread
          BY <3>1, <3>3 DEF Typed, Joined
        <4>2. Len(q) = 2 /\ Key(q[2]) = "join"
          BY <2>1, <3>3 DEF StopEffect
        <4>3. 2 \in 1..Len(r) /\ r[2] = q[2]
          BY <1>2, <4>2
        <4> QED
          BY <1>1, <4>1, <4>2, <4>3 DEF Joined
      <3> QED
        BY <3>2, <3>3
    <2>2. CASE Key(s) = "join"
      <3>1. task.state = "STOPPED"
        BY <1>2, <1>3, <2>2 DEF JoinNext
      <3>2. task' = [task EXCEPT !.thread = FALSE]
        BY <1>3, <2>2, StopMoves
      <3>3. task'.state = "STOPPED" /\ task'.thread = FALSE
        BY <3>1, <3>2 DEF Typed
      <3> QED
        BY <3>3 DEF Joined
    <2>3. CASE Key(s) = "await"
      <3>1. task' = task /\ Len(q) = 0
        BY <1>5, <2>3
      <3>2. ASSUME task.state = "STOPPED" /\ task.thread PROVE \E i \in 1..Len(r) : Key(r[i]) = "join"
        <4>1. PICK k \in 1..Len(C) : Key(C[k]) = "join"
          BY <3>2 DEF Joined
        <4>2. k = 2
          BY <1>2, <2>3, <4>1 DEF JoinNext
        <4>3. 1 \in 1..Len(r) /\ r[1] = C[2]
          BY <1>2, <3>1, <4>1, <4>2
        <4> QED
          BY <4>1, <4>2, <4>3
      <3> QED
        BY <1>1, <1>5, <2>3, <3>1, <3>2 DEF Joined
    <2>4. CASE Key(s) \notin {"taskStop", "join", "await"}
      <3>1. task' = task
        BY <1>3, <2>4, StopMoves
      <3> QED
        BY <1>8, <2>4, <3>1 DEF Joined
    <2> QED
      BY <2>1, <2>2, <2>3, <2>4
  <1> QED
    BY <1>7, <1>9

\* A step of Stop keeps the invariant of Stop.
LEMMA StopClient ==
    ASSUME Typed, Begun, StopInv, Joined, Unused, call = "Stop", NEW s, Effect(s)
    PROVE  StopInv' /\ Joined'
  <1>1. /\ C # <<>> /\ s = Head(C) /\ WordOk(s) /\ TaskEffect(s) /\ FilterEffect(s) /\ call' = call
        /\ Stops(C) /\ Ends(C) /\ JoinNext /\ StopLed
    BY DEF Effect, StopInv
  <1>2. Program(C) /\ s = C[1] /\ 1 \in 1..Len(C) /\ StopWord(s)
    BY <1>1, ProgramElements DEF Typed, Stops
  <1>3. core.filters # <<>>
    <2>1. s[1] # "init"
      BY <1>2 DEF StopWord
    <2> QED
      BY <1>1, <2>1 DEF Begun, At, C
  <1>4. ASSUME NEW q, Program(q), WordsOk(q), C' = q \o Tail(C), ProgramEffect(s, q)
        PROVE  StopInv' /\ Joined'
    <2>1. StopEffect(s, q) /\ Stops(q)
      BY <1>1, <1>2, <1>3, <1>4, StopFollows DEF Stops
    <2>2. StopLed'
      BY <1>1, <1>4, <2>1, StopLedThen
    <2>3. Stops(C') /\ Ends(C')
      BY <1>1, <1>4, <2>1, StopRest
    <2>4. JoinNext' /\ Joined'
      BY <1>1, <1>4, <2>1, StopJoins
    <2> QED
      BY <2>2, <2>3, <2>4 DEF StopInv
  <1>5. CASE GivesUp(s) /\ task' = task
    <2>1. s[1] = "stop" /\ s[2] = "source" /\ C' = <<<<"failed", "">>>>
      BY <1>2, <1>5 DEF GivesUp, StopWord
    <2>2. Key(s) = "source"
      BY <2>1 DEF Key
    <2>3. PICK a : C' = <<a>> /\ a[1] = "failed"
      BY <2>1, Pairs, Zenon
    <2>4. Len(C') = 1 /\ C'[1] = a /\ Key(a) = "failed" /\ StopWord(a)
      BY <2>3, ShortPrograms DEF Key, StopWord
    <2>5. Stops(C') /\ Ends(C') /\ JoinNext'
      BY <2>4 DEF Stops, Ends, JoinNext
    <2>6. Dead /\ SinkDone
      BY <1>1, <1>2, <2>2, LedHead DEF StopLed, EndKeys
    <2>7. Settled
      BY <1>1, <1>2, <2>2, LedHead DEF StopLed, LateKeys
    <2>8. Dead' /\ SinkDone' /\ Settled'
      BY <1>1, <1>2, <2>2, <2>6, <2>7, StopKeeps
    <2>9. \A i \in 1..Len(C') : Key(C'[i]) = "failed"
      BY <2>4
    <2>10. Len(C') \in Nat /\ \A i \in 1..Len(C') : Key(C'[i]) \in StopKeys
      BY <2>4, <2>9 DEF StopKeys
    <2>11. /\ Led(C', EndKeys, StopKeys, {"coreStop", "taskStop", "join", "demuxer"}, Dead')
           /\ Led(C', LateKeys, StopKeys, {"coreStop"}, Settled')
           /\ Led(C', EndKeys, StopKeys, {"coreStop", "sink"}, SinkDone')
      BY <2>8, <2>10, LedTrue
    <2>12. /\ Led(C', {"coreStop"}, StopKeys, {"stopTask", "taskStop", "join"}, Settled')
           /\ Led(C', {"coreRemove"}, StopKeys, {"coreStop", "sink"}, Down')
      BY <2>9, LedNone
    <2>13. StopLed'
      BY <2>11, <2>12 DEF StopLed
    <2>14. Joined'
      BY <1>5, <2>6 DEF Joined, Dead
    <2> QED
      BY <2>5, <2>13, <2>14 DEF StopInv
  <1> QED
    BY <1>4, <1>5 DEF Effect

Spare(s) == s[1] \notin StopOps /\ ~(s[1] = "setState" /\ s[2] = "STOPPED")

\* No step of another call is followed by one of Stop.
LEMMA NoStopFollows ==
    ASSUME core.filters \in FilterLists, call # "Stop", NEW s, WordOk(s), Spare(s),
           NEW q, Program(q), ProgramEffect(s, q)
    PROVE  \A i \in 1..Len(q) : Spare(q[i])
  <1>1. CASE s[1] \notin ProperOps
    <2>1. \A i \in 1..Len(q) : q[i][1] \in PlainOps
      BY <1>1 DEF ProgramEffect
    <2>2. \A x : x[1] \in PlainOps => Spare(x)
      BY DEF Spare, PlainOps, StopOps
    <2> QED
      BY <2>1, <2>2
  <1>2. CASE q = <<>>
    BY <1>2, ShortPrograms
  <1>3. ASSUME NEW o, NEW e, q = <<<<o, e>>>>, o \notin StopOps, o = "setState" => e # "STOPPED"
        PROVE  \A i \in 1..Len(q) : Spare(q[i])
    <2>1. PICK a : q = <<a>> /\ a[1] = o /\ a[2] = e
      BY <1>3, Pairs, Zenon
    <2>2. Len(q) = 1 /\ q[1] = a
      BY <2>1, ShortPrograms
    <2> QED
      BY <1>3, <2>1, <2>2 DEF Spare
  <1>4. CASE s[1] \in {"wake", "seekTo", "setState", "init", "await"}
    <2>1. q = <<>>
      BY <1>4 DEF ProgramEffect
    <2> QED
      BY <1>2, <2>1
  <1>5. CASE s[1] \in {"taskPause", "flushStart"}
    <2>1. q = <<>> \/ (\E X : q = <<<<"await", X>>>>)
             \/ (\E e : q = <<<<"taskPause", e>>>>) \/ (\E e : q = <<<<"wake", e>>>>)
      <3>1. CASE s[1] = "taskPause"
        BY <3>1, Zenon DEF ProgramEffect
      <3>2. CASE s[1] = "flushStart"
        BY <3>2, Zenon DEF ProgramEffect
      <3> QED
        BY <1>5, <3>1, <3>2
    <2>2. "await" \notin StopOps /\ "taskPause" \notin StopOps /\ "wake" \notin StopOps
      BY DEF StopOps
    <2> QED
      BY <1>2, <1>3, <2>1, <2>2
  <1>6. CASE s[1] \in {"setSource", "failed"}
    <2>1. q = <<>> \/ \E x \in {"ERROR", "INITIALIZED", "PREPARING", "PAUSED"} : q = <<<<"setState", x>>>>
      BY <1>6 DEF ProgramEffect
    <2>2. "setState" \notin StopOps
      BY DEF StopOps
    <2> QED
      BY <1>2, <1>3, <2>1, <2>2
  <1>7. CASE s[1] = "coreFlush"
    <2>1. q = ForFilters(s[2]) /\ s[2] \in {"flushStart", "flushEnd"}
      BY <1>7 DEF ProgramEffect, WordOk
    <2>2. \A i \in 1..Len(q) : \E f \in Filters : q[i] = <<s[2], f>>
      BY <2>1, Spread
    <2>3. \A f : Spare(<<s[2], f>>)
      BY <2>1 DEF Spare, StopOps
    <2> QED
      BY <2>2, <2>3, Zenon
  <1> QED
    BY <1>1, <1>4, <1>5, <1>6, <1>7 DEF ProperOps, Spare, StopOps

\* The other calls do not end the task.
LEMMA OtherClient ==
    ASSUME Typed, NotStop(C), Joined, call # "Stop", NEW s, Effect(s)
    PROVE  NotStop(C') /\ Joined'
  <1>1. C # <<>> /\ s = Head(C) /\ WordOk(s) /\ TaskEffect(s) /\ Program(C)
    BY DEF Effect, Typed
  <1>2. \A k \in 1..Len(C) : Spare(C[k])
    BY DEF NotStop, Spare
  <1>3. Spare(s)
    BY <1>1, <1>2, ProgramElements
  <1>4. NotStop(C')
    <2>1. ASSUME NEW q, Program(q), WordsOk(q), C' = q \o Tail(C), ProgramEffect(s, q)
          PROVE  NotStop(C')
      <3>1. PICK r : r = q \o Tail(C)
        OBVIOUS
      <3>2. /\ Len(r) = Len(q) + Len(C) - 1 /\ Len(q) \in Nat /\ Len(C) \in Nat /\ Len(C) >= 1
            /\ \A i \in 1..Len(q) : r[i] = q[i]
            /\ \A i \in 1..(Len(q) + Len(C) - 1) : i > Len(q) => r[i] = C[i - Len(q) + 1]
        BY <1>1, <2>1, <3>1, ThenElements
      <3>3. \A i \in 1..Len(q) : Spare(q[i])
        BY <1>1, <1>3, <2>1, NoStopFollows DEF Typed
      <3>4. ASSUME NEW i \in 1..Len(r) PROVE Spare(r[i])
        <4>1. CASE i <= Len(q)
          <5>1. i \in 1..Len(q) /\ r[i] = q[i]
            BY <3>2, <4>1
          <5> QED
            BY <3>3, <5>1
        <4>2. CASE i > Len(q)
          <5>1. i - Len(q) + 1 \in 1..Len(C) /\ r[i] = C[i - Len(q) + 1]
            BY <3>2, <4>2
          <5> QED
            BY <1>2, <5>1
        <4> QED
          BY <3>2, <4>1, <4>2
      <3> QED
        BY <2>1, <3>1, <3>4 DEF NotStop, Spare
    <2>2. CASE GivesUp(s)
      <3>1. PICK a : C' = <<a>> /\ (a[1] = "failed" \/ a[1] = "coreFlush")
        BY <2>2, Pairs, Zenon DEF GivesUp
      <3> QED
        BY <3>1, ShortPrograms DEF NotStop, StopOps
    <2> QED
      BY <2>1, <2>2 DEF Effect
  <1>5. task.state # "STOPPING" /\ (task.state = "STOPPED" => ~task.thread) /\ (~task.thread => task.state = "STOPPED")
    BY DEF Joined
  <1>6. task'.state # "STOPPING" /\ (task'.state = "STOPPED" => ~task'.thread) /\ (~task'.thread => task'.state = "STOPPED")
    <2>1. CASE s[1] = "taskStart"
      <3>1. task' = [state |-> "STARTED", thread |-> TRUE]
        BY <1>1, <2>1 DEF TaskEffect
      <3> QED
        BY <3>1
    <2>2. CASE s[1] \in {"taskPause", "pauseAsync"}
      <3>1. task' = IF task.state = "STARTED" THEN [task EXCEPT !.state = "PAUSING"] ELSE task
        BY <1>1, <2>2 DEF TaskEffect
      <3> QED
        BY <1>5, <3>1 DEF Typed
    <2>3. CASE s[1] \notin {"taskStart", "taskPause", "pauseAsync"}
      <3>1. task' = task
        BY <1>1, <1>3, <2>3 DEF TaskEffect, Spare, StopOps
      <3> QED
        BY <1>5, <3>1
    <2> QED
      BY <2>1, <2>2, <2>3
  <1> QED
    BY <1>4, <1>6 DEF Joined

\* A demuxer that pushes frames does not touch the state of the sink.
LEMMA FramesOnly ==
    ASSUME Typed, ParseOk, PathEffect, demuxer.plugin = "FRAME"
    PROVE  sink'.state = sink.state /\ core'.filters = core.filters /\ demuxer'.plugin = "FRAME"
  <1>1. D # <<>> /\ Head(D) = D[1] /\ 1 \in 1..Len(D)
    BY DemuxAt DEF PathEffect
  <1>2. \A x \in {"addSink", "negotiate"} : ~At("demux", x)
    <2>1. ASSUME D[1][1] \in {"addSink", "negotiate"} PROVE FALSE
      <3>1. Key(D[1]) \in Parsing
        BY <2>1 DEF Key, Parsing
      <3> QED
        BY <1>1, <3>1 DEF ParseOk, Led
    <2> QED
      BY <1>1, <2>1 DEF At, D
  <1> QED
    BY <1>2 DEF PathEffect, SinkEffect

\* The demuxer's thread leaves to Stop what it has to do.
LEMMA StopDemux ==
    ASSUME Typed, Resting, Calls, Joined, ParseOk, DemuxEffect, PathEffect
    PROVE  Calls' /\ Joined'
  <1>1. /\ D # <<>> /\ task.state # "STOPPED" /\ call' = call
        /\ C' = C \/ (At("client", "waiting") /\ C' = <<<<"awaitReady", "">>>>)
        /\ task'.thread = task.thread
        /\ task'.state \in {"STOPPING", "STOPPED"} => task.state = "STOPPING"
    BY DEF DemuxEffect, PathEffect, Resting
  <1>2. CASE call # "Stop"
    <2>1. NotStop(C')
      <3>1. CASE C' = C
        BY <1>2, <3>1 DEF Calls
      <3>2. CASE C' = <<<<"awaitReady", "">>>>
        <4>1. PICK a : C' = <<a>> /\ a[1] = "awaitReady"
          BY <3>2, Pairs, Zenon
        <4> QED
          BY <4>1, ShortPrograms DEF NotStop, StopOps
      <3> QED
        BY <1>1, <3>1, <3>2
    <2> QED
      BY <1>1, <1>2, <2>1 DEF Calls, Joined
  <1>3. CASE call = "Stop"
    <2>1. Stops(C) /\ Ends(C) /\ JoinNext /\ StopLed
      BY <1>3 DEF Calls, StopInv
    <2>2. C' = C
      <3>1. ~At("client", "waiting")
        <4>1. SUFFICES ASSUME At("client", "waiting") PROVE FALSE
          OBVIOUS
        <4>2. C # <<>> /\ Head(C) = C[1] /\ Head(C)[1] = "waiting"
          BY <4>1, ClientAt
        <4>3. StopWord(C[1])
          BY <2>1, <4>2, ProgramElements DEF Typed, Stops
        <4> QED
          BY <4>2, <4>3 DEF StopWord
      <3> QED
        BY <1>1, <3>1
    <2>3. JoinNext'
      BY <1>1, <2>1, <2>2 DEF JoinNext
    <2>4. Dead => Dead'
      <3>1. ASSUME Dead PROVE FALSE
        <4>1. task.state = "STOPPED"
          BY <3>1 DEF Dead
        <4> QED
          BY <1>1, <4>1
      <3> QED
        BY <3>1
    <2>5. Settled => Settled'
      BY <1>1, FramesOnly DEF Settled
    <2>6. Settled => (Down => Down') /\ (SinkDone => SinkDone')
      BY <1>1, FramesOnly DEF Settled, Down, SinkDone, SinkLeftOver
    <2>7. /\ Led(C, EndKeys, StopKeys, {"coreStop", "taskStop", "join", "demuxer"}, Dead)
          /\ Led(C, {"coreStop"}, StopKeys, {"stopTask", "taskStop", "join"}, Settled)
          /\ Led(C, LateKeys, StopKeys, {"coreStop"}, Settled)
          /\ Led(C, EndKeys, StopKeys, {"coreStop", "sink"}, SinkDone)
          /\ Led(C, {"coreRemove"}, StopKeys, {"coreStop", "sink"}, Down)
      BY <2>1 DEF StopLed
    <2>8. /\ Led(C, EndKeys, StopKeys, {"coreStop", "taskStop", "join", "demuxer"}, Dead')
          /\ Led(C, {"coreStop"}, StopKeys, {"stopTask", "taskStop", "join"}, Settled')
          /\ Led(C, LateKeys, StopKeys, {"coreStop"}, Settled')
      BY <2>4, <2>5, <2>7, LedSame
    <2>9. /\ Led(C, EndKeys, StopKeys, {"coreStop", "sink"}, SinkDone')
          /\ Led(C, {"coreRemove"}, StopKeys, {"coreStop", "sink"}, Down')
      <3>1. CASE Settled
        BY <2>6, <2>7, <3>1, LedSame
      <3>2. CASE ~Settled
        <4>1. \A k \in 1..Len(C) : Key(C[k]) \in LateKeys =>
                 /\ \A j \in 1..(k - 1) : Key(C[j]) \in StopKeys
                 /\ \E j \in 1..(k - 1) : Key(C[j]) = "coreStop"
          BY <2>7, <3>2 DEF Led
        <4>2. \A x : x \in EndKeys \/ x \in {"coreRemove"} => x \in LateKeys
          BY DEF EndKeys, LateKeys
        <4> QED
          BY <4>1, <4>2 DEF Led
      <3> QED
        BY <3>1, <3>2
    <2>10. StopLed'
      BY <2>2, <2>8, <2>9 DEF StopLed
    <2>11. Stops(C') /\ Ends(C')
      BY <2>1, <2>2
    <2>12. Joined'
      BY <1>1, <2>2 DEF Joined
    <2> QED
      BY <1>1, <1>3, <2>3, <2>10, <2>11, <2>12 DEF Calls, StopInv
  <1> QED
    BY <1>2, <1>3

\* A call of the API begins a Stop that is led, or is none.
LEMMA StopCalled ==
    ASSUME Typed, Calls, Joined, CallEffect
    PROVE  Calls' /\ Joined'
  <1>1. C = <<>> /\ UNCHANGED <<task, demuxer, sink, core>>
    BY Zenon DEF CallEffect
  <1>2. task.state # "STOPPING" /\ (task.state = "STOPPED" => ~task.thread)
    <2>1. Len(C) = 0
      BY <1>1, ShortPrograms
    <2> QED
      BY <2>1 DEF Joined
  <1>3. Joined'
    BY <1>1, <1>2 DEF Joined
  <1>4. CASE call' = "SetSource" /\ C' = <<<<"init", "">>, <<"setSource", "">>>>
    <2>1. PICK a, b : C' = <<a, b>> /\ a[1] = "init" /\ b[1] = "setSource"
      <3>1. <<"init", "">>[1] = "init" /\ <<"setSource", "">>[1] = "setSource"
        BY Pairs, Zenon
      <3> QED
        BY <1>4, <3>1, Zenon
    <2>2. Len(C') = 2 /\ C'[1] = a /\ C'[2] = b
      BY <2>1, ShortPrograms
    <2>3. NotStop(C')
      BY <2>1, <2>2 DEF NotStop, StopOps
    <2> QED
      BY <1>3, <1>4, <2>3 DEF Calls
  <1>5. CASE call' # "Stop" /\ CallProgram(C')
    BY <1>3, <1>5 DEF Calls, CallProgram
  <1>6. CASE call' = "Stop" /\ C' = <<<<"stopTask", "">>, <<"coreStop", "">>, <<"setState", "STOPPED">>>>
    <2>1. PICK a, b, c : /\ C' = <<a, b, c>> /\ a[1] = "stopTask" /\ b[1] = "coreStop" /\ c[1] = "setState"
                         /\ c[2] = "STOPPED"
      <3>1. /\ <<"stopTask", "">>[1] = "stopTask" /\ <<"coreStop", "">>[1] = "coreStop"
            /\ <<"setState", "STOPPED">>[1] = "setState" /\ <<"setState", "STOPPED">>[2] = "STOPPED"
        BY Pairs, Zenon
      <3> QED
        BY <1>6, <3>1, Zenon
    <2>2. Len(C') = 3 /\ C'[1] = a /\ C'[2] = b /\ C'[3] = c
      BY <2>1, LongerPrograms
    <2>3. Key(a) = "stopTask" /\ Key(b) = "coreStop" /\ Key(c) = "setState"
      BY <2>1 DEF Key
    <2>4. StopWord(a) /\ StopWord(b) /\ StopWord(c)
      BY <2>1 DEF StopWord
    <2>5. \A k \in 1..Len(C') : k = 1 \/ k = 2 \/ k = 3
      BY <2>2
    <2>6. Stops(C') /\ Ends(C') /\ JoinNext'
      <3>1. Stops(C')
        BY <2>2, <2>4, <2>5 DEF Stops
      <3>2. Ends(C')
        BY <2>2, <2>3, <2>5 DEF Ends
      <3>3. \A k \in 1..Len(C') : Key(C'[k]) # "join"
        BY <2>2, <2>3, <2>5
      <3> QED
        BY <3>1, <3>2, <3>3 DEF JoinNext
    <2>7. \A k \in 1..Len(C') : Key(C'[k]) \in StopKeys
      BY <2>2, <2>3, <2>5 DEF StopKeys
    <2>8. /\ Led(C', EndKeys, StopKeys, {"coreStop", "taskStop", "join", "demuxer"}, Dead')
          /\ Led(C', LateKeys, StopKeys, {"coreStop"}, Settled')
          /\ Led(C', EndKeys, StopKeys, {"coreStop", "sink"}, SinkDone')
      <3>1. \A k \in 1..Len(C') : Key(C'[k]) \in EndKeys \/ Key(C'[k]) \in LateKeys => k = 3
        BY <2>2, <2>3, <2>5 DEF EndKeys, LateKeys
      <3>2. \A k \in 1..Len(C') : \A j \in 1..(k - 1) : j \in 1..Len(C')
        BY <2>2
      <3>3. 2 \in 1..(3 - 1) /\ Key(C'[2]) = "coreStop"
        BY <2>2, <2>3
      <3> QED
        BY <2>7, <3>1, <3>2, <3>3 DEF Led
    <2>9. Led(C', {"coreStop"}, StopKeys, {"stopTask", "taskStop", "join"}, Settled')
      <3>1. \A k \in 1..Len(C') : Key(C'[k]) = "coreStop" => k = 2
        BY <2>2, <2>3, <2>5
      <3>2. 1 \in 1..(2 - 1) /\ Key(C'[1]) = "stopTask" /\ \A j \in 1..(2 - 1) : j \in 1..Len(C')
        BY <2>2, <2>3
      <3> QED
        BY <2>7, <3>1, <3>2 DEF Led
    <2>10. Led(C', {"coreRemove"}, StopKeys, {"coreStop", "sink"}, Down')
      <3>1. \A k \in 1..Len(C') : Key(C'[k]) \notin {"coreRemove"}
        BY <2>2, <2>3, <2>5
      <3> QED
        BY <3>1, LedNone
    <2>11. StopLed'
      BY <2>8, <2>9, <2>10 DEF StopLed
    <2> QED
      BY <1>3, <1>6, <2>6, <2>11 DEF Calls, StopInv
  <1> QED
    BY <1>4, <1>5, <1>6, Zenon DEF CallEffect
\* What the client does to the thread leaves it led, unless what led it is lost.
LEMMA WokenLed ==
    ASSUME Typed, NEW s, TaskEffect(s), NEW T, NEW V, NEW M, NEW P, NEW R,
           Led(D, T, V, M, P), P => R, "evaluate" \notin T, "top" \notin T, "evaluate" \in V, "asleep" \notin M
    PROVE  Led(D', T, V, M, R)
  <1>1. CASE D' = D
    BY <1>1, LedSame
  <1>2. CASE D' = <<<<"top", "">>>>
    <2>1. PICK a : D' = <<a>> /\ a[1] = "top"
      BY <1>2, Pairs, Zenon
    <2>2. Len(D') = 1 /\ D'[1] = a /\ Key(a) = "top"
      BY <2>1, ShortPrograms DEF Key
    <2>3. \A i \in 1..Len(D') : Key(D'[i]) \notin T
      BY <2>2
    <2> QED
      BY <2>3, LedNone
  <1>3. CASE At("demux", "asleep") /\ D' = <<<<"evaluate", Arg("demux")>>>> \o Tail(D)
    <2>1. PICK a : D' = <<a>> \o Tail(D) /\ a[1] = "evaluate"
      BY <1>3, Pairs, Zenon
    <2>2. PICK q : q = <<a>>
      OBVIOUS
    <2>3. Program(q) /\ Len(q) = 1 /\ q[1] = a /\ Key(a) = "evaluate"
      BY <2>1, <2>2, ShortPrograms DEF Key
    <2>4. D # <<>> /\ Key(Head(D)) = "asleep" /\ Program(D)
      BY <1>3 DEF At, D, Key, Typed
    <2>5. \A i \in 1..Len(q) : Key(q[i]) = "evaluate"
      BY <2>3
    <2>6. Led(q, T, V, M, R)
      BY <2>5, LedNone
    <2>7. Led(q \o Tail(D), T, V, M, R)
      BY <2>3, <2>4, <2>5, <2>6, LedThen
    <2> QED
      BY <2>1, <2>2, <2>7
  <1> QED
    BY <1>1, <1>2, <1>3 DEF TaskEffect

\* The client leaves the parsing as it is: it takes the sink away only when there is none.
LEMMA ParseClient ==
    ASSUME Typed, Begun, Resting, Calls, ParseOk, NEW s, Effect(s)
    PROVE  ParseOk'
  <1>1. C # <<>> /\ s = Head(C) /\ WordOk(s) /\ TaskEffect(s) /\ FilterEffect(s) /\ Program(C)
    BY DEF Effect, Typed
  <1>2. s = C[1] /\ 1 \in 1..Len(C)
    BY <1>1, ProgramElements
  <1>3. demuxer.plugin # "FRAME" => demuxer'.plugin # "FRAME"
    BY <1>1 DEF FilterEffect
  <1>4. /\ Led(D, Parsing, DemuxOps \ {"loop", "parsed"}, {}, demuxer.plugin # "FRAME")
        /\ Led(D, {"negotiate"}, DemuxOps, {"addSink"}, "sink" \in ToSet(core.filters))
    BY DEF ParseOk
  <1>5. /\ "evaluate" \notin Parsing /\ "top" \notin Parsing /\ "negotiate" \in Parsing
        /\ "evaluate" \in DemuxOps /\ "evaluate" \in DemuxOps \ {"loop", "parsed"}
    BY DEF Parsing, DemuxOps
  <1>6. Led(D', Parsing, DemuxOps \ {"loop", "parsed"}, {}, demuxer'.plugin # "FRAME")
    BY <1>1, <1>3, <1>4, <1>5, WokenLed
  <1>7. Led(D', {"negotiate"}, DemuxOps, {"addSink"}, "sink" \in ToSet(core'.filters))
    <2>1. CASE s[1] # "coreRemove"
      <3>1. "sink" \in ToSet(core.filters) => "sink" \in ToSet(core'.filters)
        <4>1. CASE core'.filters = core.filters
          BY <4>1
        <4>2. CASE s[1] = "init"
          <5>1. core.filters = <<>>
            BY <1>2, <4>2 DEF Begun
          <5> QED
            BY <5>1 DEF ToSet
        <4>3. CASE s[1] = "corePrepare"
          BY <1>1, <4>3, ReorderedIs DEF FilterEffect, Typed
        <4> QED
          BY <1>1, <2>1, <4>1, <4>2, <4>3 DEF FilterEffect
      <3> QED
        BY <1>1, <1>4, <1>5, <3>1, WokenLed
    <2>2. CASE s[1] = "coreRemove"
      <3>1. call = "Stop"
        BY <1>2, <2>2 DEF Calls, NotStop, StopOps
      <3>2. Key(s) = "coreRemove"
        BY <2>2 DEF Key
      <3>3. Settled
        <4>1. Led(C, LateKeys, StopKeys, {"coreStop"}, Settled)
          BY <3>1 DEF Calls, StopInv, StopLed
        <4> QED
          BY <1>1, <3>2, <4>1, LedHead DEF LateKeys
      <3>4. \A i \in 1..Len(D) : Key(D[i]) \notin {"negotiate"}
        <4>1. CASE task.state = "STOPPED"
          BY <4>1, ShortPrograms DEF Resting
        <4>2. CASE demuxer.plugin = "FRAME"
          BY <1>4, <1>5, <4>2 DEF Led
        <4> QED
          BY <3>3, <4>1, <4>2 DEF Settled
      <3>5. Led(D, {"negotiate"}, DemuxOps, {"addSink"}, "sink" \in ToSet(core'.filters))
        BY <3>4, LedNone
      <3> QED
        BY <1>1, <1>5, <3>5, WokenLed
    <2> QED
      BY <2>1, <2>2
  <1> QED
    BY <1>6, <1>7 DEF ParseOk

\* The demuxer's thread parses in order.
LEMMA ParseDemux ==
    ASSUME Typed, Typed', ParseOk, PathEffect
    PROVE  ParseOk'
  <1> DEFINE V == DemuxOps \ {"loop", "parsed"}
             P == demuxer'.plugin # "FRAME"
             K == "sink" \in ToSet(core'.filters)
  <1>1. D # <<>> /\ Program(D) /\ Head(D)[1] \in DemuxOps /\ (Head(D)[1] \in Rounds => Len(D) = 1)
    BY DemuxAt DEF PathEffect, Typed
  <1>2. \A a : a[1] \in DemuxOps => Key(a) = a[1]
    BY DEF Key, DemuxOps, Rounds
  <1>3. \A op : At("demux", op) <=> Head(D)[1] = op
    BY <1>1 DEF At, D
  <1>4. demuxer.plugin # "FRAME" => P \/ Key(Head(D)) = "parsed"
    BY <1>1, <1>2, <1>3 DEF PathEffect, SinkEffect
  <1>5. "sink" \in ToSet(core.filters) \/ Key(Head(D)) = "addSink" => K
    BY <1>1, <1>2, <1>3 DEF PathEffect, SinkEffect
  <1>6. /\ Led(D, Parsing, V, {}, demuxer.plugin # "FRAME")
        /\ Led(D, {"negotiate"}, DemuxOps, {"addSink"}, "sink" \in ToSet(core.filters))
    BY DEF ParseOk
  <1>7. /\ Tame \subseteq V /\ V \subseteq DemuxOps /\ "parsed" \notin V /\ "loop" \notin V
        /\ {"addSink", "negotiate"} \subseteq V /\ Parsing \subseteq DemuxOps /\ Parsing \cap Tame = {}
        /\ {"negotiate"} \subseteq Parsing /\ "ready" \in DemuxOps \ Parsing /\ "top" \in Rounds
        /\ {"addSink", "negotiate", "parsed", "ready"} \subseteq DemuxOps
    BY DEF Tame, Parsing, DemuxOps, Rounds
  <1> HIDE DEF V, P, K
  <1>8. PICK q : /\ Program(q) /\ D' = q \o Tail(D)
                 /\ \/ \A i \in 1..Len(q) : q[i][1] \in Tame
                    \/ /\ At("demux", "loop") /\ demuxer.plugin # "FRAME"
                       /\ Len(q) = 4 /\ q[1][1] = "addSink" /\ q[2][1] = "negotiate" /\ q[3][1] = "parsed"
                       /\ q[4][1] = "ready"
                    \/ At("demux", "top") /\ \A i \in 1..Len(q) : q[i][1] \notin Parsing
    BY DEF PathEffect, ParseStep
  <1>9. CASE \A i \in 1..Len(q) : q[i][1] \in Tame
    <2>1. \A i \in 1..Len(q) : Key(q[i]) \in Tame
      BY <1>2, <1>7, <1>9
    <2>2. /\ \A i \in 1..Len(q) : Key(q[i]) \notin Parsing /\ Key(q[i]) \notin {"negotiate"}
          /\ \A i \in 1..Len(q) : Key(q[i]) \in V /\ Key(q[i]) \in DemuxOps
      BY <1>7, <2>1
    <2>3. Led(q, Parsing, V, {}, P) /\ Led(q, {"negotiate"}, DemuxOps, {"addSink"}, K)
      BY <2>2, LedNone
    <2>4. Key(Head(D)) \in V => (demuxer.plugin # "FRAME" => P)
      BY <1>4, <1>7
    <2>5. Led(q \o Tail(D), Parsing, V, {}, P)
      BY <1>1, <1>6, <1>8, <2>2, <2>3, <2>4, LedThen
    <2>6. Led(q \o Tail(D), {"negotiate"}, DemuxOps, {"addSink"}, K)
      BY <1>1, <1>5, <1>6, <1>8, <2>2, <2>3, LedThen
    <2> QED
      BY <1>8, <2>5, <2>6 DEF ParseOk, V, P, K
  <1>10. CASE /\ At("demux", "loop") /\ demuxer.plugin # "FRAME"
              /\ Len(q) = 4 /\ q[1][1] = "addSink" /\ q[2][1] = "negotiate" /\ q[3][1] = "parsed"
              /\ q[4][1] = "ready"
    <2>1. Key(Head(D)) = "loop"
      BY <1>1, <1>2, <1>3, <1>10
    <2>2. P
      BY <1>4, <1>10, <2>1
    <2>3. Key(q[1]) = "addSink" /\ Key(q[2]) = "negotiate" /\ Key(q[3]) = "parsed" /\ Key(q[4]) = "ready"
      BY <1>10 DEF Key
    <2>4. \A k \in 1..Len(q) : k = 1 \/ k = 2 \/ k = 3 \/ k = 4
      BY <1>10, Places
    <2>5. \A i \in 1..Len(q) : Key(q[i]) \in DemuxOps
      BY <1>7, <2>3, <2>4
    <2>6. ASSUME NEW k \in 1..Len(q), Key(q[k]) \in Parsing, NEW j \in 1..(k - 1) PROVE Key(q[j]) \in V
      <3>1. k # 4
        BY <1>7, <2>3, <2>6
      <3>2. j = 1 \/ j = 2
        BY <2>4, <2>6, <3>1
      <3> QED
        BY <1>7, <2>3, <3>2
    <2>7. Led(q, Parsing, V, {}, P)
      BY <2>2, <2>6 DEF Led
    <2>8. ASSUME NEW k \in 1..Len(q), Key(q[k]) \in {"negotiate"}
          PROVE  /\ \A j \in 1..(k - 1) : Key(q[j]) \in DemuxOps
                 /\ \E j \in 1..(k - 1) : Key(q[j]) \in {"addSink"}
      <3>1. k = 2
        BY <2>3, <2>4, <2>8
      <3> QED
        BY <1>10, <2>3, <2>5, <3>1
    <2>9. Led(q, {"negotiate"}, DemuxOps, {"addSink"}, K)
      BY <2>8 DEF Led
    <2>10. Key(Head(D)) \notin V
      BY <1>7, <2>1
    <2>11. Led(q \o Tail(D), Parsing, V, {}, P)
      BY <1>1, <1>6, <1>8, <2>7, <2>10, LedThen
    <2>12. Led(q \o Tail(D), {"negotiate"}, DemuxOps, {"addSink"}, K)
      BY <1>1, <1>5, <1>6, <1>8, <2>5, <2>9, LedThen
    <2> QED
      BY <1>8, <2>11, <2>12 DEF ParseOk, V, P, K
  <1>11. CASE At("demux", "top") /\ \A i \in 1..Len(q) : q[i][1] \notin Parsing
    <2>1. Len(D) = 1
      BY <1>1, <1>3, <1>7, <1>11
    <2>2. PICK r : r = q \o Tail(D)
      OBVIOUS
    <2>3. Len(r) = Len(q) + Len(D) - 1 /\ Len(q) \in Nat /\ \A i \in 1..Len(q) : r[i] = q[i]
      BY <1>1, <1>8, <2>2, ThenElements
    <2>4. \A i \in 1..Len(r) : i \in 1..Len(q) /\ r[i] = q[i]
      BY <2>1, <2>3
    <2>5. D' = r
      BY <1>8, <2>2
    <2>6. \A i \in 1..Len(D') : D'[i][1] \in DemuxOps
      BY DEF Typed, DemuxWords
    <2>7. \A i \in 1..Len(r) : Key(r[i]) \notin Parsing /\ Key(r[i]) \notin {"negotiate"}
      BY <1>2, <1>7, <1>11, <2>4, <2>5, <2>6
    <2>8. Led(r, Parsing, V, {}, P) /\ Led(r, {"negotiate"}, DemuxOps, {"addSink"}, K)
      BY <2>7, LedNone
    <2> QED
      BY <2>5, <2>8 DEF ParseOk, V, P, K
  <1> QED
    BY <1>8, <1>9, <1>10, <1>11

\* The client works on the sink while it is in the pipeline, and takes it away when it is stopped.
LEMMA UnusedClient ==
    ASSUME Typed, Begun, Calls, Unused, NEW s, Effect(s), WorkEffect
    PROVE  Unused'
  <1>1. C # <<>> /\ s = Head(C) /\ WordOk(s) /\ FilterEffect(s) /\ Program(C)
    BY DEF Effect, Typed
  <1>2. s = C[1] /\ 1 \in 1..Len(C)
    BY <1>1, ProgramElements
  <1>3. SUFFICES ASSUME "sink" \notin ToSet(core'.filters)
                 PROVE  Down' /\ \A k \in 1..Len(C') : ~SinkWork(C'[k])
    BY DEF Unused
  <1>4. SUFFICES Down' /\ \A j \in 1..Len(C) : ~SinkWork(C[j])
    BY <1>3 DEF WorkEffect
  <1>5. CASE "sink" \notin ToSet(core.filters)
    <2>1. Down /\ \A j \in 1..Len(C) : ~SinkWork(C[j])
      BY <1>5 DEF Unused
    <2>2. ~SinkWork(s)
      BY <1>2, <2>1
    <2>3. sink'.state = sink.state \/ sink'.state = "INITIALIZED"
      BY <1>1, <2>2 DEF FilterEffect, SinkWork, Works
    <2> QED
      BY <2>1, <2>3 DEF Down
  <1>6. CASE "sink" \in ToSet(core.filters)
    <2>1. s[1] = "coreRemove"
      <3>1. core'.filters # core.filters
        BY <1>3, <1>6
      <3>2. s[1] # "init"
        <4>1. s[1] = "init" => core.filters = <<>>
          BY <1>2 DEF Begun
        <4> QED
          BY <1>6, <4>1 DEF ToSet
      <3>3. s[1] # "corePrepare"
        BY <1>1, <1>3, <1>6, ReorderedIs DEF FilterEffect, Typed
      <3> QED
        BY <1>1, <3>1, <3>2, <3>3 DEF FilterEffect
    <2>2. call = "Stop" /\ Key(s) = "coreRemove"
      BY <1>2, <2>1 DEF Calls, NotStop, StopOps, Key
    <2>3. Led(C, {"coreRemove"}, StopKeys, {"coreStop", "sink"}, Down) /\ Stops(C)
      BY <2>2 DEF Calls, StopInv, StopLed
    <2>4. Down
      BY <1>1, <2>2, <2>3, LedHead
    <2>5. sink'.state = sink.state
      BY <1>1, <2>1 DEF FilterEffect
    <2>6. \A j \in 1..Len(C) : ~SinkWork(C[j])
      BY <2>3 DEF Stops, StopWord, SinkWork, Works
    <2> QED
      BY <2>4, <2>5, <2>6 DEF Down
  <1> QED
    BY <1>5, <1>6

\* The demuxer's thread adds the sink before it negotiates with it.
LEMMA UnusedDemux ==
    ASSUME Typed, ParseOk, Unused, DemuxEffect, PathEffect
    PROVE  Unused'
  <1>1. D # <<>> /\ Program(D)
    BY DEF DemuxEffect, Typed
  <1>2. SUFFICES ASSUME "sink" \notin ToSet(core'.filters)
                 PROVE  Down' /\ \A k \in 1..Len(C') : ~SinkWork(C'[k])
    BY DEF Unused
  <1>3. ~At("demux", "addSink") /\ core'.filters = core.filters
    BY <1>2 DEF PathEffect, SinkEffect
  <1>4. Down /\ \A k \in 1..Len(C) : ~SinkWork(C[k])
    BY <1>2, <1>3 DEF Unused
  <1>5. ~At("demux", "negotiate")
    <2>1. ASSUME Head(D)[1] = "negotiate" PROVE FALSE
      <3>1. Key(Head(D)) \in {"negotiate"}
        BY <2>1 DEF Key
      <3>2. Led(D, {"negotiate"}, DemuxOps, {"addSink"}, "sink" \in ToSet(core.filters))
        BY DEF ParseOk
      <3> DEFINE K == "sink" \in ToSet(core.filters)
      <3>3. Led(D, {"negotiate"}, DemuxOps, {"addSink"}, K)
        BY <3>2
      <3> HIDE DEF K
      <3>4. K
        BY <1>1, <3>1, <3>3, LedHead
      <3>5. "sink" \in ToSet(core.filters)
        BY <3>4 DEF K
      <3> QED
        BY <1>2, <1>3, <3>5
    <2> QED
      BY <2>1 DEF At, D
  <1>6. Down'
    BY <1>3, <1>4, <1>5 DEF PathEffect, SinkEffect, Down
  <1>7. CASE C' = C
    BY <1>4, <1>6, <1>7
  <1>8. CASE C' = <<<<"awaitReady", "">>>>
    <2>1. PICK a : C' = <<a>> /\ a[1] = "awaitReady"
      BY <1>8, Pairs, Zenon
    <2>2. Len(C') = 1 /\ C'[1] = a
      BY <2>1, ShortPrograms
    <2> QED
      BY <1>6, <2>1, <2>2 DEF SinkWork, Works
  <1> QED
    BY <1>7, <1>8 DEF DemuxEffect

\* A call works on no filter itself.
LEMMA UnusedCalled ==
    ASSUME Unused, CallEffect
    PROVE  Unused'
  <1>1. UNCHANGED <<core, sink>>
    BY Zenon DEF CallEffect
  <1>2. \A k \in 1..Len(C') : ~SinkWork(C'[k])
    <2>1. CASE C' = <<<<"init", "">>, <<"setSource", "">>>>
      <3>1. PICK a, b : C' = <<a, b>> /\ a[1] = "init" /\ b[1] = "setSource"
        <4>1. <<"init", "">>[1] = "init" /\ <<"setSource", "">>[1] = "setSource"
          BY Pairs, Zenon
        <4> QED
          BY <2>1, <4>1, Zenon
      <3>2. Len(C') = 2 /\ C'[1] = a /\ C'[2] = b
        BY <3>1, ShortPrograms
      <3> QED
        BY <3>1, <3>2 DEF SinkWork, Works
    <2>2. CASE CallProgram(C')
      BY <2>2 DEF CallProgram, SinkWork, Works
    <2>3. CASE C' = <<<<"stopTask", "">>, <<"coreStop", "">>, <<"setState", "STOPPED">>>>
      <3>1. PICK a, b, c : C' = <<a, b, c>> /\ a[1] = "stopTask" /\ b[1] = "coreStop" /\ c[1] = "setState"
        <4>1. /\ <<"stopTask", "">>[1] = "stopTask" /\ <<"coreStop", "">>[1] = "coreStop"
              /\ <<"setState", "STOPPED">>[1] = "setState"
          BY Pairs, Zenon
        <4> QED
          BY <2>3, <4>1, Zenon
      <3>2. Len(C') = 3 /\ C'[1] = a /\ C'[2] = b /\ C'[3] = c
        BY <3>1, LongerPrograms
      <3>3. \A k \in 1..Len(C') : k = 1 \/ k = 2 \/ k = 3
        BY <3>2
      <3> QED
        BY <3>1, <3>2, <3>3 DEF SinkWork, Works
    <2> QED
      BY <2>1, <2>2, <2>3, Zenon DEF CallEffect
  <1> QED
    BY <1>1, <1>2 DEF Unused, Down
-----------------------------------------------------------------------------
(* Who is blocked in the sink, and when the player is STOPPED.               *)

\* The client moves a thread that is blocked only by waking it.
LEMMA BlockedClient ==
    ASSUME Typed, Resting, Joined, Blocked, NEW s, Effect(s)
    PROVE  Blocked'
  <1>1. TaskEffect(s) /\ sink'.blocking = sink.blocking
    BY DEF Effect, FilterEffect
  <1>2. SUFFICES ASSUME sink.blocking PROVE D' # <<>> /\ Head(D')[1] \in Blocks
    BY <1>1 DEF Blocked
  <1>3. D # <<>> /\ Head(D)[1] \in Blocks /\ Program(D)
    BY <1>2 DEF Blocked, Typed
  <1>4. task.thread
    BY <1>3 DEF Resting, Joined
  <1>5. CASE D' = D
    BY <1>3, <1>5
  <1>6. CASE D' = <<<<"evaluate", Arg("demux")>>>> \o Tail(D)
    <2>1. PICK a : D' = <<a>> \o Tail(D) /\ a[1] = "evaluate"
      BY <1>6, Pairs, Zenon
    <2>2. PICK q, r : q = <<a>> /\ r = q \o Tail(D)
      OBVIOUS
    <2>3. Program(q) /\ Len(q) = 1 /\ q[1] = a
      BY <2>2, ShortPrograms
    <2>4. /\ Program(r) /\ Len(r) = Len(q) + Len(D) - 1 /\ Len(D) \in Nat /\ Len(D) >= 1
          /\ \A i \in 1..Len(q) : r[i] = q[i]
      BY <1>3, <2>2, <2>3, ThenElements
    <2>5. Len(r) >= 1 /\ r[1] = a
      BY <2>3, <2>4
    <2>6. r # <<>> /\ Head(r) = r[1]
      BY <2>4, <2>5, ProgramElements
    <2>7. a[1] \in Blocks
      BY <2>1 DEF Blocks
    <2> QED
      BY <2>1, <2>2, <2>5, <2>6, <2>7, Zenon
  <1> QED
    BY <1>1, <1>4, <1>5, <1>6 DEF TaskEffect

\* A thread that leaves the wait clears pushThreadIsBlocking.
LEMMA BlockedDemux ==
    ASSUME Blocked, PathEffect
    PROVE  Blocked'
  BY DEF Blocked, PathEffect, SinkEffect, At, D

\* The client leaves the state STOPPED when it sets the source, and reaches it at the end of Stop.
LEMMA FinishedClient ==
    ASSUME Typed, Calls, Finished, NEW s, Effect(s)
    PROVE  Finished'
  <1>1. C # <<>> /\ s = Head(C) /\ WordOk(s) /\ TaskEffect(s) /\ FilterEffect(s) /\ Program(C)
    BY DEF Effect, Typed
  <1>2. s = C[1] /\ 1 \in 1..Len(C)
    BY <1>1, ProgramElements
  <1>3. SUFFICES ASSUME player'.state = "STOPPED"
                 PROVE  \/ C' = <<>> /\ Dead' /\ SinkDone'
                        \/ C' # <<>> /\ Head(C')[1] = "setState" /\ Head(C')[2] # "STOPPED"
    BY DEF Finished, At, Arg, C
  <1>4. s[1] \notin {"failed", "event"}
    BY <1>1, <1>3 DEF FilterEffect
  <1>5. CASE s[1] = "setState"
    <2>1. s[2] = "STOPPED"
      BY <1>1, <1>3, <1>5 DEF FilterEffect
    <2>2. call = "Stop"
      BY <1>2, <1>5, <2>1 DEF Calls, NotStop
    <2>3. Stops(C) /\ Ends(C) /\ StopLed /\ Key(s) = "setState"
      BY <1>5, <2>2 DEF Calls, StopInv, Key
    <2>4. Len(C) = 1
      BY <1>2, <2>3 DEF Ends
    <2>5. /\ Led(C, EndKeys, StopKeys, {"coreStop", "taskStop", "join", "demuxer"}, Dead)
          /\ Led(C, EndKeys, StopKeys, {"coreStop", "sink"}, SinkDone)
          /\ Key(Head(C)) \in EndKeys
      BY <1>1, <2>3 DEF StopLed, EndKeys
    <2>6. Dead /\ SinkDone
      BY <1>1, <2>5, LedHead
    <2>7. StopWord(s)
      BY <1>2, <2>3 DEF Stops
    <2>8. Dead' /\ SinkDone'
      BY <1>1, <2>3, <2>6, <2>7, StopKeeps
    <2>9. PICK q : C' = q \o Tail(C) /\ q = <<>>
      BY <1>5 DEF Effect, GivesUp, ProgramEffect
    <2>10. PICK r : r = Tail(C)
      OBVIOUS
    <2>11. Program(r) /\ Len(r) = 0
      BY <1>1, <2>4, <2>10, ProgramElements
    <2>12. r = <<>> /\ <<>> \o r = r
      BY <2>11, ProgramElements
    <2> QED
      BY <2>8, <2>9, <2>10, <2>12
  <1>6. CASE s[1] # "setState"
    <2>1. player.state = "STOPPED"
      BY <1>1, <1>3, <1>4, <1>6 DEF FilterEffect
    <2>2. s[1] = "setSource"
      BY <1>1, <1>6, <2>1 DEF Finished, At, C
    <2>3. PICK q : Program(q) /\ C' = q \o Tail(C) /\ \E x \in {"ERROR", "INITIALIZED"} : q = <<<<"setState", x>>>>
      BY <2>2 DEF Effect, GivesUp, ProgramEffect
    <2>4. PICK a : q = <<a>> /\ a[1] = "setState" /\ a[2] # "STOPPED"
      <3>1. PICK x \in {"ERROR", "INITIALIZED"} : q = <<<<"setState", x>>>>
        BY <2>3
      <3>2. x # "STOPPED"
        BY <3>1
      <3> QED
        BY <3>1, <3>2, Pairs, Zenon
    <2>5. Len(q) = 1 /\ q[1] = a
      BY <2>4, ShortPrograms
    <2>6. PICK r : r = q \o Tail(C)
      OBVIOUS
    <2>7. /\ Program(r) /\ Len(r) = Len(q) + Len(C) - 1 /\ Len(C) \in Nat /\ Len(C) >= 1
          /\ \A i \in 1..Len(q) : r[i] = q[i]
      BY <1>1, <2>3, <2>6, ThenElements
    <2>8. Len(r) >= 1 /\ r[1] = a
      BY <2>5, <2>7
    <2>9. r # <<>> /\ Head(r) = r[1]
      BY <2>7, <2>8, ProgramElements
    <2> QED
      BY <2>3, <2>4, <2>6, <2>8, <2>9
  <1> QED
    BY <1>5, <1>6

\* No event reaches a player that is STOPPED with its thread gone.
LEMMA FinishedDemux ==
    ASSUME Typed, Resting, Finished, DemuxEffect
    PROVE  Finished'
  <1>1. SUFFICES ASSUME player'.state = "STOPPED"
                 PROVE  C' # <<>> /\ (Head(C')[1] = "setSource" \/ (Head(C')[1] = "setState" /\ Head(C')[2] # "STOPPED"))
    BY DEF Finished, At, Arg, C
  <1>2. player.state = "STOPPED"
    BY <1>1 DEF DemuxEffect, Told
  <1>3. ~Dead
    <2>1. D # <<>>
      BY DEF DemuxEffect
    <2>2. task.state # "STOPPED"
      BY <2>1 DEF Resting
    <2> QED
      BY <2>2 DEF Dead
  <1>4. C # <<>> /\ (Head(C)[1] = "setSource" \/ (Head(C)[1] = "setState" /\ Head(C)[2] # "STOPPED"))
    BY <1>2, <1>3 DEF Finished, At, Arg, C
  <1>5. C' = C
    BY <1>4 DEF DemuxEffect, At, C
  <1> QED
    BY <1>4, <1>5

\* The first thing that is called on a STOPPED player sets its source.
LEMMA FinishedCalled ==
    ASSUME Finished, CallEffect
    PROVE  Finished'
  <1>1. SUFFICES ASSUME player'.state = "STOPPED" PROVE C' # <<>> /\ Head(C')[1] = "setSource"
    BY DEF Finished, At, C
  <1>2. player.state = "STOPPED"
    BY <1>1, Zenon DEF CallEffect
  <1>3. CallProgram(C') /\ C'[1][1] = "setSource"
    BY <1>2 DEF CallEffect
  <1>4. Program(C') /\ Len(C') >= 2
    BY <1>3 DEF CallProgram
  <1>5. C' # <<>> /\ Head(C') = C'[1]
    BY <1>4, ProgramElements, ShortPrograms
  <1> QED
    BY <1>3, <1>5
-----------------------------------------------------------------------------
(* The invariant.                                                           *)

\* The invariant holds before SetSource.
LEMMA FreshInit ==
    ASSUME Init
    PROVE  FreshInv
  <1>1. /\ C = <<>> /\ D = <<>> /\ task.state = "STOPPED" /\ task.thread = FALSE
        /\ call = "none" /\ sink.state = "CREATED" /\ sink.blocking = FALSE /\ player.state = "IDLE"
    BY DEF Init, PathInit, C, D, Threads
  <1>2. Len(C) = 0 /\ Len(D) = 0
    BY <1>1, ShortPrograms
  <1>3. Calls
    BY <1>1, <1>2 DEF Calls, NotStop
  <1>4. Joined
    BY <1>1 DEF Joined
  <1>5. ParseOk
    BY <1>2 DEF ParseOk, Led
  <1>6. Unused
    BY <1>1, <1>2 DEF Unused, Down
  <1>7. Blocked /\ Finished
    BY <1>1 DEF Blocked, Finished
  <1> QED
    BY <1>3, <1>4, <1>5, <1>6, <1>7, QuietInit DEF FreshInv

\* Every step keeps the invariant.
LEMMA FreshNext ==
    ASSUME FreshInv, [Next]_vars
    PROVE  FreshInv'
  <1>1. /\ QuietInv /\ Calls /\ Joined /\ ParseOk /\ Unused /\ Blocked /\ Finished
        /\ Typed /\ Begun /\ Resting
    BY DEF FreshInv, QuietInv
  <1>2. QuietInv' /\ Typed'
    BY <1>1, QuietNext DEF QuietInv
  <1>3. CASE UNCHANGED vars
    <2>1. UNCHANGED <<prog, task, demuxer, sink, core, player, call>> /\ C' = C /\ D' = D
      BY <1>3 DEF vars, C, D
    <2>2. Dead' = Dead /\ Settled' = Settled /\ Down' = Down /\ SinkLeftOver' = SinkLeftOver
      BY <2>1 DEF Dead, Settled, Down, SinkLeftOver
    <2>3. SinkDone' = SinkDone /\ StopLed' = StopLed /\ JoinNext' = JoinNext
      BY <2>1, <2>2 DEF SinkDone, StopLed, JoinNext
    <2>4. Calls' /\ Joined'
      BY <1>1, <2>1, <2>3 DEF Calls, StopInv, Joined
    <2>5. ParseOk' /\ Unused'
      BY <1>1, <2>1, <2>2 DEF ParseOk, Unused
    <2>6. Blocked' /\ Finished'
      BY <1>1, <2>1, <2>2, <2>3 DEF Blocked, Finished, At, Arg
    <2> QED
      BY <1>2, <2>4, <2>5, <2>6 DEF FreshInv
  <1>4. CASE Step("client") \/ SpuriousReturn
    <2>1. PICK s : s = Head(C)
      OBVIOUS
    <2>2. Effect(s) /\ WorkEffect
      BY <1>1, <1>4, <2>1, ClientEffects, WorkEffects
    <2>3. Calls' /\ Joined'
      <3>1. call' = call
        BY <2>2 DEF Effect
      <3>2. CASE call = "Stop"
        <4>1. StopInv
          BY <1>1, <3>2 DEF Calls
        <4>2. StopInv' /\ Joined'
          BY <1>1, <2>2, <3>2, <4>1, StopClient
        <4> QED
          BY <3>1, <3>2, <4>2 DEF Calls
      <3>3. CASE call # "Stop"
        <4>1. NotStop(C)
          BY <1>1, <3>3 DEF Calls
        <4>2. NotStop(C') /\ Joined'
          BY <1>1, <2>2, <3>3, <4>1, OtherClient
        <4> QED
          BY <3>1, <3>3, <4>2 DEF Calls
      <3> QED
        BY <3>2, <3>3
    <2>4. ParseOk'
      BY <1>1, <2>2, ParseClient
    <2>5. Unused'
      BY <1>1, <2>2, UnusedClient
    <2>6. Blocked'
      BY <1>1, <2>2, BlockedClient
    <2>7. Finished'
      BY <1>1, <2>2, FinishedClient
    <2> QED
      BY <1>2, <2>3, <2>4, <2>5, <2>6, <2>7 DEF FreshInv
  <1>5. CASE Step("demux") \/ (SpuriousWakeup /\ UNCHANGED <<player, call>>)
    <2>1. DemuxEffect /\ PathEffect
      BY <1>1, <1>5, DemuxEffects, PathEffects
    <2>2. Calls' /\ Joined'
      BY <1>1, <2>1, StopDemux
    <2>3. ParseOk'
      BY <1>1, <1>2, <2>1, ParseDemux
    <2>4. Unused'
      BY <1>1, <2>1, UnusedDemux
    <2>5. Blocked' /\ Finished'
      BY <1>1, <2>1, BlockedDemux, FinishedDemux
    <2> QED
      BY <1>2, <2>2, <2>3, <2>4, <2>5 DEF FreshInv
  <1>6. CASE Call
    <2>1. CallEffect
      BY <1>1, <1>6, CallEffects
    <2>2. Calls' /\ Joined'
      BY <1>1, <2>1, StopCalled
    <2>3. D' = D /\ UNCHANGED <<demuxer, sink, core>>
      BY <2>1, Zenon DEF CallEffect
    <2>4. ParseOk' /\ Blocked'
      BY <1>1, <2>3 DEF ParseOk, Blocked
    <2>5. Unused' /\ Finished'
      BY <1>1, <2>1, UnusedCalled, FinishedCalled
    <2> QED
      BY <1>2, <2>2, <2>4, <2>5 DEF FreshInv
  <1> QED
    BY <1>3, <1>4, <1>5, <1>6 DEF Next, Threads

\* A player that is STOPPED with no call under way is fresh.
LEMMA FreshIs ==
    ASSUME FreshInv
    PROVE  StoppedIsFresh
  <1>1. SUFFICES ASSUME player.state = "STOPPED", C = <<>>
                 PROVE  /\ task = [state |-> "STOPPED", thread |-> FALSE] /\ ~sink.blocking
                        /\ sink.state \in {"CREATED", "INITIALIZED"} \/ SinkLeftOver
    BY DEF StoppedIsFresh, Idle, C
  <1>2. Dead /\ SinkDone
    BY <1>1 DEF FreshInv, Finished, At, C
  <1>3. D = <<>>
    <2>1. task.state = "STOPPED"
      BY <1>2 DEF Dead
    <2> QED
      BY <2>1 DEF FreshInv, QuietInv, Resting
  <1>4. ~sink.blocking
    <2>1. sink.blocking \in BOOLEAN
      BY DEF FreshInv, QuietInv, Typed
    <2> QED
      BY <1>3, <2>1 DEF FreshInv, Blocked
  <1> QED
    BY <1>2, <1>4 DEF Dead, SinkDone, Down

(* When Stop or Reset has returned, the demuxer's thread is joined, nobody is
   blocked in the sink, and the sink, if Stop reached it, takes no data: DoStop
   ends the thread while it parses, or stops the sink that it pushes into, and
   then the demuxer.  For any number of calls, frames and failures.         *)
THEOREM StopLeavesNothingRunning == Spec => []StoppedIsFresh
  <1>1. Init => FreshInv
    BY FreshInit
  <1>2. FreshInv /\ [Next]_vars => FreshInv'
    BY FreshNext
  <1>3. FreshInv => StoppedIsFresh
    BY FreshIs
  <1> QED
    BY <1>1, <1>2, <1>3, PTL DEF Spec
=============================================================================
