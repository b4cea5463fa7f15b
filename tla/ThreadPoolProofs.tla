-------------------------- MODULE ThreadPoolProofs --------------------------
(***************************************************************************)
(* Theorems about ThreadPool, for every set of threads, clients and jobs.  *)
(***************************************************************************)
EXTENDS ThreadPool, FiniteSetTheorems, SequenceTheorems, TLAPS

USE ThreadsAssumption, ClientsAssumption, NoneAssumption

-----------------------------------------------------------------------------
(* The inductive invariant, part by part. *)

(* jobqueue.len is the length of the list it stands beside. *)
LenInv == len = Len(queue)

(* Threads are at the labels of thread_do, clients at those of the API. *)
LabelInv ==
  /\ \A t \in Threads : pc[t] \in ThreadLabels
  /\ \A c \in Clients : pc[c] \in ClientLabels

(* A thread has a job from its pull to the end of the job's function. *)
JobInv == \A t \in Threads : job[t] # None <=> pc[t] \in {"pullpost", "run"}

TypeInv == TypeOK /\ LenInv /\ LabelInv /\ JobInv

LEMMA InitTypeInv == Init => TypeInv
<1> SUFFICES ASSUME Init PROVE TypeInv
  OBVIOUS
<1>1. \A p \in Procs : pc[p] = IF p \in Threads THEN "start" ELSE "init"
  BY DEF Init
<1>2. pc \in [Procs -> ThreadLabels \cup ClientLabels]
  BY DEF Init, Procs, ThreadLabels, ClientLabels
<1>3. queue \in Seq(Jobs) /\ LenInv BY DEF Init, LenInv
<1>4. job \in [Threads -> Jobs \cup {None}] /\ owed \in [Clients -> SUBSET Jobs]
  BY DEF Init
<1>5. TypeOK
  <2>1. keepalive \in BOOLEAN /\ freed \in BOOLEAN BY DEF Init
  <2>2. v \in {0, 1} /\ len \in Nat /\ alive \in Int /\ working \in Int BY DEF Init
  <2>3. /\ rwmutex \in Procs \cup {None} /\ thcount \in Procs \cup {None}
        /\ bsemWait \subseteq Threads /\ idleWait \subseteq Clients
        /\ finished \subseteq Jobs
    BY DEF Init
  <2> QED BY <1>2, <1>3, <1>4, <2>1, <2>2, <2>3 DEF TypeOK
<1>6. LabelInv BY <1>1 DEF LabelInv, Procs, ThreadLabels, ClientLabels
<1>7. JobInv BY <1>1 DEF JobInv, Init, Procs
<1> QED BY <1>3, <1>5, <1>6, <1>7 DEF TypeInv

(* The dequeue keeps queue a sequence of jobs and len its length. *)
LEMMA DequeueType ==
  ASSUME queue \in Seq(Jobs), len = Len(queue), Dequeue
  PROVE  /\ queue' \in Seq(Jobs) /\ len' = Len(queue') /\ len' \in Nat
         /\ Front \in Jobs \cup {None} /\ (Front # None <=> len > 0)
<1>1. CASE len = 0
  <2>1. queue = <<>> BY <1>1, EmptySeq
  <2> QED BY <1>1, <2>1 DEF Dequeue, Front
<1>2. CASE len > 0
  <2>1. queue # <<>> /\ Head(queue) \in Jobs BY <1>2, EmptySeq
  <2>2. Tail(queue) \in Seq(Jobs) /\ Len(Tail(queue)) = Len(queue) - 1 BY <1>2
  <2>3. Front \in Jobs BY <2>1 DEF Front
  <2>4. CASE len = 1 BY <2>3, <2>4 DEF Dequeue
  <2>5. CASE len > 1 BY <2>2, <2>3, <2>5 DEF Dequeue
  <2> QED BY <1>2, <2>4, <2>5
<1> QED BY <1>1, <1>2

LEMMA BsemPostType ==
  ASSUME bsemWait \subseteq Threads, BsemPost
  PROVE  v' = 1 /\ bsemWait' \subseteq bsemWait /\ bsemWait' # Threads
BY DEF BsemPost, Signalled

LEMMA ThreadTypeStep ==
  ASSUME TypeInv, NEW t \in Threads, ThreadStep(t)
  PROVE  TypeInv'
<1> USE DEF TypeInv, TypeOK, LenInv, LabelInv, JobInv, Procs, Go, queueVars, semVars,
            countVars, threadVars, ThreadLabels, ClientLabels
<1>1. CASE ThreadStart(t) BY <1>1 DEF ThreadStart
<1>2. CASE LoopTest(t) BY <1>2 DEF LoopTest
<1>3. CASE BsemSleep(t) BY <1>3 DEF BsemSleep
<1>4. CASE BsemTake(t) BY <1>4 DEF BsemTake
<1>5. CASE AliveTest(t) BY <1>5 DEF AliveTest
<1>6. CASE CountUp(t) BY <1>6 DEF CountUp
<1>7. CASE Pull(t) BY <1>7, DequeueType DEF Pull
<1>8. CASE PullPost(t) BY <1>8, BsemPostType DEF PullPost
<1>9. CASE RunJob(t) BY <1>9 DEF RunJob
<1>10. CASE CountDown(t) BY <1>10 DEF CountDown, Signalled
<1>11. CASE ThreadExit(t) BY <1>11 DEF ThreadExit
<1>12. CASE ThreadUnlock(t) BY <1>12 DEF ThreadUnlock
<1> QED BY <1>1, <1>2, <1>3, <1>4, <1>5, <1>6, <1>7, <1>8, <1>9, <1>10, <1>11,
           <1>12 DEF ThreadStep

LEMMA ClientTypeStep ==
  ASSUME TypeInv, NEW c \in Clients, ClientCall(c) \/ ClientStep(c)
  PROVE  TypeInv'
<1> USE DEF TypeInv, TypeOK, LenInv, LabelInv, JobInv, Procs, Go, queueVars, semVars,
            countVars, threadVars, ThreadLabels, ClientLabels
<1>1. ASSUME NEW j \in Jobs, AddWork(c, j) PROVE TypeInv'
  BY <1>1 DEF AddWork
<1>2. CASE WaitCall(c) BY <1>2 DEF WaitCall, Outstanding
<1>3. CASE DestroyCall(c) BY <1>3 DEF DestroyCall
<1>4. CASE PushPost(c) BY <1>4, BsemPostType DEF PushPost
<1>5. CASE WaitReadLen(c) BY <1>5 DEF WaitReadLen
<1>6. CASE WaitReadWorking(c) BY <1>6 DEF WaitReadWorking
<1>7. CASE WaitReturn(c) BY <1>7 DEF WaitReturn
<1>8. CASE DestroyPoll(c) BY <1>8 DEF DestroyPoll, BsemPostAll
<1>9. CASE DestroyPollEnd(c) BY <1>9 DEF DestroyPollEnd
<1>10. CASE ClearOne(c) BY <1>10, DequeueType, BsemPostType DEF ClearOne
<1>11. CASE ClearEnd(c) BY <1>11 DEF ClearEnd
<1>12. CASE FreePool(c) BY <1>12 DEF FreePool
<1> QED BY <1>1, <1>2, <1>3, <1>4, <1>5, <1>6, <1>7, <1>8, <1>9, <1>10, <1>11,
           <1>12 DEF ClientCall, ClientStep

LEMMA TypeStep == TypeInv /\ [Next]_vars => TypeInv'
<1> SUFFICES ASSUME TypeInv, [Next]_vars PROVE TypeInv'
  OBVIOUS
<1> USE DEF TypeInv, TypeOK, LenInv, LabelInv, JobInv, Procs, queueVars, semVars,
            countVars, threadVars, ThreadLabels, ClientLabels
<1>1. ASSUME NEW t \in Threads, ThreadStep(t) PROVE TypeInv'
  BY <1>1, ThreadTypeStep
<1>2. ASSUME NEW c \in Clients, ClientCall(c) \/ ClientStep(c) PROVE TypeInv'
  BY <1>2, ClientTypeStep
<1>3. CASE InitReturn BY <1>3 DEF InitReturn
<1>4. CASE SpuriousWake BY <1>4 DEF SpuriousWake
<1>5. CASE UNCHANGED vars BY <1>5 DEF vars
<1> QED BY <1>1, <1>2, <1>3, <1>4, <1>5 DEF Next

(* Every variable of the pool keeps its type, len is the length of the queue,
   and a thread has a job in hand exactly while it runs it. *)
THEOREM TypeCorrect == Spec => []TypeInv
BY InitTypeInv, TypeStep, PTL DEF Spec

(* The type invariant the runs check. *)
THEOREM TypesOK == Spec => []TypeOK
BY TypeCorrect, PTL DEF TypeInv

-----------------------------------------------------------------------------
(* The rest of the inductive invariant. *)

(* A lock is held exactly by the process inside a split section. *)
LockInv ==
  \A p \in Procs : /\ rwmutex = p <=> pc[p] \in {"post", "pullpost"}
                   /\ thcount = p <=> pc[p] \in {"wread", "unlock"}

(* Only a process at a condition wait sleeps on it. *)
SleepInv ==
  /\ \A t \in bsemWait : pc[t] = "bsem"
  /\ \A c \in idleWait : pc[c] = "wlock"

(* A job is in one place: once in the queue, in one thread's hand, or done. *)
OnceInv ==
  /\ \A i, k \in 1 .. Len(queue) : queue[i] = queue[k] => i = k
  /\ \A i \in 1 .. Len(queue) : queue[i] \notin finished
  /\ \A i \in 1 .. Len(queue), t \in Threads : job[t] # queue[i]
  /\ \A t, u \in Threads : job[t] = job[u] /\ job[t] # None => t = u
  /\ \A t \in Threads : job[t] \notin finished

(* No call is made before every thread has started. *)
ReadyInv ==
  \A c \in Clients : pc[c] # "init" =>
    /\ \A d \in Clients : pc[d] # "init"
    /\ \A t \in Threads : pc[t] # "start"

(* thpool_destroy runs alone, and goes past its polling only when every thread
   has left its loop. *)
DestroyInv ==
  \A c \in Clients : pc[c] \in {"poll", "clear", "free", "gone"} =>
    /\ \A d \in Clients \ {c} : pc[d] = "idle"
    /\ pc[c] # "poll" => \A t \in Threads : pc[t] \in {"unlock", "dead"}

(* It runs with keepalive cleared, unless something else sets it. *)
StoppedInv ==
  \A c \in Clients : pc[c] \in {"poll", "clear", "free", "gone"} => ~keepalive

FreedInv == freed => \E c \in Clients : pc[c] = "gone"

(* The threads at a set of labels, and how a step of one thread or of one
   client changes their number. *)
At(L) == {t \in Threads : pc[t] \in L}

Delta(L, from, to) ==
  IF to \in L THEN (IF from \in L THEN 0 ELSE 1)
              ELSE (IF from \in L THEN -1 ELSE 0)

LEMMA AtFinite ==
  ASSUME NEW L
  PROVE  /\ IsFiniteSet(At(L)) /\ At(L) \subseteq Threads
         /\ Cardinality(At(L)) \in Nat
<1>1. At(L) \subseteq Threads BY DEF At
<1>2. IsFiniteSet(At(L)) BY <1>1, FS_Subset DEF ThreadsAssumption
<1> QED BY <1>1, <1>2, FS_CardinalityType

LEMMA ThreadMove ==
  ASSUME TypeInv, NEW L, NEW t \in Threads, NEW from, NEW to, Go(t, from, to)
  PROVE  Cardinality(At(L))' = Cardinality(At(L)) + Delta(L, from, to)
<1>1. IsFiniteSet(At(L)) /\ Cardinality(At(L)) \in Nat BY AtFinite
<1>2. t \in At(L) <=> from \in L BY DEF At, Go
<1>3. CASE to \in L
  <2>1. At(L)' = At(L) \cup {t}
    BY <1>3 DEF At, Go, TypeInv, TypeOK, Procs
  <2>2. Cardinality(At(L) \cup {t}) =
          IF t \in At(L) THEN Cardinality(At(L)) ELSE Cardinality(At(L)) + 1
    BY <1>1, FS_AddElement
  <2>3. Delta(L, from, to) = IF t \in At(L) THEN 0 ELSE 1
    BY <1>2, <1>3 DEF Delta
  <2> QED BY <1>1, <2>1, <2>2, <2>3
<1>4. CASE to \notin L
  <2>1. At(L)' = At(L) \ {t}
    BY <1>4 DEF At, Go, TypeInv, TypeOK, Procs
  <2>2. Cardinality(At(L) \ {t}) =
          IF t \in At(L) THEN Cardinality(At(L)) - 1 ELSE Cardinality(At(L))
    BY <1>1, FS_RemoveElement
  <2>3. Delta(L, from, to) = IF t \in At(L) THEN -1 ELSE 0
    BY <1>2, <1>4 DEF Delta
  <2> QED BY <1>1, <2>1, <2>2, <2>3
<1> QED BY <1>3, <1>4

LEMMA ClientMove ==
  ASSUME TypeInv, NEW L, NEW c \in Clients, NEW from, NEW to, Go(c, from, to)
  PROVE  At(L)' = At(L)
BY DEF TypeInv, TypeOK, Procs, Go, At, ClientsAssumption

(* The counters, in terms of At. *)
CountLabels == {"pull", "pullpost", "run", "uncount"}
AliveLabels == {"loop", "bsem", "check", "count", "pull", "pullpost", "run",
                "uncount", "exit"}

CountInv == /\ working = Cardinality(At(CountLabels))
            /\ alive = Cardinality(At(AliveLabels))

(* What a step must do to the counters, given the labels it moves between. *)
LEMMA ThreadCounts ==
  ASSUME TypeInv, CountInv, NEW t \in Threads, NEW from, NEW to, Go(t, from, to),
         working' = working + Delta(CountLabels, from, to),
         alive' = alive + Delta(AliveLabels, from, to)
  PROVE  CountInv'
BY ThreadMove DEF CountInv

LEMMA ClientCounts ==
  ASSUME TypeInv, CountInv, NEW c \in Clients, NEW from, NEW to, Go(c, from, to),
         working' = working, alive' = alive
  PROVE  CountInv'
BY ClientMove DEF CountInv

LEMMA StillCounts ==
  ASSUME CountInv, \A t \in Threads : pc'[t] = pc[t], working' = working, alive' = alive
  PROVE  CountInv'
BY DEF CountInv, At

(* All threads counted means no thread is still to start; none counted means
   every thread is at the end. *)
LEMMA CountExtremes ==
  ASSUME TypeInv, CountInv
  PROVE  /\ alive = Cardinality(Threads) => \A t \in Threads : pc[t] \in AliveLabels
         /\ alive = 0 => \A t \in Threads : pc[t] \in {"start", "unlock", "dead"}
         /\ working = 0 => \A t \in Threads : pc[t] \notin CountLabels
<1>1. /\ IsFiniteSet(At(CountLabels)) /\ IsFiniteSet(At(AliveLabels))
      /\ At(AliveLabels) \subseteq Threads /\ IsFiniteSet(Threads)
  BY AtFinite DEF ThreadsAssumption
<1>2. alive = Cardinality(Threads) => At(AliveLabels) = Threads
  BY <1>1, FS_Subset DEF CountInv
<1>3. alive = 0 => At(AliveLabels) = {}
  BY <1>1, FS_EmptySet DEF CountInv
<1>4. working = 0 => At(CountLabels) = {}
  BY <1>1, FS_EmptySet DEF CountInv
<1> QED BY <1>2, <1>3, <1>4
    DEF At, TypeInv, LabelInv, ThreadLabels, CountLabels, AliveLabels

(* A client inside thpool_wait is owed only jobs that are still somewhere; once
   it has read len = 0, only running or finished ones; and none unfinished when
   it returns.  Nobody is owed anything outside thpool_wait. *)
OwedInv ==
  \A c \in Clients :
    /\ pc[c] \notin {"wlock", "wread", "wdone"} => owed[c] = {}
    /\ owed[c] \subseteq Outstanding \cup finished
    /\ pc[c] = "wread" => owed[c] \subseteq Running \cup finished
    /\ pc[c] = "wdone" => owed[c] \subseteq finished

Queued == {queue[i] : i \in 1 .. Len(queue)}

LEMMA AddWorkAppends ==
  ASSUME TypeInv, NEW c \in Clients, NEW j \in Jobs, AddWork(c, j)
  PROVE  queue' = Append(queue, j)
<1>1. CASE len = 0
  <2>1. queue = <<>> BY <1>1, EmptySeq DEF TypeInv, TypeOK, LenInv
  <2>2. Append(<<>>, j) = <<j>> OBVIOUS
  <2> QED BY <1>1, <2>1, <2>2 DEF AddWork
<1>2. CASE len # 0 BY <1>2 DEF AddWork
<1> QED BY <1>1, <1>2

(* What the dequeue does to the positions of the jobs left. *)
LEMMA DequeueShifts ==
  ASSUME TypeInv, Dequeue
  PROVE  /\ len > 0 => /\ Len(queue') = Len(queue) - 1
                       /\ \A i \in 1 .. Len(queue') : queue'[i] = queue[i + 1]
                       /\ queue[1] \in Jobs /\ Front = queue[1]
         /\ ~(len > 0) => queue' = queue /\ Front = None
<1> USE DEF TypeInv, TypeOK, LenInv
<1>1. CASE len = 0
  <2>1. queue = <<>> BY <1>1, EmptySeq
  <2> QED BY <1>1, <2>1 DEF Dequeue, Front
<1>2. CASE len > 0
  <2>1. queue # <<>> /\ Head(queue) = queue[1] /\ queue[1] \in Jobs BY <1>2, EmptySeq
  <2>2. /\ Len(Tail(queue)) = Len(queue) - 1
        /\ \A i \in 1 .. Len(Tail(queue)) : Tail(queue)[i] = queue[i + 1]
    BY <1>2
  <2>3. CASE len > 1
    <3>1. queue' = Tail(queue) BY <2>3, SMTT(30) DEF Dequeue
    <3> QED BY <1>2, <2>1, <2>2, <3>1 DEF Front
  <2>4. CASE len = 1
    <3>1. queue' = <<>> /\ Len(<<>>) = 0 BY <2>4 DEF Dequeue
    <3> QED BY <2>1, <2>4, <3>1 DEF Front
  <2> QED BY <1>2, <2>3, <2>4
<1> QED BY <1>1, <1>2

(* What a pull moves: the first element of the queue into the thread's hand. *)
LEMMA PullMoves ==
  ASSUME TypeInv, NEW t \in Threads, Pull(t)
  PROVE  /\ len > 0 => /\ Len(queue') = Len(queue) - 1
                       /\ \A i \in 1 .. Len(queue') : queue'[i] = queue[i + 1]
                       /\ job' = [job EXCEPT ![t] = queue[1]]
                       /\ queue[1] \in Jobs
         /\ ~(len > 0) => queue' = queue /\ job' = job
         /\ job[t] = None /\ finished' = finished /\ owed' = owed
<1>1. job[t] = None BY DEF Pull, Go, JobInv, TypeInv
<1>2. Dequeue /\ job' = [job EXCEPT ![t] = Front] /\ finished' = finished /\ owed' = owed
  BY DEF Pull
<1>3. [job EXCEPT ![t] = None] = job BY <1>1 DEF TypeInv, TypeOK
<1> QED BY <1>1, <1>2, <1>3, DequeueShifts

(* Where jobs are before and after a step. *)
LEMMA SamePlaces ==
  ASSUME queue' = queue, job' = job
  PROVE  Outstanding' = Outstanding /\ Running' = Running
BY DEF Outstanding, Running

LEMMA PullPlaces ==
  ASSUME TypeInv, NEW t \in Threads, Pull(t)
  PROVE  Outstanding \subseteq Outstanding' /\ Running \subseteq Running'
<1>1. CASE len > 0
  <2>1. /\ Len(queue') = Len(queue) - 1 /\ Len(queue) \in Nat /\ Len(queue) > 0
        /\ \A i \in 1 .. Len(queue') : queue'[i] = queue[i + 1]
        /\ \A u \in Threads : job'[u] = IF u = t THEN queue[1] ELSE job[u]
        /\ job[t] = None /\ queue[1] # None
    BY <1>1, PullMoves, NoneAssumption DEF TypeInv, TypeOK, LenInv, NoneAssumption
  <2>2. Running \subseteq Running' BY <2>1 DEF Running
  <2>3. queue[1] \in Running' BY <2>1 DEF Running
  <2>4. ASSUME NEW i \in 1 .. Len(queue) PROVE queue[i] \in Queued' \cup Running'
    <3>1. CASE i = 1 BY <2>3, <3>1
    <3>2. CASE i # 1
      <4>1. i - 1 \in 1 .. Len(queue') /\ (i - 1) + 1 = i BY <2>1, <3>2
      <4>2. queue'[i - 1] = queue[i] BY <2>1, <4>1
      <4> QED BY <4>1, <4>2 DEF Queued
    <3> QED BY <3>1, <3>2
  <2> QED BY <2>2, <2>4 DEF Outstanding, Running, Queued
<1>2. CASE ~(len > 0) BY <1>2, PullMoves, SamePlaces
<1> QED BY <1>1, <1>2

LEMMA RunPlaces ==
  ASSUME TypeInv, NEW t \in Threads, RunJob(t)
  PROVE  /\ Outstanding \cup finished \subseteq Outstanding' \cup finished'
         /\ Running \cup finished \subseteq Running' \cup finished'
<1>1. /\ \A u \in Threads : job'[u] = IF u = t THEN None ELSE job[u]
      /\ finished' = finished \cup {job[t]} /\ queue' = queue
  BY DEF RunJob, TypeInv, TypeOK, queueVars
<1> QED BY <1>1 DEF Outstanding, Running

LEMMA AddPlaces ==
  ASSUME TypeInv, NEW c \in Clients, NEW j \in Jobs, AddWork(c, j)
  PROVE  Outstanding \subseteq Outstanding' /\ Running' = Running /\ owed' = owed
         /\ finished' = finished
<1>1. /\ Len(queue') = Len(queue) + 1 /\ Len(queue) \in Nat
      /\ \A i \in 1 .. Len(queue) : queue'[i] = queue[i]
  BY AddWorkAppends DEF TypeInv, TypeOK
<1>2. job' = job /\ owed' = owed /\ finished' = finished BY DEF AddWork, threadVars
<1>3. \A i \in 1 .. Len(queue) : i \in 1 .. Len(queue') BY <1>1
<1> QED BY <1>1, <1>2, <1>3 DEF Outstanding, Running

LEMMA EmptyPlaces ==
  ASSUME TypeInv, len = 0
  PROVE  Outstanding = Running
<1>1. 1 .. Len(queue) = {} BY DEF TypeInv, LenInv
<1> QED BY <1>1 DEF Outstanding, Running

LEMMA NobodyRuns ==
  ASSUME TypeInv, CountInv, working = 0
  PROVE  Running = {}
BY CountExtremes DEF Running, TypeInv, JobInv, CountLabels

LEMMA LockStep == TypeInv /\ LockInv /\ [Next]_vars => LockInv'
<1> SUFFICES ASSUME TypeInv, LockInv, [Next]_vars PROVE LockInv'
  OBVIOUS
<1> USE DEF LockInv, TypeInv, TypeOK, LabelInv, Procs, Go, queueVars, semVars,
            countVars, threadVars, ThreadLabels, ClientLabels
<1>1. ASSUME NEW t \in Threads, ThreadStep(t) PROVE LockInv'
  <2>1. CASE ThreadStart(t) BY <2>1 DEF ThreadStart
  <2>2. CASE LoopTest(t) BY <2>2 DEF LoopTest
  <2>3. CASE BsemSleep(t) BY <2>3 DEF BsemSleep
  <2>4. CASE BsemTake(t) BY <2>4 DEF BsemTake
  <2>5. CASE AliveTest(t) BY <2>5 DEF AliveTest
  <2>6. CASE CountUp(t) BY <2>6 DEF CountUp
  <2>7. CASE Pull(t)
    <3>1. CASE len > 1 BY <2>7, <3>1 DEF Pull, Dequeue
    <3>2. CASE ~(len > 1) BY <2>7, <3>2 DEF Pull, Dequeue
    <3> QED BY <3>1, <3>2
  <2>8. CASE PullPost(t) BY <2>8 DEF PullPost
  <2>9. CASE RunJob(t) BY <2>9 DEF RunJob
  <2>10. CASE CountDown(t) BY <2>10 DEF CountDown
  <2>11. CASE ThreadExit(t) BY <2>11 DEF ThreadExit
  <2>12. CASE ThreadUnlock(t) BY <2>12 DEF ThreadUnlock
  <2> QED BY <1>1, <2>1, <2>2, <2>3, <2>4, <2>5, <2>6, <2>7, <2>8, <2>9, <2>10, <2>11, <2>12
         DEF ThreadStep
<1>2. ASSUME NEW c \in Clients, ClientCall(c) \/ ClientStep(c) PROVE LockInv'
  <2>1. ASSUME NEW j \in Jobs, AddWork(c, j) PROVE LockInv' BY <2>1 DEF AddWork
  <2>2. CASE WaitCall(c) BY <2>2 DEF WaitCall
  <2>3. CASE DestroyCall(c) BY <2>3 DEF DestroyCall
  <2>4. CASE PushPost(c) BY <2>4 DEF PushPost
  <2>5. CASE WaitReadLen(c) BY <2>5 DEF WaitReadLen
  <2>6. CASE WaitReadWorking(c) BY <2>6 DEF WaitReadWorking
  <2>7. CASE WaitReturn(c) BY <2>7 DEF WaitReturn
  <2>8. CASE DestroyPoll(c) BY <2>8 DEF DestroyPoll
  <2>9. CASE DestroyPollEnd(c) BY <2>9 DEF DestroyPollEnd
  <2>10. CASE ClearOne(c) BY <2>10 DEF ClearOne
  <2>11. CASE ClearEnd(c) BY <2>11 DEF ClearEnd
  <2>12. CASE FreePool(c) BY <2>12 DEF FreePool
  <2> QED BY <1>2, <2>1, <2>2, <2>3, <2>4, <2>5, <2>6, <2>7, <2>8, <2>9, <2>10, <2>11, <2>12
         DEF ClientCall, ClientStep
<1>3. CASE InitReturn BY <1>3 DEF InitReturn
<1>4. CASE SpuriousWake BY <1>4 DEF SpuriousWake
<1>5. CASE UNCHANGED vars BY <1>5 DEF vars
<1> QED BY <1>1, <1>2, <1>3, <1>4, <1>5 DEF Next

LEMMA SleepStep == TypeInv /\ SleepInv /\ [Next]_vars => SleepInv'
<1> SUFFICES ASSUME TypeInv, SleepInv, [Next]_vars PROVE SleepInv'
  OBVIOUS
<1> USE DEF SleepInv, TypeInv, TypeOK, LabelInv, Procs, Go, queueVars, semVars,
            countVars, threadVars, ThreadLabels, ClientLabels
<1>1. ASSUME NEW t \in Threads, ThreadStep(t) PROVE SleepInv'
  <2>1. CASE ThreadStart(t) BY <2>1 DEF ThreadStart
  <2>2. CASE LoopTest(t) BY <2>2 DEF LoopTest
  <2>3. CASE BsemSleep(t) BY <2>3 DEF BsemSleep
  <2>4. CASE BsemTake(t) BY <2>4 DEF BsemTake
  <2>5. CASE AliveTest(t) BY <2>5 DEF AliveTest
  <2>6. CASE CountUp(t) BY <2>6 DEF CountUp
  <2>7. CASE Pull(t) BY <2>7 DEF Pull
  <2>8. CASE PullPost(t) BY <2>8 DEF PullPost, BsemPost, Signalled
  <2>9. CASE RunJob(t) BY <2>9 DEF RunJob
  <2>10. CASE CountDown(t) BY <2>10 DEF CountDown, Signalled
  <2>11. CASE ThreadExit(t) BY <2>11 DEF ThreadExit
  <2>12. CASE ThreadUnlock(t) BY <2>12 DEF ThreadUnlock
  <2> QED BY <1>1, <2>1, <2>2, <2>3, <2>4, <2>5, <2>6, <2>7, <2>8, <2>9, <2>10, <2>11, <2>12
         DEF ThreadStep
<1>2. ASSUME NEW c \in Clients, ClientCall(c) \/ ClientStep(c) PROVE SleepInv'
  <2>1. ASSUME NEW j \in Jobs, AddWork(c, j) PROVE SleepInv' BY <2>1 DEF AddWork
  <2>2. CASE WaitCall(c) BY <2>2 DEF WaitCall
  <2>3. CASE DestroyCall(c) BY <2>3 DEF DestroyCall
  <2>4. CASE PushPost(c) BY <2>4 DEF PushPost, BsemPost, Signalled
  <2>5. CASE WaitReadLen(c) BY <2>5 DEF WaitReadLen
  <2>6. CASE WaitReadWorking(c) BY <2>6 DEF WaitReadWorking
  <2>7. CASE WaitReturn(c) BY <2>7 DEF WaitReturn
  <2>8. CASE DestroyPoll(c) BY <2>8 DEF DestroyPoll, BsemPostAll
  <2>9. CASE DestroyPollEnd(c) BY <2>9 DEF DestroyPollEnd
  <2>10. CASE ClearOne(c) BY <2>10 DEF ClearOne, BsemPost, Signalled
  <2>11. CASE ClearEnd(c) BY <2>11 DEF ClearEnd
  <2>12. CASE FreePool(c) BY <2>12 DEF FreePool
  <2> QED BY <1>2, <2>1, <2>2, <2>3, <2>4, <2>5, <2>6, <2>7, <2>8, <2>9, <2>10, <2>11, <2>12
         DEF ClientCall, ClientStep
<1>3. CASE InitReturn BY <1>3 DEF InitReturn
<1>4. CASE SpuriousWake BY <1>4 DEF SpuriousWake
<1>5. CASE UNCHANGED vars BY <1>5 DEF vars
<1> QED BY <1>1, <1>2, <1>3, <1>4, <1>5 DEF Next

LEMMA CountStep == TypeInv /\ CountInv /\ [Next]_vars => CountInv'
<1> SUFFICES ASSUME TypeInv, CountInv, [Next]_vars PROVE CountInv'
  OBVIOUS
<1> USE DEF countVars, CountLabels, AliveLabels, Delta, TypeInv, TypeOK, Procs
<1>1. ASSUME NEW t \in Threads, ThreadStep(t) PROVE CountInv'
  <2>1. CASE ThreadStart(t) BY <2>1, ThreadCounts DEF ThreadStart
  <2>2. CASE LoopTest(t) BY <2>2, ThreadCounts DEF LoopTest
  <2>3. CASE BsemSleep(t) BY <2>3, StillCounts DEF BsemSleep
  <2>4. CASE BsemTake(t) BY <2>4, ThreadCounts DEF BsemTake
  <2>5. CASE AliveTest(t) BY <2>5, ThreadCounts DEF AliveTest
  <2>6. CASE CountUp(t) BY <2>6, ThreadCounts DEF CountUp
  <2>7. CASE Pull(t) BY <2>7, ThreadCounts DEF Pull
  <2>8. CASE PullPost(t) BY <2>8, ThreadCounts DEF PullPost
  <2>9. CASE RunJob(t) BY <2>9, ThreadCounts DEF RunJob
  <2>10. CASE CountDown(t) BY <2>10, ThreadCounts DEF CountDown
  <2>11. CASE ThreadExit(t) BY <2>11, ThreadCounts DEF ThreadExit
  <2>12. CASE ThreadUnlock(t) BY <2>12, ThreadCounts DEF ThreadUnlock
  <2> QED BY <1>1, <2>1, <2>2, <2>3, <2>4, <2>5, <2>6, <2>7, <2>8, <2>9, <2>10, <2>11, <2>12
         DEF ThreadStep
<1>2. ASSUME NEW c \in Clients, ClientCall(c) \/ ClientStep(c) PROVE CountInv'
  <2>1. ASSUME NEW j \in Jobs, AddWork(c, j) PROVE CountInv'
    BY <2>1, ClientCounts DEF AddWork
  <2>2. CASE WaitCall(c) BY <2>2, ClientCounts DEF WaitCall
  <2>3. CASE DestroyCall(c) BY <2>3, ClientCounts DEF DestroyCall
  <2>4. CASE PushPost(c) BY <2>4, ClientCounts DEF PushPost
  <2>5. CASE WaitReadLen(c) BY <2>5, ClientCounts, StillCounts DEF WaitReadLen
  <2>6. CASE WaitReadWorking(c) BY <2>6, ClientCounts DEF WaitReadWorking
  <2>7. CASE WaitReturn(c) BY <2>7, ClientCounts DEF WaitReturn
  <2>8. CASE DestroyPoll(c) BY <2>8, StillCounts DEF DestroyPoll
  <2>9. CASE DestroyPollEnd(c) BY <2>9, ClientCounts DEF DestroyPollEnd
  <2>10. CASE ClearOne(c) BY <2>10, StillCounts DEF ClearOne
  <2>11. CASE ClearEnd(c) BY <2>11, ClientCounts DEF ClearEnd
  <2>12. CASE FreePool(c) BY <2>12, ClientCounts DEF FreePool
  <2> QED BY <1>2, <2>1, <2>2, <2>3, <2>4, <2>5, <2>6, <2>7, <2>8, <2>9, <2>10, <2>11, <2>12
         DEF ClientCall, ClientStep
<1>3. CASE InitReturn BY <1>3, StillCounts DEF InitReturn
<1>4. CASE SpuriousWake BY <1>4, StillCounts DEF SpuriousWake
<1>5. CASE UNCHANGED vars BY <1>5, StillCounts DEF vars
<1> QED BY <1>1, <1>2, <1>3, <1>4, <1>5 DEF Next

LEMMA ReadyStep == TypeInv /\ CountInv /\ ReadyInv /\ [Next]_vars => ReadyInv'
<1> SUFFICES ASSUME TypeInv, CountInv, ReadyInv, [Next]_vars PROVE ReadyInv'
  OBVIOUS
<1> USE DEF ReadyInv, TypeInv, TypeOK, LabelInv, Procs, Go, queueVars, semVars,
            countVars, threadVars, ThreadLabels, ClientLabels
<1>1. ASSUME NEW t \in Threads, ThreadStep(t) PROVE ReadyInv'
  <2>1. CASE ThreadStart(t) BY <2>1 DEF ThreadStart
  <2>2. CASE LoopTest(t) BY <2>2 DEF LoopTest
  <2>3. CASE BsemSleep(t) BY <2>3 DEF BsemSleep
  <2>4. CASE BsemTake(t) BY <2>4 DEF BsemTake
  <2>5. CASE AliveTest(t) BY <2>5 DEF AliveTest
  <2>6. CASE CountUp(t) BY <2>6 DEF CountUp
  <2>7. CASE Pull(t) BY <2>7 DEF Pull
  <2>8. CASE PullPost(t) BY <2>8 DEF PullPost
  <2>9. CASE RunJob(t) BY <2>9 DEF RunJob
  <2>10. CASE CountDown(t) BY <2>10 DEF CountDown
  <2>11. CASE ThreadExit(t) BY <2>11 DEF ThreadExit
  <2>12. CASE ThreadUnlock(t) BY <2>12 DEF ThreadUnlock
  <2> QED BY <1>1, <2>1, <2>2, <2>3, <2>4, <2>5, <2>6, <2>7, <2>8, <2>9, <2>10, <2>11, <2>12
         DEF ThreadStep
<1>2. ASSUME NEW c \in Clients, ClientCall(c) \/ ClientStep(c) PROVE ReadyInv'
  <2>1. ASSUME NEW j \in Jobs, AddWork(c, j) PROVE ReadyInv' BY <2>1 DEF AddWork
  <2>2. CASE WaitCall(c) BY <2>2 DEF WaitCall
  <2>3. CASE DestroyCall(c) BY <2>3 DEF DestroyCall
  <2>4. CASE PushPost(c) BY <2>4 DEF PushPost
  <2>5. CASE WaitReadLen(c) BY <2>5 DEF WaitReadLen
  <2>6. CASE WaitReadWorking(c) BY <2>6 DEF WaitReadWorking
  <2>7. CASE WaitReturn(c) BY <2>7 DEF WaitReturn
  <2>8. CASE DestroyPoll(c) BY <2>8 DEF DestroyPoll
  <2>9. CASE DestroyPollEnd(c) BY <2>9 DEF DestroyPollEnd
  <2>10. CASE ClearOne(c) BY <2>10 DEF ClearOne
  <2>11. CASE ClearEnd(c) BY <2>11 DEF ClearEnd
  <2>12. CASE FreePool(c) BY <2>12 DEF FreePool
  <2> QED BY <1>2, <2>1, <2>2, <2>3, <2>4, <2>5, <2>6, <2>7, <2>8, <2>9, <2>10, <2>11, <2>12
         DEF ClientCall, ClientStep
<1>3. CASE InitReturn BY <1>3, CountExtremes DEF InitReturn, AliveLabels
<1>4. CASE SpuriousWake BY <1>4 DEF SpuriousWake
<1>5. CASE UNCHANGED vars BY <1>5 DEF vars
<1> QED BY <1>1, <1>2, <1>3, <1>4, <1>5 DEF Next

LEMMA DestroyStep == TypeInv /\ CountInv /\ ReadyInv /\ DestroyInv /\ [Next]_vars => DestroyInv'
<1> SUFFICES ASSUME TypeInv, CountInv, ReadyInv, DestroyInv, [Next]_vars PROVE DestroyInv'
  OBVIOUS
<1> USE DEF DestroyInv, TypeInv, TypeOK, LabelInv, Procs, Go, queueVars, semVars,
            countVars, threadVars, ThreadLabels, ClientLabels
<1>1. ASSUME NEW t \in Threads, ThreadStep(t) PROVE DestroyInv'
  <2>1. CASE ThreadStart(t) BY <2>1 DEF ThreadStart
  <2>2. CASE LoopTest(t) BY <2>2 DEF LoopTest
  <2>3. CASE BsemSleep(t) BY <2>3 DEF BsemSleep
  <2>4. CASE BsemTake(t) BY <2>4 DEF BsemTake
  <2>5. CASE AliveTest(t) BY <2>5 DEF AliveTest
  <2>6. CASE CountUp(t) BY <2>6 DEF CountUp
  <2>7. CASE Pull(t) BY <2>7 DEF Pull
  <2>8. CASE PullPost(t) BY <2>8 DEF PullPost
  <2>9. CASE RunJob(t) BY <2>9 DEF RunJob
  <2>10. CASE CountDown(t) BY <2>10 DEF CountDown
  <2>11. CASE ThreadExit(t) BY <2>11 DEF ThreadExit
  <2>12. CASE ThreadUnlock(t) BY <2>12 DEF ThreadUnlock
  <2> QED BY <1>1, <2>1, <2>2, <2>3, <2>4, <2>5, <2>6, <2>7, <2>8, <2>9, <2>10, <2>11, <2>12
         DEF ThreadStep
<1>2. ASSUME NEW c \in Clients, ClientCall(c) \/ ClientStep(c) PROVE DestroyInv'
  <2>1. ASSUME NEW j \in Jobs, AddWork(c, j) PROVE DestroyInv'
    BY <2>1 DEF AddWork, Destroying
  <2>2. CASE WaitCall(c) BY <2>2 DEF WaitCall, Destroying
  <2>3. CASE DestroyCall(c) BY <2>3 DEF DestroyCall
  <2>4. CASE PushPost(c) BY <2>4 DEF PushPost
  <2>5. CASE WaitReadLen(c) BY <2>5 DEF WaitReadLen
  <2>6. CASE WaitReadWorking(c) BY <2>6 DEF WaitReadWorking
  <2>7. CASE WaitReturn(c) BY <2>7 DEF WaitReturn
  <2>8. CASE DestroyPoll(c) BY <2>8 DEF DestroyPoll
  <2>9. CASE DestroyPollEnd(c) BY <2>9, CountExtremes DEF DestroyPollEnd, ReadyInv
  <2>10. CASE ClearOne(c) BY <2>10 DEF ClearOne
  <2>11. CASE ClearEnd(c) BY <2>11 DEF ClearEnd
  <2>12. CASE FreePool(c) BY <2>12 DEF FreePool
  <2> QED BY <1>2, <2>1, <2>2, <2>3, <2>4, <2>5, <2>6, <2>7, <2>8, <2>9, <2>10, <2>11, <2>12
         DEF ClientCall, ClientStep
<1>3. CASE InitReturn BY <1>3 DEF InitReturn
<1>4. CASE SpuriousWake BY <1>4 DEF SpuriousWake
<1>5. CASE UNCHANGED vars BY <1>5 DEF vars
<1> QED BY <1>1, <1>2, <1>3, <1>4, <1>5 DEF Next

LEMMA FreedStep == TypeInv /\ FreedInv /\ [Next]_vars => FreedInv'
<1> SUFFICES ASSUME TypeInv, FreedInv, [Next]_vars PROVE FreedInv'
  OBVIOUS
<1> USE DEF FreedInv, TypeInv, TypeOK, LabelInv, Procs, Go, queueVars, semVars,
            countVars, threadVars, ThreadLabels, ClientLabels
<1>1. ASSUME NEW t \in Threads, ThreadStep(t) PROVE FreedInv'
  <2>1. CASE ThreadStart(t) BY <2>1 DEF ThreadStart
  <2>2. CASE LoopTest(t) BY <2>2 DEF LoopTest
  <2>3. CASE BsemSleep(t) BY <2>3 DEF BsemSleep
  <2>4. CASE BsemTake(t) BY <2>4 DEF BsemTake
  <2>5. CASE AliveTest(t) BY <2>5 DEF AliveTest
  <2>6. CASE CountUp(t) BY <2>6 DEF CountUp
  <2>7. CASE Pull(t) BY <2>7 DEF Pull
  <2>8. CASE PullPost(t) BY <2>8 DEF PullPost
  <2>9. CASE RunJob(t) BY <2>9 DEF RunJob
  <2>10. CASE CountDown(t) BY <2>10 DEF CountDown
  <2>11. CASE ThreadExit(t) BY <2>11 DEF ThreadExit
  <2>12. CASE ThreadUnlock(t) BY <2>12 DEF ThreadUnlock
  <2> QED BY <1>1, <2>1, <2>2, <2>3, <2>4, <2>5, <2>6, <2>7, <2>8, <2>9, <2>10, <2>11, <2>12
         DEF ThreadStep
<1>2. ASSUME NEW c \in Clients, ClientCall(c) \/ ClientStep(c) PROVE FreedInv'
  <2>1. ASSUME NEW j \in Jobs, AddWork(c, j) PROVE FreedInv' BY <2>1 DEF AddWork
  <2>2. CASE WaitCall(c) BY <2>2 DEF WaitCall
  <2>3. CASE DestroyCall(c) BY <2>3 DEF DestroyCall
  <2>4. CASE PushPost(c) BY <2>4 DEF PushPost
  <2>5. CASE WaitReadLen(c) BY <2>5 DEF WaitReadLen
  <2>6. CASE WaitReadWorking(c) BY <2>6 DEF WaitReadWorking
  <2>7. CASE WaitReturn(c) BY <2>7 DEF WaitReturn
  <2>8. CASE DestroyPoll(c) BY <2>8 DEF DestroyPoll
  <2>9. CASE DestroyPollEnd(c) BY <2>9 DEF DestroyPollEnd
  <2>10. CASE ClearOne(c) BY <2>10 DEF ClearOne
  <2>11. CASE ClearEnd(c) BY <2>11 DEF ClearEnd
  <2>12. CASE FreePool(c) BY <2>12 DEF FreePool
  <2> QED BY <1>2, <2>1, <2>2, <2>3, <2>4, <2>5, <2>6, <2>7, <2>8, <2>9, <2>10, <2>11, <2>12
         DEF ClientCall, ClientStep
<1>3. CASE InitReturn BY <1>3 DEF InitReturn
<1>4. CASE SpuriousWake BY <1>4 DEF SpuriousWake
<1>5. CASE UNCHANGED vars BY <1>5 DEF vars
<1> QED BY <1>1, <1>2, <1>3, <1>4, <1>5 DEF Next

LEMMA StoppedStep == TypeInv /\ StoppedInv /\ [Next]_vars => StoppedInv'
<1> SUFFICES ASSUME TypeInv, StoppedInv, [Next]_vars PROVE StoppedInv'
  OBVIOUS
<1> USE DEF StoppedInv, TypeInv, TypeOK, LabelInv, Procs, Go, queueVars, semVars,
            countVars, threadVars, ThreadLabels, ClientLabels
<1>1. ASSUME NEW t \in Threads, ThreadStep(t) PROVE StoppedInv'
  <2>1. CASE ThreadStart(t) BY <2>1 DEF ThreadStart
  <2>2. CASE LoopTest(t) BY <2>2 DEF LoopTest
  <2>3. CASE BsemSleep(t) BY <2>3 DEF BsemSleep
  <2>4. CASE BsemTake(t) BY <2>4 DEF BsemTake
  <2>5. CASE AliveTest(t) BY <2>5 DEF AliveTest
  <2>6. CASE CountUp(t) BY <2>6 DEF CountUp
  <2>7. CASE Pull(t) BY <2>7 DEF Pull
  <2>8. CASE PullPost(t) BY <2>8 DEF PullPost
  <2>9. CASE RunJob(t) BY <2>9 DEF RunJob
  <2>10. CASE CountDown(t) BY <2>10 DEF CountDown
  <2>11. CASE ThreadExit(t) BY <2>11 DEF ThreadExit
  <2>12. CASE ThreadUnlock(t) BY <2>12 DEF ThreadUnlock
  <2> QED BY <1>1, <2>1, <2>2, <2>3, <2>4, <2>5, <2>6, <2>7, <2>8, <2>9, <2>10, <2>11, <2>12
         DEF ThreadStep
<1>2. ASSUME NEW c \in Clients, ClientCall(c) \/ ClientStep(c) PROVE StoppedInv'
  <2>1. ASSUME NEW j \in Jobs, AddWork(c, j) PROVE StoppedInv' BY <2>1 DEF AddWork
  <2>2. CASE WaitCall(c) BY <2>2 DEF WaitCall
  <2>3. CASE DestroyCall(c) BY <2>3 DEF DestroyCall
  <2>4. CASE PushPost(c) BY <2>4 DEF PushPost
  <2>5. CASE WaitReadLen(c) BY <2>5 DEF WaitReadLen
  <2>6. CASE WaitReadWorking(c) BY <2>6 DEF WaitReadWorking
  <2>7. CASE WaitReturn(c) BY <2>7 DEF WaitReturn
  <2>8. CASE DestroyPoll(c) BY <2>8 DEF DestroyPoll
  <2>9. CASE DestroyPollEnd(c) BY <2>9 DEF DestroyPollEnd
  <2>10. CASE ClearOne(c) BY <2>10 DEF ClearOne
  <2>11. CASE ClearEnd(c) BY <2>11 DEF ClearEnd
  <2>12. CASE FreePool(c) BY <2>12 DEF FreePool
  <2> QED BY <1>2, <2>1, <2>2, <2>3, <2>4, <2>5, <2>6, <2>7, <2>8, <2>9, <2>10, <2>11, <2>12
         DEF ClientCall, ClientStep
<1>3. CASE InitReturn BY <1>3 DEF InitReturn
<1>4. CASE SpuriousWake BY <1>4 DEF SpuriousWake
<1>5. CASE UNCHANGED vars BY <1>5 DEF vars
<1> QED BY <1>1, <1>2, <1>3, <1>4, <1>5 DEF Next

LEMMA WakeStep == TypeInv /\ DestroyInv /\ StoppedInv /\ NoLostWakeup /\ [Next]_vars => NoLostWakeup'
<1> SUFFICES ASSUME TypeInv, DestroyInv, StoppedInv, NoLostWakeup, [Next]_vars PROVE NoLostWakeup'
  OBVIOUS
<1> USE DEF NoLostWakeup, TypeInv, TypeOK, LabelInv, Procs, Go, queueVars, semVars,
            countVars, threadVars, ThreadLabels, ClientLabels
<1>1. ASSUME NEW t \in Threads, ThreadStep(t) PROVE NoLostWakeup'
  <2>1. CASE ThreadStart(t) BY <2>1 DEF ThreadStart
  <2>2. CASE LoopTest(t) BY <2>2 DEF LoopTest
  <2>3. CASE BsemSleep(t) BY <2>3 DEF BsemSleep
  <2>4. CASE BsemTake(t) BY <2>4 DEF BsemTake
  <2>5. CASE AliveTest(t) BY <2>5 DEF AliveTest
  <2>6. CASE CountUp(t) BY <2>6 DEF CountUp
  <2>7. CASE Pull(t)
    <3>1. CASE len > 1 BY <2>7, <3>1 DEF Pull
    <3>2. CASE ~(len > 1)
      <4>1. queue' = <<>> BY <2>7, <3>2, PullMoves, EmptySeq DEF Pull, Dequeue, LenInv
      <4> QED BY <4>1
    <3> QED BY <3>1, <3>2
  <2>8. CASE PullPost(t) BY <2>8, BsemPostType DEF PullPost
  <2>9. CASE RunJob(t) BY <2>9 DEF RunJob
  <2>10. CASE CountDown(t) BY <2>10 DEF CountDown
  <2>11. CASE ThreadExit(t) BY <2>11 DEF ThreadExit
  <2>12. CASE ThreadUnlock(t) BY <2>12 DEF ThreadUnlock
  <2> QED BY <1>1, <2>1, <2>2, <2>3, <2>4, <2>5, <2>6, <2>7, <2>8, <2>9, <2>10, <2>11, <2>12
         DEF ThreadStep
<1>2. ASSUME NEW c \in Clients, ClientCall(c) \/ ClientStep(c) PROVE NoLostWakeup'
  <2>1. ASSUME NEW j \in Jobs, AddWork(c, j) PROVE NoLostWakeup' BY <2>1 DEF AddWork
  <2>2. CASE WaitCall(c) BY <2>2 DEF WaitCall
  <2>3. CASE DestroyCall(c) BY <2>3 DEF DestroyCall
  <2>4. CASE PushPost(c) BY <2>4, BsemPostType DEF PushPost
  <2>5. CASE WaitReadLen(c) BY <2>5 DEF WaitReadLen
  <2>6. CASE WaitReadWorking(c) BY <2>6 DEF WaitReadWorking
  <2>7. CASE WaitReturn(c) BY <2>7 DEF WaitReturn
  <2>8. CASE DestroyPoll(c)
    BY <2>8, ThreadsAssumption DEF DestroyPoll, BsemPostAll, ThreadsAssumption
  <2>9. CASE DestroyPollEnd(c) BY <2>9 DEF DestroyPollEnd
  <2>10. CASE ClearOne(c) BY <2>10 DEF ClearOne, StoppedInv
  <2>11. CASE ClearEnd(c) BY <2>11 DEF ClearEnd, StoppedInv
  <2>12. CASE FreePool(c) BY <2>12 DEF FreePool
  <2> QED BY <1>2, <2>1, <2>2, <2>3, <2>4, <2>5, <2>6, <2>7, <2>8, <2>9, <2>10, <2>11, <2>12
         DEF ClientCall, ClientStep
<1>3. CASE InitReturn BY <1>3 DEF InitReturn
<1>4. CASE SpuriousWake BY <1>4 DEF SpuriousWake
<1>5. CASE UNCHANGED vars BY <1>5 DEF vars
<1> QED BY <1>1, <1>2, <1>3, <1>4, <1>5 DEF Next

LEMMA OnceStep == TypeInv /\ OnceInv /\ [Next]_vars => OnceInv'
<1> SUFFICES ASSUME TypeInv, OnceInv, [Next]_vars PROVE OnceInv'
  OBVIOUS
<1> USE DEF OnceInv, TypeInv, TypeOK, LabelInv, Procs, Go, queueVars, semVars,
            countVars, threadVars, ThreadLabels, ClientLabels
<1>1. ASSUME NEW t \in Threads, ThreadStep(t) PROVE OnceInv'
  <2>1. CASE ThreadStart(t) BY <2>1 DEF ThreadStart
  <2>2. CASE LoopTest(t) BY <2>2 DEF LoopTest
  <2>3. CASE BsemSleep(t) BY <2>3 DEF BsemSleep
  <2>4. CASE BsemTake(t) BY <2>4 DEF BsemTake
  <2>5. CASE AliveTest(t) BY <2>5 DEF AliveTest
  <2>6. CASE CountUp(t) BY <2>6 DEF CountUp
  <2>7. CASE Pull(t)
    <3>1. finished' = finished /\ job[t] = None BY <2>7, PullMoves
    <3>2. CASE len > 0
      <4>1. /\ Len(queue') = Len(queue) - 1 /\ Len(queue) > 0
            /\ \A i \in 1 .. Len(queue') : queue'[i] = queue[i + 1]
            /\ \A u \in Threads : job'[u] = IF u = t THEN queue[1] ELSE job[u]
            /\ queue[1] \in Jobs
        BY <2>7, <3>2, PullMoves DEF LenInv
      <4>2. \A i \in 1 .. Len(queue') : /\ i + 1 \in 1 .. Len(queue)
                                       /\ queue'[i] = queue[i + 1] /\ queue'[i] # queue[1]
        BY <4>1, SMTT(30)
      <4>3. \A i, k \in 1 .. Len(queue') : queue'[i] = queue'[k] => i = k
        BY <4>1, <4>2
      <4>4. \A i \in 1 .. Len(queue'), u \in Threads :
              queue'[i] \notin finished' /\ job'[u] # queue'[i]
        BY <3>1, <4>1, <4>2, SMTT(30)
      <4>5. \A u, w \in Threads : job'[u] = job'[w] /\ job'[u] # None => u = w
        BY <4>1
      <4>6. \A u \in Threads : job'[u] \notin finished'
        BY <3>1, <4>1
      <4> QED BY <4>3, <4>4, <4>5, <4>6
    <3>3. CASE ~(len > 0) BY <2>7, <3>1, <3>3, PullMoves
    <3> QED BY <3>2, <3>3
  <2>8. CASE PullPost(t) BY <2>8 DEF PullPost
  <2>9. CASE RunJob(t)
    <3>1. job[t] # None BY <2>9 DEF RunJob, JobInv
    <3>2. /\ \A u \in Threads : job'[u] = IF u = t THEN None ELSE job[u]
          /\ finished' = finished \cup {job[t]} /\ queue' = queue
      BY <2>9 DEF RunJob
    <3>3. \A i \in 1 .. Len(queue) : queue[i] # None
      BY NoneAssumption DEF NoneAssumption
    <3>4. \A u \in Threads : job'[u] \notin finished'
      BY <3>1, <3>2, NoneAssumption DEF NoneAssumption
    <3> QED BY <3>1, <3>2, <3>3, <3>4
  <2>10. CASE CountDown(t) BY <2>10 DEF CountDown
  <2>11. CASE ThreadExit(t) BY <2>11 DEF ThreadExit
  <2>12. CASE ThreadUnlock(t) BY <2>12 DEF ThreadUnlock
  <2> QED BY <1>1, <2>1, <2>2, <2>3, <2>4, <2>5, <2>6, <2>7, <2>8, <2>9, <2>10, <2>11, <2>12
         DEF ThreadStep
<1>2. ASSUME NEW c \in Clients, ClientCall(c) \/ ClientStep(c) PROVE OnceInv'
  <2>1. ASSUME NEW j \in Jobs, AddWork(c, j) PROVE OnceInv'
    <3>1. queue' = Append(queue, j) BY <2>1, AddWorkAppends
    <3>2. j \notin Queued /\ (\A t \in Threads : job[t] # j) /\ j \notin finished
      BY <2>1 DEF AddWork, Outstanding, Queued
    <3>3. /\ Len(queue') = Len(queue) + 1 /\ queue'[Len(queue) + 1] = j
          /\ \A i \in 1 .. Len(queue) : queue'[i] = queue[i]
      BY <3>1
    <3>4. job' = job /\ finished' = finished BY <2>1 DEF AddWork
    <3> QED BY <3>2, <3>3, <3>4 DEF Queued
  <2>2. CASE WaitCall(c) BY <2>2 DEF WaitCall
  <2>3. CASE DestroyCall(c) BY <2>3 DEF DestroyCall
  <2>4. CASE PushPost(c) BY <2>4 DEF PushPost
  <2>5. CASE WaitReadLen(c) BY <2>5 DEF WaitReadLen
  <2>6. CASE WaitReadWorking(c) BY <2>6 DEF WaitReadWorking
  <2>7. CASE WaitReturn(c) BY <2>7 DEF WaitReturn
  <2>8. CASE DestroyPoll(c) BY <2>8 DEF DestroyPoll
  <2>9. CASE DestroyPollEnd(c) BY <2>9 DEF DestroyPollEnd
  <2>10. CASE ClearOne(c)
    <3>1. Dequeue /\ job' = job /\ finished' = finished BY <2>10 DEF ClearOne
    <3>2. CASE len > 0
      <4>1. \A i \in 1 .. Len(queue') : i + 1 \in 1 .. Len(queue) /\ queue'[i] = queue[i + 1]
        BY <3>1, <3>2, DequeueShifts DEF LenInv
      <4> QED BY <3>1, <4>1
    <3>3. CASE ~(len > 0) BY <3>1, <3>3, DequeueShifts
    <3> QED BY <3>2, <3>3
  <2>11. CASE ClearEnd(c) BY <2>11 DEF ClearEnd
  <2>12. CASE FreePool(c) BY <2>12 DEF FreePool
  <2> QED BY <1>2, <2>1, <2>2, <2>3, <2>4, <2>5, <2>6, <2>7, <2>8, <2>9, <2>10, <2>11, <2>12
         DEF ClientCall, ClientStep
<1>3. CASE InitReturn BY <1>3 DEF InitReturn
<1>4. CASE SpuriousWake BY <1>4 DEF SpuriousWake
<1>5. CASE UNCHANGED vars BY <1>5 DEF vars
<1> QED BY <1>1, <1>2, <1>3, <1>4, <1>5 DEF Next

LEMMA OwedStep == TypeInv /\ CountInv /\ DestroyInv /\ OwedInv /\ [Next]_vars => OwedInv'
<1> SUFFICES ASSUME TypeInv, CountInv, DestroyInv, OwedInv, [Next]_vars PROVE OwedInv'
  OBVIOUS
<1> USE DEF OwedInv, TypeInv, TypeOK, LabelInv, Procs, Go, queueVars, semVars,
            countVars, threadVars, ThreadLabels, ClientLabels
<1>1. ASSUME NEW t \in Threads, ThreadStep(t) PROVE OwedInv'
  <2>1. CASE ThreadStart(t) BY <2>1, SamePlaces DEF ThreadStart
  <2>2. CASE LoopTest(t) BY <2>2, SamePlaces DEF LoopTest
  <2>3. CASE BsemSleep(t) BY <2>3, SamePlaces DEF BsemSleep
  <2>4. CASE BsemTake(t) BY <2>4, SamePlaces DEF BsemTake
  <2>5. CASE AliveTest(t) BY <2>5, SamePlaces DEF AliveTest
  <2>6. CASE CountUp(t) BY <2>6, SamePlaces DEF CountUp
  <2>7. CASE Pull(t) BY <2>7, PullPlaces, PullMoves DEF Pull
  <2>8. CASE PullPost(t) BY <2>8, SamePlaces DEF PullPost
  <2>9. CASE RunJob(t) BY <2>9, RunPlaces DEF RunJob
  <2>10. CASE CountDown(t) BY <2>10, SamePlaces DEF CountDown
  <2>11. CASE ThreadExit(t) BY <2>11, SamePlaces DEF ThreadExit
  <2>12. CASE ThreadUnlock(t) BY <2>12, SamePlaces DEF ThreadUnlock
  <2> QED BY <1>1, <2>1, <2>2, <2>3, <2>4, <2>5, <2>6, <2>7, <2>8, <2>9, <2>10, <2>11, <2>12
         DEF ThreadStep
<1>2. ASSUME NEW c \in Clients, ClientCall(c) \/ ClientStep(c) PROVE OwedInv'
  <2>1. ASSUME NEW j \in Jobs, AddWork(c, j) PROVE OwedInv'
    BY <2>1, AddPlaces DEF AddWork, Outstanding
  <2>2. CASE WaitCall(c) BY <2>2, SamePlaces DEF WaitCall
  <2>3. CASE DestroyCall(c) BY <2>3, SamePlaces DEF DestroyCall
  <2>4. CASE PushPost(c) BY <2>4, SamePlaces DEF PushPost
  <2>5. CASE WaitReadLen(c) BY <2>5, SamePlaces, EmptyPlaces DEF WaitReadLen
  <2>6. CASE WaitReadWorking(c) BY <2>6, SamePlaces, NobodyRuns DEF WaitReadWorking
  <2>7. CASE WaitReturn(c) BY <2>7, SamePlaces DEF WaitReturn
  <2>8. CASE DestroyPoll(c) BY <2>8, SamePlaces DEF DestroyPoll
  <2>9. CASE DestroyPollEnd(c) BY <2>9, SamePlaces DEF DestroyPollEnd
  <2>10. CASE ClearOne(c)
    <3>1. \A d \in Clients : owed[d] = {} BY <2>10 DEF ClearOne, DestroyInv
    <3> QED BY <2>10, <3>1 DEF ClearOne
  <2>11. CASE ClearEnd(c)
    <3>1. \A d \in Clients : owed[d] = {} BY <2>11 DEF ClearEnd, DestroyInv
    <3> QED BY <2>11, <3>1 DEF ClearEnd
  <2>12. CASE FreePool(c) BY <2>12, SamePlaces DEF FreePool
  <2> QED BY <1>2, <2>1, <2>2, <2>3, <2>4, <2>5, <2>6, <2>7, <2>8, <2>9, <2>10, <2>11, <2>12
         DEF ClientCall, ClientStep
<1>3. CASE InitReturn BY <1>3, SamePlaces DEF InitReturn
<1>4. CASE SpuriousWake BY <1>4, SamePlaces DEF SpuriousWake
<1>5. CASE UNCHANGED vars BY <1>5, SamePlaces DEF vars
<1> QED BY <1>1, <1>2, <1>3, <1>4, <1>5 DEF Next

(***************************************************************************)
(* The inductive invariant and what follows from it.                       *)
(***************************************************************************)
(* What does not depend on keepalive, which other pools of the process change. *)
CoreInv == /\ TypeInv /\ LockInv /\ SleepInv /\ CountInv /\ ReadyInv /\ DestroyInv
           /\ FreedInv /\ OnceInv /\ OwedInv
IInv == CoreInv /\ StoppedInv /\ NoLostWakeup

LEMMA InitIInv == Init => IInv
<1> SUFFICES ASSUME Init PROVE IInv
  OBVIOUS
<1>1. TypeInv BY InitTypeInv
<1>2. \A p \in Procs : pc[p] = IF p \in Threads THEN "start" ELSE "init"
  BY DEF Init
<1>3. LockInv BY <1>2, NoneAssumption DEF Init, LockInv, Procs, NoneAssumption
<1>4. SleepInv BY DEF Init, SleepInv
<1>5. CountInv
  <2>1. At(CountLabels) = {} /\ At(AliveLabels) = {}
    BY <1>2 DEF At, CountLabels, AliveLabels, Procs
  <2> QED BY <2>1, FS_EmptySet DEF CountInv, Init
<1>6. ReadyInv /\ DestroyInv /\ FreedInv /\ StoppedInv
  BY <1>2, ClientsAssumption
     DEF ReadyInv, DestroyInv, FreedInv, StoppedInv, Init, Procs, ClientsAssumption
<1>7. OnceInv
  <2>1. 1 .. Len(queue) = {} BY DEF Init
  <2> QED BY <2>1 DEF OnceInv, Init
<1>8. OwedInv BY <1>2, ClientsAssumption DEF OwedInv, Init, Procs, ClientsAssumption
<1>9. NoLostWakeup BY DEF NoLostWakeup, Init
<1> QED BY <1>1, <1>3, <1>4, <1>5, <1>6, <1>7, <1>8, <1>9 DEF IInv, CoreInv

LEMMA NextCoreInv == CoreInv /\ [Next]_vars => CoreInv'
BY TypeStep, LockStep, SleepStep, CountStep, ReadyStep, DestroyStep, FreedStep,
   OnceStep, OwedStep DEF CoreInv

LEMMA NextIInv == IInv /\ [Next]_vars => IInv'
BY NextCoreInv, StoppedStep, WakeStep DEF IInv, CoreInv

(* The inductive invariant holds in every reachable state of the pool. *)
THEOREM Invariant == Spec => []IInv
BY InitIInv, NextIInv, PTL DEF Spec

(* thpool_wait never returns while a job that was queued or running when it was
   called is unfinished, for any number of threads, clients and jobs. *)
THEOREM WaitCovers == Spec => []WaitCoversWork
<1>1. IInv => WaitCoversWork BY DEF IInv, CoreInv, OwedInv, WaitCoversWork
<1> QED BY <1>1, Invariant, PTL

(* No job is left in the queue with every thread asleep and no post to come. *)
THEOREM NoWakeupLost == Spec => []NoLostWakeup
<1>1. IInv => NoLostWakeup BY DEF IInv
<1> QED BY <1>1, Invariant, PTL

(* The counters thpool_wait and thpool_destroy read are exact. *)
THEOREM Counts == Spec => []CountsExact
<1>1. IInv => CountsExact
  <2> SUFFICES ASSUME IInv PROVE CountsExact
    OBVIOUS
  <2>1. At(CountLabels) =
          {t \in Threads : pc[t] \in {"pull", "pullpost", "run", "uncount"}}
    BY DEF At, CountLabels
  <2>2. At(AliveLabels) = {t \in Threads : pc[t] \notin {"start", "unlock", "dead"}}
    BY DEF At, AliveLabels, IInv, CoreInv, TypeInv, LabelInv, ThreadLabels
  <2> QED BY <2>1, <2>2 DEF IInv, CoreInv, CountInv, CountsExact
<1> QED BY <1>1, Invariant, PTL

(* The pool is freed only when no thread can touch it but to unlock. *)
THEOREM FreedLast == Spec => []FreedAfterUse
<1>1. IInv => FreedAfterUse
  BY DEF IInv, CoreInv, FreedInv, DestroyInv, FreedAfterUse
<1> QED BY <1>1, Invariant, PTL

-----------------------------------------------------------------------------
(* The refinement of WorkPool. *)

Stutter == UNCHANGED <<queue, Running, finished, Destroying>>

LEMMA StutterWorks == Stutter => UNCHANGED Work!workVars
BY DEF Stutter, Work!workVars

(* A step that keeps queue, job and finished and moves nobody into or out of
   thpool_destroy is invisible. *)
LEMMA Invisible ==
  ASSUME queue' = queue, job' = job, finished' = finished,
         \A c \in Clients : pc'[c] \in {"poll", "clear", "free", "gone"}
                        <=> pc[c] \in {"poll", "clear", "free", "gone"}
  PROVE  Stutter
BY DEF Stutter, Running, Destroying

LEMMA ThreadInvisible ==
  ASSUME TypeInv, NEW t \in Threads, NEW from, NEW to, Go(t, from, to)
  PROVE  Destroying' = Destroying
BY ClientsAssumption DEF Go, Destroying, TypeInv, TypeOK, Procs, ClientsAssumption

LEMMA AddWorkSubmits ==
  ASSUME CoreInv, NEW c \in Clients, NEW j \in Jobs, AddWork(c, j)
  PROVE  Work!Submit(j)
<1>1. queue' = Append(queue, j) BY AddWorkAppends DEF CoreInv
<1>2. job' = job /\ finished' = finished BY DEF AddWork, threadVars
<1>3. ~Destroying /\ ~Destroying'
  BY DEF AddWork, Go, Destroying, CoreInv, TypeInv, TypeOK, Procs
<1>4. j \notin Work!Accepted BY DEF AddWork, Outstanding, Work!Accepted, Running
<1>5. Running' = Running BY <1>2 DEF Running
<1>6. Destroying' = Destroying BY <1>3 DEF Destroying
<1> QED BY <1>1, <1>2, <1>3, <1>4, <1>5, <1>6 DEF Work!Submit

LEMMA TailOfOne ==
  ASSUME NEW S, NEW s \in Seq(S), Len(s) = 1
  PROVE  Tail(s) = <<>>
<1>1. s # <<>> BY EmptySeq
<1>2. Tail(s) \in Seq(S) /\ Len(Tail(s)) = 0 BY <1>1, HeadTailProperties
<1>3. \A r \in Seq(S) : Len(r) = 0 => r = <<>> BY EmptySeq
<1> QED BY <1>2, <1>3

LEMMA PullStarts ==
  ASSUME CoreInv, NEW t \in Threads, Pull(t)
  PROVE  Work!Start \/ Stutter
<1> USE DEF CoreInv
<1>1. Destroying' = Destroying BY ThreadInvisible DEF Pull
<1>2. finished' = finished /\ job[t] = None BY PullMoves
<1>3. CASE len > 0
  <2>1. /\ Len(queue) > 0 /\ queue # <<>> /\ Head(queue) = queue[1]
        /\ queue' = Tail(queue)
    <3>1. Len(queue) > 0 /\ queue # <<>> BY <1>3, EmptySeq DEF TypeInv, TypeOK, LenInv
    <3>2. len > 1 => queue' = Tail(queue) BY DEF Pull, Dequeue
    <3>3. ASSUME len = 1 PROVE queue' = Tail(queue)
      <4>1. queue' = <<>> BY <3>3 DEF Pull, Dequeue
      <4>2. Tail(queue) = <<>> BY <3>3, TailOfOne DEF TypeInv, TypeOK, LenInv
      <4> QED BY <4>1, <4>2
    <3>4. queue' = Tail(queue) BY <1>3, <3>2, <3>3 DEF TypeInv, TypeOK
    <3>5. Head(queue) = queue[1] BY <3>1
    <3> QED BY <3>1, <3>4, <3>5
  <2>2. /\ \A u \in Threads : job'[u] = IF u = t THEN queue[1] ELSE job[u]
        /\ queue[1] # None
    BY <1>3, PullMoves, NoneAssumption DEF TypeInv, TypeOK, NoneAssumption
  <2>3. Running' = Running \cup {queue[1]} BY <1>2, <2>2 DEF Running
  <2>4. 1 \in 1 .. Len(queue) BY <2>1 DEF TypeInv, TypeOK
  <2>5. queue[1] \notin Running \cup finished BY <2>4 DEF OnceInv, Running
  <2> QED BY <1>1, <1>2, <2>1, <2>3, <2>5 DEF Work!Start
<1>4. CASE ~(len > 0)
  <2>1. queue' = queue /\ job' = job BY <1>4, PullMoves
  <2> QED BY <1>1, <1>2, <2>1 DEF Stutter, Running
<1> QED BY <1>3, <1>4

LEMMA RunFinishes ==
  ASSUME CoreInv, NEW t \in Threads, RunJob(t)
  PROVE  Work!Finish(job[t])
<1>1. /\ \A u \in Threads : job'[u] = IF u = t THEN None ELSE job[u]
      /\ finished' = finished \cup {job[t]} /\ queue' = queue /\ job[t] # None
  BY DEF RunJob, Go, queueVars, CoreInv, TypeInv, TypeOK, JobInv
<1>2. Destroying' = Destroying BY ThreadInvisible DEF RunJob, CoreInv
<1>3. job[t] \in Running BY <1>1 DEF Running
<1>4. Running' = Running \ {job[t]} BY <1>1 DEF Running, CoreInv, OnceInv
<1> QED BY <1>1, <1>2, <1>3, <1>4 DEF Work!Finish

LEMMA ClearDrops ==
  ASSUME CoreInv, NEW c \in Clients, ClearOne(c)
  PROVE  Work!Drop
<1> USE DEF CoreInv
<1>1. Destroying /\ Destroying' /\ job' = job /\ finished' = finished
  BY DEF ClearOne, Destroying, threadVars
<1>2. Running = {} BY DEF ClearOne, DestroyInv, Running, TypeInv, JobInv
<1>3. Running' = {} BY <1>1, <1>2 DEF Running
<1>4. queue # <<>> BY EmptySeq DEF ClearOne, TypeInv, TypeOK, LenInv
<1>5. queue' = Tail(queue)
  <2>1. CASE len > 1 BY <2>1 DEF ClearOne, Dequeue
  <2>2. CASE len = 1
    <3>1. queue' = <<>> BY <2>2 DEF ClearOne, Dequeue
    <3>2. Tail(queue) = <<>> BY <2>2, TailOfOne DEF TypeInv, TypeOK, LenInv
    <3> QED BY <3>1, <3>2
  <2> QED BY <2>1, <2>2 DEF ClearOne, TypeInv, TypeOK
<1> QED BY <1>1, <1>2, <1>3, <1>4, <1>5 DEF Work!Drop

LEMMA RefineStep == CoreInv /\ [Next]_vars => [Work!Next]_(Work!workVars)
<1> SUFFICES ASSUME CoreInv, [Next]_vars PROVE Work!Next \/ Stutter
  BY StutterWorks
<1> USE DEF queueVars, threadVars
<1>1. ASSUME NEW t \in Threads, ThreadStep(t) PROVE Work!Next \/ Stutter
  <2>1. CASE Pull(t) BY <2>1, PullStarts DEF Work!Next
  <2>2. CASE RunJob(t)
    <3>1. job[t] \in Jobs
      BY <2>2 DEF RunJob, Go, CoreInv, TypeInv, TypeOK, JobInv
    <3> QED BY <2>2, <3>1, RunFinishes DEF Work!Next
  <2>3. CASE BsemSleep(t) BY <2>3, Invisible DEF BsemSleep
  <2>4. CASE \/ ThreadStart(t) \/ LoopTest(t) \/ BsemTake(t) \/ AliveTest(t)
             \/ CountUp(t) \/ PullPost(t) \/ CountDown(t) \/ ThreadExit(t)
             \/ ThreadUnlock(t)
    <3>1. Destroying' = Destroying
      BY <2>4, ThreadInvisible DEF ThreadStart, LoopTest, BsemTake, AliveTest,
         CountUp, PullPost, CountDown, ThreadExit, ThreadUnlock, CoreInv
    <3>2. queue' = queue /\ job' = job /\ finished' = finished
      BY <2>4 DEF ThreadStart, LoopTest, BsemTake, AliveTest, CountUp, PullPost,
         CountDown, ThreadExit, ThreadUnlock
    <3> QED BY <3>1, <3>2 DEF Stutter, Running
  <2> QED BY <1>1, <2>1, <2>2, <2>3, <2>4 DEF ThreadStep
<1>2. ASSUME NEW c \in Clients, ClientCall(c) \/ ClientStep(c) PROVE Work!Next \/ Stutter
  <2> USE DEF CoreInv, TypeInv, TypeOK, Procs, Go
  <2>1. ASSUME NEW j \in Jobs, AddWork(c, j) PROVE Work!Next
    BY <2>1, AddWorkSubmits DEF Work!Next
  <2>2. CASE WaitCall(c) BY <2>2, Invisible DEF WaitCall
  <2>3. CASE DestroyCall(c)
    <3>1. Destroying' BY <2>3 DEF DestroyCall, Destroying
    <3>2. queue' = queue /\ Running' = Running /\ finished' = finished
      BY <2>3 DEF DestroyCall, Running
    <3> QED BY <3>1, <3>2 DEF Work!Next, Work!Close
  <2>4. CASE PushPost(c) BY <2>4, Invisible DEF PushPost
  <2>5. CASE WaitReadLen(c) BY <2>5, Invisible DEF WaitReadLen
  <2>6. CASE WaitReadWorking(c) BY <2>6, Invisible DEF WaitReadWorking
  <2>7. CASE WaitReturn(c) BY <2>7, Invisible DEF WaitReturn
  <2>8. CASE DestroyPoll(c) BY <2>8, Invisible DEF DestroyPoll
  <2>9. CASE DestroyPollEnd(c) BY <2>9, Invisible DEF DestroyPollEnd
  <2>10. CASE ClearOne(c) BY <2>10, ClearDrops DEF Work!Next
  <2>11. CASE ClearEnd(c)
    <3>1. queue = <<>> BY <2>11, EmptySeq DEF ClearEnd, LenInv
    <3> QED BY <2>11, <3>1, Invisible DEF ClearEnd
  <2>12. CASE FreePool(c) BY <2>12, Invisible DEF FreePool
  <2> QED BY <1>2, <2>1, <2>2, <2>3, <2>4, <2>5, <2>6, <2>7, <2>8, <2>9, <2>10,
             <2>11, <2>12 DEF ClientCall, ClientStep
<1>3. CASE InitReturn
  BY <1>3, Invisible DEF InitReturn, CoreInv, TypeInv, TypeOK, Procs
<1>4. CASE SpuriousWake BY <1>4, Invisible DEF SpuriousWake
<1>5. CASE UNCHANGED vars BY <1>5, Invisible DEF vars
<1> QED BY <1>1, <1>2, <1>3, <1>4, <1>5 DEF Next

(* Every behaviour of thpool.c is one the abstract pool allows: each job runs
   once, in the order of its queueing, and none is dropped while one runs. *)
THEOREM Refinement == Spec => ImplementsWorkPool
<1>1. Init => Work!Init
  <2> SUFFICES ASSUME Init PROVE Work!Init
    OBVIOUS
  <2>1. Running = {} BY DEF Init, Running
  <2>2. \A c \in Clients : pc[c] = "init"
    BY ClientsAssumption DEF Init, Procs, ClientsAssumption
  <2> QED BY <2>1, <2>2 DEF Init, Work!Init, Destroying
<1>2. IInv => CoreInv BY DEF IInv
<1> QED BY <1>1, <1>2, RefineStep, Invariant, PTL DEF Spec, ImplementsWorkPool, Work!Spec
=============================================================================
