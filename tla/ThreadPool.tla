----------------------------- MODULE ThreadPool -----------------------------
(***************************************************************************)
(* The thread pool of the HTTP server (CS5600Assignment5/src/thpool.c):    *)
(* worker threads fed from a mutex-protected FIFO through a binary         *)
(* semaphore, clients that add work and wait for it, and one client that   *)
(* finally destroys the pool.                                              *)
(*                                                                         *)
(* A step is what one thread does between two points at which another      *)
(* thread can observe or change the pool.  A section under thcount_lock or *)
(* bsem.mutex that cannot be observed from outside is one step; a section  *)
(* that can be (the queue's rwmutex is held across a bsem_post,            *)
(* thpool_wait reads len and num_threads_working one after the other, a    *)
(* dying thread still has to unlock thcount_lock) is split, with the       *)
(* holder of the lock kept in rwmutex and thcount.                         *)
(***************************************************************************)
EXTENDS Integers, Sequences, FiniteSets

CONSTANTS Threads,   \* the threads thpool_init creates
          Clients,   \* the threads that call the API
          Jobs,      \* the work that is ever added, each job once
          None       \* neither a thread nor a client nor a job

ASSUME ThreadsAssumption == IsFiniteSet(Threads) /\ Threads # {}
ASSUME ClientsAssumption == Clients # {} /\ Threads \cap Clients = {}
ASSUME NoneAssumption == None \notin Threads \cup Clients \cup Jobs

VARIABLES
  keepalive,  \* threads_keepalive, a static of the file
  queue,      \* the jobs from jobqueue.front along prev
  len,        \* jobqueue.len
  rwmutex,    \* who holds jobqueue.rwmutex
  v,          \* has_jobs->v
  bsemWait,   \* the threads asleep on has_jobs->cond
  alive,      \* num_threads_alive
  working,    \* num_threads_working
  thcount,    \* who holds thcount_lock
  idleWait,   \* the clients asleep on threads_all_idle
  freed,      \* thpool_destroy has freed the pool
  pc,         \* where each thread and client is
  job,        \* thread_do's job_p
  finished,   \* history: the jobs whose function has returned
  owed        \* history: the jobs outstanding when a client called thpool_wait

queueVars  == <<queue, len, rwmutex>>
semVars    == <<v, bsemWait>>
countVars  == <<alive, working, thcount, idleWait>>
threadVars == <<job, finished>>
vars == <<keepalive, queueVars, semVars, countVars, freed, pc, threadVars, owed>>

Procs == Threads \cup Clients

ThreadLabels == {"start", "loop", "bsem", "check", "count", "pull", "pullpost",
                 "run", "uncount", "exit", "unlock", "dead"}
ClientLabels == {"init", "idle", "post", "wlock", "wread", "wdone",
                 "poll", "clear", "free", "gone"}

Go(p, from, to) ==
  /\ pc[p] = from
  /\ pc' = [pc EXCEPT ![p] = to]

(* pthread_cond_signal: one sleeper is removed, if there is one. *)
Signalled(sleepers) ==
  IF sleepers = {} THEN {{}} ELSE {sleepers \ {p} : p \in sleepers}

(* Jobs the pool holds: queued, or pulled and not finished. *)
Outstanding ==
  {queue[i] : i \in 1 .. Len(queue)} \cup ({job[t] : t \in Threads} \ {None})

Init ==
  /\ keepalive = TRUE
  /\ queue = <<>> /\ len = 0 /\ rwmutex = None
  /\ v = 0 /\ bsemWait = {}
  /\ alive = 0 /\ working = 0 /\ thcount = None /\ idleWait = {}
  /\ freed = FALSE
  /\ pc = [p \in Procs |-> IF p \in Threads THEN "start" ELSE "init"]
  /\ job = [t \in Threads |-> None]
  /\ finished = {}
  /\ owed = [c \in Clients |-> {}]

-----------------------------------------------------------------------------
(* The binary semaphore. *)

(* Mutant of bsem_post: a post that signals nobody. *)
BsemPostUnsignalled == v' = 1 /\ UNCHANGED bsemWait

BsemPost ==
  /\ v' = 1
  /\ bsemWait' \in Signalled(bsemWait)

BsemPostAll ==
  /\ v' = 1
  /\ bsemWait' = {}

(* Mutant: with several jobs queued, the front pointer is not advanced. *)
DequeueKeepsFront ==
  /\ rwmutex = None
  /\ \/ len = 0 /\ UNCHANGED <<queue, len>>
     \/ len = 1 /\ queue' = <<>> /\ len' = 0
     \/ len > 1 /\ UNCHANGED queue /\ len' = len - 1

(* The dequeue of jobqueue_pull: its switch on len. *)
Dequeue ==
  /\ rwmutex = None
  /\ \/ len = 0 /\ UNCHANGED <<queue, len>>
     \/ len = 1 /\ queue' = <<>> /\ len' = 0
     \/ len > 1 /\ queue' = Tail(queue) /\ len' = len - 1

Front == IF queue = <<>> THEN None ELSE Head(queue)

-----------------------------------------------------------------------------
(* A worker: thread_do. *)

ThreadStart(t) ==
  /\ Go(t, "start", "loop")
  /\ thcount = None
  /\ alive' = alive + 1
  /\ UNCHANGED <<keepalive, queueVars, semVars, working, thcount, idleWait,
                 freed, threadVars, owed>>

LoopTest(t) ==
  /\ Go(t, "loop", IF keepalive THEN "bsem" ELSE "exit")
  /\ UNCHANGED <<keepalive, queueVars, semVars, countVars, freed, threadVars, owed>>

BsemSleep(t) ==
  /\ pc[t] = "bsem" /\ t \notin bsemWait
  /\ v # 1
  /\ bsemWait' = bsemWait \cup {t}
  /\ UNCHANGED <<keepalive, queueVars, v, countVars, freed, pc, threadVars, owed>>

BsemTake(t) ==
  /\ Go(t, "bsem", "check") /\ t \notin bsemWait
  /\ v = 1
  /\ v' = 0
  /\ UNCHANGED <<keepalive, queueVars, bsemWait, countVars, freed, threadVars, owed>>

AliveTest(t) ==
  /\ Go(t, "check", IF keepalive THEN "count" ELSE "loop")
  /\ UNCHANGED <<keepalive, queueVars, semVars, countVars, freed, threadVars, owed>>

CountUp(t) ==
  /\ Go(t, "count", "pull")
  /\ thcount = None
  /\ working' = working + 1
  /\ UNCHANGED <<keepalive, queueVars, semVars, alive, thcount, idleWait,
                 freed, threadVars, owed>>

(* Mutant: finding no job, the thread goes round without counting down. *)
PullUncounted(t) ==
  /\ Go(t, "pull", IF len > 1 THEN "pullpost" ELSE IF len = 1 THEN "run" ELSE "loop")
  /\ Dequeue
  /\ job' = [job EXCEPT ![t] = Front]
  /\ rwmutex' = IF len > 1 THEN t ELSE None
  /\ UNCHANGED <<keepalive, semVars, countVars, freed, finished, owed>>

Pull(t) ==
  /\ Go(t, "pull", IF len > 1 THEN "pullpost" ELSE IF len = 1 THEN "run" ELSE "uncount")
  /\ Dequeue
  /\ job' = [job EXCEPT ![t] = Front]
  /\ rwmutex' = IF len > 1 THEN t ELSE None
  /\ UNCHANGED <<keepalive, semVars, countVars, freed, finished, owed>>

(* Mutant: jobqueue_pull does not post for the jobs it leaves behind. *)
PullPostSilent(t) ==
  /\ Go(t, "pullpost", "run")
  /\ rwmutex' = None
  /\ UNCHANGED <<keepalive, queue, len, semVars, countVars, freed, threadVars, owed>>

PullPost(t) ==
  /\ Go(t, "pullpost", "run")
  /\ BsemPost
  /\ rwmutex' = None
  /\ UNCHANGED <<keepalive, queue, len, countVars, freed, threadVars, owed>>

RunJob(t) ==
  /\ Go(t, "run", "uncount")
  /\ finished' = finished \cup {job[t]}
  /\ job' = [job EXCEPT ![t] = None]
  /\ UNCHANGED <<keepalive, queueVars, semVars, countVars, freed, owed>>

(* Mutant: the last working thread does not signal threads_all_idle. *)
CountDownSilent(t) ==
  /\ Go(t, "uncount", "loop")
  /\ thcount = None
  /\ working' = working - 1
  /\ UNCHANGED <<keepalive, queueVars, semVars, alive, thcount, idleWait, freed,
                 threadVars, owed>>

CountDown(t) ==
  /\ Go(t, "uncount", "loop")
  /\ thcount = None
  /\ working' = working - 1
  /\ idleWait' \in IF working' = 0 THEN Signalled(idleWait) ELSE {idleWait}
  /\ UNCHANGED <<keepalive, queueVars, semVars, alive, thcount, freed,
                 threadVars, owed>>

ThreadExit(t) ==
  /\ Go(t, "exit", "unlock")
  /\ thcount = None
  /\ thcount' = t
  /\ alive' = alive - 1
  /\ UNCHANGED <<keepalive, queueVars, semVars, working, idleWait, freed,
                 threadVars, owed>>

ThreadUnlock(t) ==
  /\ Go(t, "unlock", "dead")
  /\ thcount' = None
  /\ UNCHANGED <<keepalive, queueVars, semVars, alive, working, idleWait,
                 freed, threadVars, owed>>

ThreadStep(t) ==
  \/ ThreadStart(t) \/ LoopTest(t) \/ BsemSleep(t) \/ BsemTake(t)
  \/ AliveTest(t) \/ CountUp(t) \/ Pull(t) \/ PullPost(t) \/ RunJob(t)
  \/ CountDown(t) \/ ThreadExit(t) \/ ThreadUnlock(t)

-----------------------------------------------------------------------------
(* The API. *)

(* thpool_init spins until every thread has counted itself. *)
InitReturn ==
  /\ alive = Cardinality(Threads)
  /\ \A c \in Clients : pc[c] = "init"
  /\ pc' = [p \in Procs |-> IF p \in Clients THEN "idle" ELSE pc[p]]
  /\ UNCHANGED <<keepalive, queueVars, semVars, countVars, freed, threadVars, owed>>

Destroying == \E c \in Clients : pc[c] \in {"poll", "clear", "free", "gone"}

(* thpool_add_work up to jobqueue_push's bsem_post, under rwmutex. *)
AddWork(c, j) ==
  /\ ~Destroying
  /\ Go(c, "idle", "post")
  /\ j \notin Outstanding \cup finished
  /\ rwmutex = None
  /\ rwmutex' = c
  /\ queue' = IF len = 0 THEN <<j>> ELSE Append(queue, j)
  /\ len' = len + 1
  /\ UNCHANGED <<keepalive, semVars, countVars, freed, threadVars, owed>>

PushPost(c) ==
  /\ Go(c, "post", "idle")
  /\ BsemPost
  /\ rwmutex' = None
  /\ UNCHANGED <<keepalive, queue, len, countVars, freed, threadVars, owed>>

WaitCall(c) ==
  /\ ~Destroying
  /\ Go(c, "idle", "wlock")
  /\ owed' = [owed EXCEPT ![c] = Outstanding]
  /\ UNCHANGED <<keepalive, queueVars, semVars, countVars, freed, threadVars>>

(* thpool_wait's condition, evaluated under thcount_lock: len first ... *)
WaitReadLen(c) ==
  /\ c \notin idleWait
  /\ thcount = None
  /\ \/ /\ len # 0
        /\ pc[c] = "wlock"
        /\ idleWait' = idleWait \cup {c}
        /\ UNCHANGED <<thcount, pc>>
     \/ /\ len = 0
        /\ Go(c, "wlock", "wread")
        /\ thcount' = c
        /\ UNCHANGED idleWait
  /\ UNCHANGED <<keepalive, queueVars, semVars, alive, working, freed,
                 threadVars, owed>>

(* Mutant: an empty queue is enough for thpool_wait. *)
WaitReadWorkingNot(c) ==
  /\ Go(c, "wread", "wdone")
  /\ thcount' = None
  /\ UNCHANGED <<keepalive, queueVars, semVars, alive, working, idleWait, freed,
                 threadVars, owed>>

(* ... then num_threads_working, still under thcount_lock. *)
WaitReadWorking(c) ==
  /\ IF working # 0
       THEN Go(c, "wread", "wlock") /\ idleWait' = idleWait \cup {c}
       ELSE Go(c, "wread", "wdone") /\ UNCHANGED idleWait
  /\ thcount' = None
  /\ UNCHANGED <<keepalive, queueVars, semVars, alive, working, freed,
                 threadVars, owed>>

WaitReturn(c) ==
  /\ Go(c, "wdone", "idle")
  /\ owed' = [owed EXCEPT ![c] = {}]
  /\ UNCHANGED <<keepalive, queueVars, semVars, countVars, freed, threadVars>>

(* thpool_destroy.  Its caller is the pool's last user: no other client is in
   a call, and none starts one afterwards. *)
DestroyCall(c) ==
  /\ Go(c, "idle", "poll")
  /\ \A d \in Clients : pc[d] = "idle"
  /\ keepalive' = FALSE
  /\ UNCHANGED <<queueVars, semVars, countVars, freed, threadVars, owed>>

(* Both polling loops: post to everybody while a thread is alive. *)
DestroyPoll(c) ==
  /\ pc[c] = "poll"
  /\ alive # 0
  /\ BsemPostAll
  /\ UNCHANGED <<keepalive, queueVars, countVars, freed, pc, threadVars, owed>>

(* Mutant: after TIMEOUT the remaining threads are not polled for. *)
DestroyPollOnce(c) ==
  /\ Go(c, "poll", "clear")
  /\ UNCHANGED <<keepalive, queueVars, semVars, countVars, freed, threadVars, owed>>

DestroyPollEnd(c) ==
  /\ Go(c, "poll", "clear")
  /\ alive = 0
  /\ UNCHANGED <<keepalive, queueVars, semVars, countVars, freed, threadVars, owed>>

(* jobqueue_clear frees the jobs left behind ... *)
ClearOne(c) ==
  /\ pc[c] = "clear"
  /\ len # 0
  /\ Dequeue
  /\ IF len > 1 THEN BsemPost ELSE UNCHANGED semVars
  /\ UNCHANGED <<keepalive, rwmutex, countVars, freed, pc, threadVars, owed>>

(* ... then resets the queue and its semaphore. *)
ClearEnd(c) ==
  /\ Go(c, "clear", "free")
  /\ len = 0
  /\ queue' = <<>> /\ len' = 0
  /\ v' = 0 /\ bsemWait' = {}
  /\ UNCHANGED <<keepalive, rwmutex, countVars, freed, threadVars, owed>>

FreePool(c) ==
  /\ Go(c, "free", "gone")
  /\ freed' = TRUE
  /\ UNCHANGED <<keepalive, queueVars, semVars, countVars, threadVars, owed>>

ClientCall(c) ==
  \/ \E j \in Jobs : AddWork(c, j)
  \/ WaitCall(c)
  \/ DestroyCall(c)

(* What a client does inside a call, up to its return. *)
ClientStep(c) ==
  \/ PushPost(c)
  \/ WaitReadLen(c) \/ WaitReadWorking(c) \/ WaitReturn(c)
  \/ DestroyPoll(c) \/ DestroyPollEnd(c)
  \/ ClearOne(c) \/ ClearEnd(c) \/ FreePool(c)

(* pthread_cond_wait may return without a signal. *)
SpuriousWake ==
  /\ \/ \E t \in bsemWait : bsemWait' = bsemWait \ {t} /\ UNCHANGED idleWait
     \/ \E c \in idleWait : idleWait' = idleWait \ {c} /\ UNCHANGED bsemWait
  /\ UNCHANGED <<keepalive, queueVars, v, alive, working, thcount, freed, pc,
                 threadVars, owed>>

Next ==
  \/ \E t \in Threads : ThreadStep(t)
  \/ \E c \in Clients : ClientCall(c) \/ ClientStep(c)
  \/ InitReturn
  \/ SpuriousWake

Spec == Init /\ [][Next]_vars

(* The kernel schedules every thread and a mutex that is released again and
   again is eventually obtained (the condition variables may wake spuriously
   for ever, so weak fairness would let one waiter keep thcount_lock away from
   the threads).  A call once made is carried on; nothing obliges a client to
   make one, and no spurious wakeup is owed. *)
Fairness ==
  /\ \A t \in Threads : SF_vars(ThreadStep(t))
  /\ \A c \in Clients : SF_vars(ClientStep(c))
  /\ WF_vars(InitReturn)

FairSpec == Spec /\ Fairness

-----------------------------------------------------------------------------
TypeOK ==
  /\ keepalive \in BOOLEAN /\ freed \in BOOLEAN
  /\ queue \in Seq(Jobs) /\ len \in Nat
  /\ rwmutex \in Procs \cup {None} /\ thcount \in Procs \cup {None}
  /\ v \in {0, 1}
  /\ bsemWait \subseteq Threads /\ idleWait \subseteq Clients
  /\ alive \in Int /\ working \in Int
  /\ pc \in [Procs -> ThreadLabels \cup ClientLabels]
  /\ job \in [Threads -> Jobs \cup {None}]
  /\ finished \subseteq Jobs
  /\ owed \in [Clients -> SUBSET Jobs]

(* The pool seen as the promise of WorkPool: a job runs from the pull that
   removed it from the queue until its function has returned. *)
Running == {job[t] : t \in Threads} \ {None}

Work == INSTANCE WorkPool WITH pending <- queue, running <- Running,
                               closed <- Destroying

(* thpool.c runs every job exactly once, starts jobs in the order in which
   thpool_add_work accepted them, and discards queued jobs only in
   thpool_destroy after the last running job has ended. *)
ImplementsWorkPool == Work!Spec

(* thpool_wait returns only when every job that was queued or running when it
   was called has finished, although it reads jobqueue.len without rwmutex. *)
WaitCoversWork == \A c \in Clients : pc[c] = "wdone" => owed[c] \subseteq finished

(* A queued job never depends on a post that will not come: some thread is on
   its way to the queue, or a post is about to be made or has been made and a
   thread is awake to take it (has_jobs is binary and posts can coincide). *)
NoLostWakeup ==
  keepalive /\ queue # <<>> =>
    \/ \E p \in Procs : pc[p] \in {"post", "pullpost", "check", "count", "pull"}
    \/ v = 1 /\ bsemWait # Threads

(* The two counters of the pool say what they are read for by thpool_wait and
   thpool_destroy: working counts the threads between their increment and their
   decrement, alive those between thread_do's first and last section. *)
CountsExact ==
  /\ working = Cardinality({t \in Threads :
                            pc[t] \in {"pull", "pullpost", "run", "uncount"}})
  /\ alive = Cardinality({t \in Threads : pc[t] \notin {"start", "unlock", "dead"}})

(* When thpool_destroy frees the pool, no thread can reach the queue, the
   semaphore or a counter any more: all that may be left is one unlock. *)
FreedAfterUse ==
  freed => \A t \in Threads : pc[t] \in {"unlock", "dead"}

(* thpool.h, thpool_destroy: it waits for the active threads to finish and then
   frees the memory, so no thread is inside thread_do once the pool is freed. *)
DestroyWaitsForThreads ==
  freed => \A t \in Threads : pc[t] = "dead"

(* Every job thpool_add_work has queued is run, unless the pool is destroyed. *)
QueuedJobsFinish ==
  \A j \in Jobs : (j \in Outstanding) ~> (j \in finished \/ Destroying)

(* thpool.h, thpool_wait: once the queue is empty and all work has completed,
   the calling thread continues. *)
WaitReturns == \A c \in Clients : (pc[c] = "wlock") ~> (pc[c] = "wdone")

(* thpool_destroy ends: every thread leaves bsem_wait and its loop. *)
DestroyReturns == Destroying ~> freed

(* Every call that may sleep or spin returns. *)
CallsReturn == WaitReturns /\ DestroyReturns
=============================================================================
