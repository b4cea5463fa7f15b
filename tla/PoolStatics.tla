----------------------------- MODULE PoolStatics -----------------------------
(***************************************************************************)
(* The two statics of thpool.c that are shared by every pool of a process. *)
(* threads_on_hold is set by the SIGUSR1 handler that thpool_pause makes   *)
(* every thread run, at whatever point of ThreadPool the thread is, and    *)
(* cleared by thpool_resume.  threads_keepalive is cleared and set by the  *)
(* destruction and creation of any other pool.                             *)
(***************************************************************************)
EXTENDS ThreadPool

CONSTANTS MaxPauses,    \* how often clients call thpool_pause
          OtherPools    \* how many other pools the process creates

ASSUME BoundsAssumption == MaxPauses \in Nat /\ OtherPools \in Nat

VARIABLES onHold,      \* threads_on_hold
          signalled,   \* the threads with SIGUSR1 pending
          inHandler,   \* the threads inside thread_hold
          pauses,      \* calls of thpool_pause so far
          paused,      \* history: a pause that no resume has followed
          others       \* other pools: created so far, and one exists now

holdVars == <<onHold, signalled, inHandler>>
staticVars == <<holdVars, pauses, paused, others>>
allVars == <<vars, staticVars>>

StaticsInit ==
  /\ Init
  /\ onHold = FALSE /\ signalled = {} /\ inHandler = {}
  /\ pauses = 0 /\ paused = FALSE
  /\ others = [created |-> 0, exists |-> FALSE]

(* thpool_pause: pthread_kill to each thread. *)
Pause(c) ==
  /\ pc[c] = "idle" /\ ~Destroying
  /\ pauses < MaxPauses
  /\ signalled' = Threads
  /\ pauses' = pauses + 1 /\ paused' = TRUE
  /\ UNCHANGED <<vars, onHold, inHandler, others>>

(* thpool_resume: one assignment. *)
Resume(c) ==
  /\ pc[c] = "idle" /\ ~Destroying
  /\ paused
  /\ onHold' = FALSE /\ paused' = FALSE
  /\ UNCHANGED <<vars, signalled, inHandler, pauses, others>>

(* The kernel delivers the signal; thread_hold sets the static. *)
EnterHold(t) ==
  /\ t \in signalled \ inHandler
  /\ pc[t] # "dead"
  /\ signalled' = signalled \ {t}
  /\ inHandler' = inHandler \cup {t}
  /\ onHold' = TRUE
  /\ UNCHANGED <<vars, pauses, paused, others>>

(* thread_hold returns when one of its polls finds the static cleared. *)
LeaveHold(t) ==
  /\ t \in inHandler
  /\ ~onHold
  /\ inHandler' = inHandler \ {t}
  /\ UNCHANGED <<vars, onHold, signalled, pauses, paused, others>>

(* Another pool of the process: its thpool_init and thpool_destroy as far as
   they reach this one. *)
OtherInit ==
  /\ ~others.exists /\ others.created < OtherPools
  /\ others' = [created |-> others.created + 1, exists |-> TRUE]
  /\ onHold' = FALSE
  /\ keepalive' = TRUE
  /\ UNCHANGED <<queueVars, semVars, countVars, freed, pc, threadVars, owed,
                 signalled, inHandler, pauses, paused>>

OtherDestroy ==
  /\ others.exists
  /\ others' = [others EXCEPT !.exists = FALSE]
  /\ keepalive' = FALSE
  /\ UNCHANGED <<queueVars, semVars, countVars, freed, pc, threadVars, owed,
                 holdVars, pauses, paused>>

(* A thread inside the handler takes no step of thread_do. *)
PoolStep ==
  /\ \/ \E t \in Threads \ inHandler : ThreadStep(t)
     \/ \E c \in Clients : ClientCall(c) \/ ClientStep(c)
     \/ InitReturn
     \/ SpuriousWake
  /\ UNCHANGED staticVars

StaticsNext ==
  \/ PoolStep
  \/ \E c \in Clients : Pause(c) \/ Resume(c)
  \/ \E t \in Threads : EnterHold(t) \/ LeaveHold(t)
  \/ OtherInit
  \/ OtherDestroy

StaticsSpec == StaticsInit /\ [][StaticsNext]_allVars

RunsOn(t) == t \notin inHandler /\ ThreadStep(t) /\ UNCHANGED staticVars

StaticsFairSpec ==
  /\ StaticsSpec
  /\ \A t \in Threads : /\ SF_allVars(RunsOn(t))
                        /\ WF_allVars(EnterHold(t))
                        /\ WF_allVars(LeaveHold(t))
  /\ \A c \in Clients : SF_allVars(ClientStep(c) /\ UNCHANGED staticVars)
  /\ WF_allVars(InitReturn /\ UNCHANGED staticVars)

-----------------------------------------------------------------------------
(* thpool.h, thpool_pause: the threads return to their previous states once
   thpool_resume is called. *)
ResumeReleases ==
  (pauses = MaxPauses /\ ~paused) ~>
    (\A t \in Threads : t \in inHandler \cup signalled => pc[t] = "dead")

(* thpool.h, thpool_pause: while the threads are paused, new work can be added;
   a paused thread therefore never holds the lock thpool_add_work needs. *)
PausedPoolTakesWork == rwmutex \notin inHandler
=============================================================================
