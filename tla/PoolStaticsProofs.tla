-------------------------- MODULE PoolStaticsProofs --------------------------
(***************************************************************************)
(* Theorems about PoolStatics: what the pool keeps whatever the statics of *)
(* thpool.c are set to, by thpool_pause and thpool_resume and by the other *)
(* pools of the process.                                                   *)
(***************************************************************************)
EXTENDS PoolStatics, ThreadPoolProofs

(* A step of the pool itself is one of ThreadPool: the signal handler only   *)
(* keeps threads from taking theirs.                                         *)
LEMMA PoolStepIsNext == PoolStep => Next
BY DEF PoolStep, Next

(* Every other step changes nothing of the pool but threads_keepalive.       *)
KeepaliveOnly ==
  /\ keepalive' \in BOOLEAN
  /\ UNCHANGED <<queueVars, semVars, countVars, freed, pc, threadVars, owed>>

LEMMA StaticsStep ==
  ASSUME TypeOK, [StaticsNext]_allVars
  PROVE  [Next]_vars \/ KeepaliveOnly
<1>1. CASE PoolStep BY <1>1, PoolStepIsNext
<1>2. ASSUME NEW c \in Clients, Pause(c) \/ Resume(c) PROVE UNCHANGED vars
  BY <1>2 DEF Pause, Resume
<1>3. ASSUME NEW t \in Threads, EnterHold(t) \/ LeaveHold(t) PROVE UNCHANGED vars
  BY <1>3 DEF EnterHold, LeaveHold
<1>4. CASE OtherInit \/ OtherDestroy BY <1>4 DEF OtherInit, OtherDestroy, KeepaliveOnly
<1>5. CASE UNCHANGED allVars BY <1>5 DEF allVars
<1> QED BY <1>1, <1>2, <1>3, <1>4, <1>5 DEF StaticsNext

LEMMA KeepaliveCore ==
  ASSUME CoreInv, KeepaliveOnly
  PROVE  CoreInv'
<1> USE DEF CoreInv, KeepaliveOnly, queueVars, semVars, countVars, threadVars
<1>1. TypeInv' BY DEF TypeInv, TypeOK, LenInv, LabelInv, JobInv
<1>2. LockInv' /\ SleepInv' BY DEF LockInv, SleepInv
<1>3. CountInv' BY StillCounts
<1>4. ReadyInv' /\ DestroyInv' /\ FreedInv' BY DEF ReadyInv, DestroyInv, FreedInv
<1>5. OnceInv' BY DEF OnceInv
<1>6. OwedInv'
  <2>1. Outstanding' = Outstanding /\ Running' = Running BY DEF Outstanding, Running
  <2> QED BY <2>1 DEF OwedInv
<1> QED BY <1>1, <1>2, <1>3, <1>4, <1>5, <1>6

LEMMA StaticsCore == CoreInv /\ [StaticsNext]_allVars => CoreInv'
<1> SUFFICES ASSUME CoreInv, [StaticsNext]_allVars PROVE CoreInv'
  OBVIOUS
<1>1. [Next]_vars \/ KeepaliveOnly BY StaticsStep DEF CoreInv, TypeInv
<1> QED BY <1>1, NextCoreInv, KeepaliveCore

(* The part of the pool's invariant that does not speak of threads_keepalive *)
(* survives every pause, every resume and every other pool.                  *)
THEOREM StaticsInvariant == StaticsSpec => []CoreInv
<1>1. StaticsInit => CoreInv BY InitIInv DEF StaticsInit, IInv
<1> QED BY <1>1, StaticsCore, PTL DEF StaticsSpec

(* thpool_wait covers the jobs outstanding at its call even while threads are *)
(* held in the handler and another pool's thpool_destroy sends the workers    *)
(* out of their loop.                                                         *)
THEOREM StaticsWaitCovers == StaticsSpec => []WaitCoversWork
<1>1. CoreInv => WaitCoversWork BY DEF CoreInv, OwedInv, WaitCoversWork
<1> QED BY <1>1, StaticsInvariant, PTL

(* ... and each job still runs at most once, in the order of its queueing,    *)
(* and none is dropped while one runs.                                        *)
THEOREM StaticsRefinement == StaticsSpec => ImplementsWorkPool
<1>1. StaticsInit => Work!Init
  <2> SUFFICES ASSUME Init PROVE Work!Init
    BY DEF StaticsInit
  <2>1. Running = {} BY DEF Init, Running
  <2>2. \A c \in Clients : pc[c] = "init"
    BY ClientsAssumption DEF Init, Procs, ClientsAssumption
  <2> QED BY <2>1, <2>2 DEF Init, Work!Init, Destroying
<1>2. CoreInv /\ [StaticsNext]_allVars => [Work!Next]_(Work!workVars)
  <2> SUFFICES ASSUME CoreInv, [StaticsNext]_allVars PROVE [Work!Next]_(Work!workVars)
    OBVIOUS
  <2>1. [Next]_vars \/ KeepaliveOnly BY StaticsStep DEF CoreInv, TypeInv
  <2>2. CASE [Next]_vars BY <2>2, RefineStep
  <2>3. CASE KeepaliveOnly
    <3>1. Stutter BY <2>3, Invisible DEF KeepaliveOnly, queueVars, threadVars
    <3> QED BY <3>1, StutterWorks
  <2> QED BY <2>1, <2>2, <2>3
<1> QED BY <1>1, <1>2, StaticsInvariant, PTL DEF StaticsSpec, ImplementsWorkPool, Work!Spec
=============================================================================
