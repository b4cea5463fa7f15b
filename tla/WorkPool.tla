------------------------------ MODULE WorkPool ------------------------------
(***************************************************************************)
(* What a thread pool promises to the code that submits work to it: every  *)
(* job is accepted once, started in the order of acceptance, run by one    *)
(* thread, and finished; once the pool has been closed, jobs nobody has    *)
(* started may be dropped, but only when no job is running any more.       *)
(***************************************************************************)
EXTENDS Naturals, Sequences

CONSTANT Jobs

VARIABLES pending,   \* jobs accepted and not started, oldest first
          running,   \* jobs some thread is running
          finished,  \* jobs whose function has returned
          closed     \* the owner has asked the pool to stop

workVars == <<pending, running, finished, closed>>

Accepted == {pending[i] : i \in 1 .. Len(pending)} \cup running \cup finished

Init == pending = <<>> /\ running = {} /\ finished = {} /\ closed = FALSE

Submit(j) ==
  /\ ~closed
  /\ j \notin Accepted
  /\ pending' = Append(pending, j)
  /\ UNCHANGED <<running, finished, closed>>

Start ==
  /\ pending # <<>>
  /\ Head(pending) \notin running \cup finished
  /\ pending' = Tail(pending)
  /\ running' = running \cup {Head(pending)}
  /\ UNCHANGED <<finished, closed>>

Finish(j) ==
  /\ j \in running
  /\ running' = running \ {j}
  /\ finished' = finished \cup {j}
  /\ UNCHANGED <<pending, closed>>

Close ==
  /\ closed' = TRUE
  /\ UNCHANGED <<pending, running, finished>>

Drop ==
  /\ closed
  /\ running = {}
  /\ pending # <<>>
  /\ pending' = Tail(pending)
  /\ UNCHANGED <<running, finished, closed>>

Next ==
  \/ \E j \in Jobs : Submit(j) \/ Finish(j)
  \/ Start
  \/ Close
  \/ Drop

Spec == Init /\ [][Next]_workVars
=============================================================================
