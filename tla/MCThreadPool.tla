---------------------------- MODULE MCThreadPool ----------------------------
(***************************************************************************)
(* Small instances of ThreadPool for TLC.                                  *)
(***************************************************************************)
EXTENDS ThreadPool, TLC

(* Threads, clients and jobs are interchangeable. *)
Symmetry == Permutations(Threads) \cup Permutations(Clients) \cup Permutations(Jobs)
=============================================================================
