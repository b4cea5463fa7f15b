---------------------------- MODULE MCPoolStatics ----------------------------
(***************************************************************************)
(* Small instances of PoolStatics for TLC.                                 *)
(***************************************************************************)
EXTENDS PoolStatics, TLC
=============================================================================
