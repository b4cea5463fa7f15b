---------------------------- MODULE MCFsQueries -----------------------------
(* Instances of FsQueries, and so of FsHandles, for TLC. *)
EXTENDS FsQueries, MCFsCalls

HandlesView == <<fh, View>>
HandlesViewUncounted == <<fh, ViewUncounted>>
=============================================================================
