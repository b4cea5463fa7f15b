---------------------------- MODULE FileContents ----------------------------
(***************************************************************************)
(* What a store of files promises: a file is a sequence of cells; a write  *)
(* at its end adds the cells, or a first part of them when there is no     *)
(* room for all; truncating a file to nothing empties it; no call touches  *)
(* another file.                                                           *)
(***************************************************************************)
EXTENDS Naturals, Sequences

CONSTANTS Files, Cells, MaxWrite

VARIABLE bytes

Init == bytes = [f \in Files |-> <<>>]

Extend(f, s) == bytes' = [bytes EXCEPT ![f] = @ \o s]
Empty(f) == bytes' = [bytes EXCEPT ![f] = <<>>]

Next == \E f \in Files :
  \/ \E n \in 0 .. MaxWrite : \E s \in [1 .. n -> Cells] : Extend(f, s)
  \/ Empty(f)

Spec == Init /\ [][Next]_bytes
=============================================================================
