-------------------------------- MODULE Heap --------------------------------
(***************************************************************************)
(* What a memory allocator promises to its client: every allocation is a   *)
(* run of units that no other allocation touches and that holds what the   *)
(* client wrote there, until it is freed; reallocating keeps the contents, *)
(* as far as they fit; a request that cannot be met changes nothing.       *)
(***************************************************************************)
EXTENDS Naturals, Sequences

CONSTANTS Units,   \* the units an allocation may lie in
          Vals     \* what the client writes into a unit

VARIABLE blocks    \* the contents of the allocations, by address

Span(p, n) == p .. p + n - 1
Apart(p, n, others) ==
  /\ Span(p, n) \subseteq Units
  /\ \A q \in others : p # q /\ Span(p, n) \cap Span(q, Len(blocks[q])) = {}

Held == DOMAIN blocks
With(p, s, others) == [q \in others \cup {p} |-> IF q = p THEN s ELSE blocks[q]]

Init == blocks = [p \in {} |-> <<>>]

Malloc(p, s) == Apart(p, Len(s), Held) /\ blocks' = With(p, s, Held)

Free(p) == p \in Held /\ blocks' = [q \in Held \ {p} |-> blocks[q]]

\* the allocation moves or stays; what is new in it the client writes
Realloc(p, q, s) ==
  /\ p \in Held /\ Apart(q, Len(s), Held \ {p})
  /\ \A i \in DOMAIN s : i <= Len(blocks[p]) => s[i] = blocks[p][i]
  /\ blocks' = With(q, s, Held \ {p})

\* the heap starts again from nothing
Reset == Init'

Next ==
  \/ Reset
  \/ \E p \in Held : Free(p)
  \/ \E q \in DOMAIN blocks' :
       \/ Malloc(q, blocks'[q])
       \/ \E p \in Held : Realloc(p, q, blocks'[q])

Spec == Init /\ [][Next]_blocks
=============================================================================
