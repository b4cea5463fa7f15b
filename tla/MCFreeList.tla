----------------------------- MODULE MCFreeList -----------------------------
(* Instances of FreeList for TLC. *)
EXTENDS FreeList

\* the allocator never reads a unit inside a free block or past the break
\* before it writes it; the client never reads past what it asked for; a header
\* in use has no link
Used == UNION {b + 1 .. b + Len(live[b]) : b \in DOMAIN live}
View == <<live, heap.freep, heap.brk,
          [u \in Units |-> IF u \in FreeBlocks \cup DOMAIN live \cup {Base} \cup Used
                           THEN heap.unit[u] ELSE Blob(0)]>>
=============================================================================
