--------------------------- MODULE MCBoundaryTags ---------------------------
(* Instances of BoundaryTags for TLC. *)
EXTENDS BoundaryTags

\* the allocator never reads the links of a unit that is not the first of a
\* free block, nor the size of one inside a block or past the break, before it
\* writes them; the client never reads past what it asked for
Inside == UNION {b + 1 .. Last(b) - 1 : b \in FreeBlocks} \cup heap.brk .. NUnits
          \cup UNION {b + 1 + Len(live[b]) .. Last(b) - 1 : b \in DOMAIN live}
Allocated == Blocks \ FreeBlocks
View == <<live, heap.freep, heap.brk,
          [u \in Units |->
             IF u \in FreeBlocks \cup {0} THEN heap.unit[u]
             ELSE IF u \in Inside THEN [Blob(0) EXCEPT !.isFree = heap.unit[u].isFree]
             ELSE IF u \in Allocated \cup {Last(b) : b \in Blocks} \/ u < First
                  THEN [heap.unit[u] EXCEPT !.next = 0, !.prev = 0]
             ELSE heap.unit[u]]>>
=============================================================================
