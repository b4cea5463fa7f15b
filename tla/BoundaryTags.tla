---------------------------- MODULE BoundaryTags ----------------------------
(***************************************************************************)
(* The allocator of assignment-3-master/mm_kr2_heap.c over memlib.c: the   *)
(* first and the last unit of a block carry its size and a flag, isFree,   *)
(* which is 0 when the block is free; the free blocks are on a circular    *)
(* doubly linked list that starts at freep and contains the base block.    *)
(*                                                                         *)
(* Addresses and sizes count units of a Header; a request of n is one that *)
(* needs n units after rounding up.  The operators map a heap to a heap;   *)
(* the client writes all of its payload, in which the allocator may later  *)
(* find tags, sizes and links it never wrote.                              *)
(***************************************************************************)
EXTENDS Integers, Sequences, FiniteSets, FiniteSetsExt

CONSTANTS NUnits,      \* the units of MAX_HEAP
          PageUnits,   \* mem_pagesize() / sizeof(Header)
          IntUnits,    \* (INT_MAX + 1) / sizeof(Header)
          MaxRequest,  \* bound on a request
          Vals         \* what the client writes, as the fields of a Header

ASSUME HeapAssumption == NUnits \in Nat /\ NUnits >= 3 /\ PageUnits \in Nat /\ PageUnits >= 2
                         /\ MaxRequest \in Nat /\ Vals \subseteq 0 .. NUnits
\* a request, in a page at least, is of less than 4 GiB: its low 32 bits are all of it
ASSUME RequestsAssumption == IntUnits \in Nat /\ PageUnits < 2 * IntUnits
                             /\ MaxRequest + 2 < 2 * IntUnits

VARIABLES heap,   \* the units, freep and the break
          live    \* the client's view: the contents of its allocations

vars == <<heap, live>>

Units == 0 .. NUnits   \* with the one past the area, where morecore puts a tag
First == 3             \* the first unit of the first block
Most == NUnits \div 2   \* no more than this many blocks, of two units at least
Blob(v) == [next |-> v, prev |-> v, size |-> v, isFree |-> v]

----------------------------------------------------------------------------
(* Links and tags *)

mm_units(n) == n + 2

Sized(h, b, n) == [h EXCEPT !.unit[b].size = n, !.unit[b + n - 1].size = n]
Tagged(h, b, n, t) == [h EXCEPT !.unit[b].isFree = t, !.unit[b + n - 1].isFree = t]

Linked(h, b) == LET after == h.unit[h.freep].next IN
  [h EXCEPT !.unit[b].prev = h.freep, !.unit[b].next = after,
            !.unit[after].prev = b, !.unit[h.freep].next = b]
Unlinked(h, b) == LET u == h.unit[b] IN
  [h EXCEPT !.unit[u.prev].next = u.next, !.unit[u.next].prev = u.prev]

\* mm_init on zeroed memory, mm_reset on memory as it is
Based(units) ==
  [unit |-> [units EXCEPT ![0] = [next |-> 0, prev |-> 0, size |-> 2, isFree |-> 1],
                          ![1].size = 2, ![1].isFree = 1, ![2].isFree = 1],
   freep |-> 0, brk |-> 3]

----------------------------------------------------------------------------
(* mm_free, for a block *)

\* the assertion on the size
Valid(h, b) == h.unit[b].size > 0 /\ h.unit[b].size <= h.brk

JoinUpper(h, b) == LET up == b - h.unit[b - 1].size
                       n == h.unit[b].size + h.unit[up].size
                   IN [heap |-> Sized(h, up, n), at |-> up]
JoinLower(h, b) == LET low == b + h.unit[b].size IN
  Sized(Unlinked(h, low), b, h.unit[b].size + h.unit[low].size)

MmFree(h, b) ==
  LET x == IF h.unit[b - 1].isFree # 0 THEN [heap |-> Linked(h, b), at |-> b] ELSE JoinUpper(h, b)
      y == IF x.heap.unit[x.at + x.heap.unit[x.at].size].isFree = 0
           THEN JoinLower(x.heap, x.at) ELSE x.heap
  IN [Tagged(y, x.at, y.unit[x.at].size, 0) EXCEPT !.freep = x.at]

----------------------------------------------------------------------------
(* mm_malloc *)

\* the list from freep along next
Nth(h) == LET at[k \in 0 .. Most] == IF k = 0 THEN h.freep ELSE h.unit[at[k - 1]].next IN at

Fits(h, b, n) == h.unit[b].isFree = 0 /\ h.unit[b].size >= n

\* (mutant: freep stays on a block that is taken)
TakeWholeStay(h, b) == [heap |-> Unlinked(Tagged(h, b, h.unit[b].size, 1), b), at |-> b]
TakeWhole(h, b) == LET x == Unlinked(Tagged(h, b, h.unit[b].size, 1), b) IN
  [heap |-> [x EXCEPT !.freep = IF @ = b THEN x.unit[b].prev ELSE @], at |-> b]

\* the tail goes to the client; the flag at the new end of the rest is not set
\* (mutant: the new end of the rest does not get its size either)
SplitTailHead(h, b, n) == LET rest == h.unit[b].size - n IN
  [heap |-> Tagged(Sized([h EXCEPT !.unit[b].size = rest], b + rest, n), b + rest, n, 1), at |-> b + rest]
SplitTail(h, b, n) == LET rest == h.unit[b].size - n IN
  [heap |-> Tagged(Sized(Sized(h, b, rest), b + rest, n), b + rest, n, 1), at |-> b + rest]

Carve(h, b, n) == IF h.unit[b].size < n + 2 THEN TakeWhole(h, b) ELSE SplitTail(h, b, n)

\* a size_t as the int that mem_sbrk takes
AsInt(n) == ((n + IntUnits) % (2 * IntUnits)) - IntUnits
mem_sbrk(h, n) == LET incr == AsInt(n) IN
  [ok |-> incr >= 0 /\ h.brk + incr <= NUnits, heap |-> [h EXCEPT !.brk = @ + incr]]

morecore(h, n) ==
  LET nu == Max({n, PageUnits})
      s == mem_sbrk(h, nu)
      b == h.brk
  IN [ok |-> s.ok,
      heap |-> IF ~s.ok THEN h
               ELSE MmFree([Tagged(Sized(s.heap, b, nu), b, nu, 0) EXCEPT !.unit[b + nu].isFree = 1], b)]

MmMalloc(h, n) ==
  LET nunits == mm_units(n)
      nth == Nth(h)
      found == {k \in 0 .. Most : Fits(h, nth[k], nunits)}
      more == morecore(h, nunits)
      done(x) == [ok |-> TRUE, heap |-> x.heap, at |-> x.at]
  IN IF found # {} THEN done(Carve(h, nth[Min(found)], nunits))
     ELSE IF more.ok THEN done(Carve(more.heap, more.heap.freep, nunits))
     ELSE [ok |-> FALSE, heap |-> h, at |-> 0]

----------------------------------------------------------------------------
(* The client: it allocates, fills what it got, reallocates and frees *)

Fill(h, b, from, s) ==
  [h EXCEPT !.unit = [u \in Units |-> IF u \in b + from .. b + Len(s) THEN Blob(s[u - b]) ELSE @[u]]]

Malloc(n, v) ==
  LET m == MmMalloc(heap, n)
      s == [i \in 1 .. n |-> v]
  IN IF m.ok THEN /\ heap' = Fill(m.heap, m.at, 1, s)
                  /\ live' = [b \in DOMAIN live \cup {m.at} |-> IF b = m.at THEN s ELSE live[b]]
     ELSE UNCHANGED vars

Free(b) ==
  /\ heap' = MmFree(heap, b)
  /\ live' = [c \in DOMAIN live \ {b} |-> live[c]]

\* memcpy of the old payload, or of as much as was asked for
\* (mutant: one unit short)
CopyShort(h, from, to, n) ==
  LET len == Min({h.unit[from].size - 2, n}) IN
  [h EXCEPT !.unit = [u \in Units |-> IF u \in to + 1 .. to + len - 1 THEN @[u - to + from] ELSE @[u]]]
Copy(h, from, to, n) ==
  LET len == Min({h.unit[from].size - 2, n}) IN
  [h EXCEPT !.unit = [u \in Units |-> IF u \in to + 1 .. to + len THEN @[u - to + from] ELSE @[u]]]

Realloc(b, n, v) ==
  LET m == MmMalloc(heap, n)
      fits == n > 0 /\ heap.unit[b].size >= mm_units(n)
      s == [i \in 1 .. n |-> IF i <= Len(live[b]) THEN live[b][i] ELSE v]
      to == IF fits THEN b ELSE m.at
      h == IF fits THEN heap ELSE MmFree(Copy(m.heap, b, m.at, n), b)
  IN IF fits \/ m.ok
     THEN /\ heap' = Fill(h, to, Len(live[b]) + 1, s)
          /\ live' = [c \in (DOMAIN live \ {b}) \cup {to} |-> IF c = to THEN s ELSE live[c]]
     ELSE UNCHANGED vars

Zeros == [u \in Units |-> Blob(0)]
Init == heap = Based(Zeros) /\ live = [b \in {} |-> <<>>]

mm_reset == heap' = Based(heap.unit) /\ live' = [b \in {} |-> <<>>]
\* mem_init gets the area from malloc again, as it was or zeroed
mm_deinit == /\ \E units \in {heap.unit, Zeros} : heap' = Based(units)
             /\ live' = [b \in {} |-> <<>>]

Next ==
  \/ \E n \in 0 .. MaxRequest, v \in Vals : Malloc(n, v) \/ \E b \in DOMAIN live : Realloc(b, n, v)
  \/ \E b \in DOMAIN live : Free(b)
  \/ mm_reset \/ mm_deinit

Spec == Init /\ [][Next]_vars

----------------------------------------------------------------------------
(* Correctness *)

\* the first units of the blocks, found by going from size to size
Starts == LET at[k \in 0 .. Most] ==
                IF k = 0 THEN First
                ELSE LET b == at[k - 1] IN IF b < heap.brk THEN b + heap.unit[b].size ELSE b
          IN {at[k] : k \in 0 .. Most}
Blocks == {b \in Starts : b < heap.brk}
FreeBlocks == {b \in Blocks : heap.unit[b].isFree = 0}
Last(b) == b + heap.unit[b].size - 1
OnList == LET nth == Nth(heap) IN {nth[k] : k \in 0 .. Most}

\* The fields of the units, the list's head and the break have their types.
TypeOK ==
  /\ heap.unit \in [Units -> [next : Units, prev : Units, size : Units, isFree : Units]]
  /\ heap.freep \in Units /\ heap.brk \in First .. NUnits
  /\ DOMAIN live \subseteq Units

\* After any sequence of splits and joins the sizes lead from block to block to
\* the break, and every block carries its size at both ends: what mm_free reads
\* on either side of a block is the size of a neighbour.
TagsAgree ==
  /\ heap.brk \in Starts
  /\ \A b \in Blocks : heap.unit[b].size >= 2 /\ heap.unit[Last(b)].size = heap.unit[b].size
  /\ heap.unit[heap.brk].isFree = 1 \/ heap.brk = First

\* The flag of an allocated block is set at both ends, so that no neighbour
\* joins it; the allocated blocks are those the client holds, none is lost; each
\* has room for what was asked and passes the assertion of mm_free.
LiveTagged ==
  /\ Blocks \ FreeBlocks = DOMAIN live
  /\ \A b \in DOMAIN live : heap.unit[b].isFree = 1 /\ heap.unit[Last(b)].isFree = 1
                            /\ heap.unit[b].size >= Len(live[b]) + 2 /\ Valid(heap, b)

\* What the allocator will read of any block agrees with what the client holds.
TagsExact == TypeOK /\ TagsAgree /\ LiveTagged

\* The circular list from freep holds the base and the free blocks, and prev
\* undoes next.
ListExact ==
  /\ OnList = FreeBlocks \cup {0}
  /\ \A b \in OnList : heap.unit[heap.unit[b].next].prev = b /\ heap.unit[heap.unit[b].prev].next = b

\* The allocator never writes into a client's payload, never gives out a unit
\* twice, and keeps the contents of what it reallocates.
Payload == [p \in {b + 1 : b \in DOMAIN live} |->
             [i \in 1 .. Len(live[p - 1]) |-> heap.unit[p + i - 1]]]
Promise == INSTANCE Heap WITH Units <- Units, Vals <- {Blob(v) : v \in Vals},
                              blocks <- Payload
ImplementsHeap == Promise!Spec

----------------------------------------------------------------------------
(* What the code's comments claim and the code does not do *)

\* "coalesce if adjacent to upper neighbor" (mm_kr2_heap.c:220): no two free
\* blocks are neighbours
Coalesced == \A b \in FreeBlocks : Last(b) + 1 \notin FreeBlocks

\* "Calculate the total amount of available free memory" (mm_kr2_heap.c:357)
Ascending == LET at[k \in 0 .. Most] == IF k = 0 THEN heap.freep
                     ELSE LET b == at[k - 1] IN Max({b, heap.unit[b].next})
             IN {at[k] : k \in 0 .. Most}
SizeOf(b) == heap.unit[b].size
mm_getfree == SizeOf(heap.freep)
              + MapThenSumSet(SizeOf, {b \in Ascending \ {heap.freep} : heap.unit[b].isFree = 0})
GetFreeExact == mm_getfree = MapThenSumSet(SizeOf, FreeBlocks)

\* "it is not possible to free storage that was already freed" (README.md:16)
FreeAgain(b) == b \in FreeBlocks /\ Valid(heap, b) /\ heap' = MmFree(heap, b) /\ UNCHANGED live
SpecFreeAgain == Init /\ [][Next \/ \E b \in Units : FreeAgain(b)]_vars

\* "Extends the heap by incr bytes and returns the start address of the new area"
\* (memlib.c:64): what mem_sbrk adds is what morecore asks for
Asked == 1 .. 2 * IntUnits + NUnits
GrowsAsAsked == \A n \in Asked : LET s == mem_sbrk(heap, n) IN s.ok => s.heap.brk = heap.brk + n

\* morecore stays inside the area when it puts a tag after the new units
TagInside == heap.brk < NUnits
=============================================================================
