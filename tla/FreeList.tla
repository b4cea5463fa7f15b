------------------------------ MODULE FreeList ------------------------------
(***************************************************************************)
(* The allocator of assignment-3-master/mm_kr_heap.c over memlib.c: a      *)
(* header in front of each block holds its size, and the free blocks are   *)
(* on a circular list in the order of their addresses, which the static    *)
(* base, of size 0, closes.                                                *)
(*                                                                         *)
(* Addresses and sizes count units of a Header; base is unit 0, the area   *)
(* begins at unit 1; a request of n is one that needs n units after        *)
(* rounding up.  The operators map a heap to a heap.                       *)
(***************************************************************************)
EXTENDS Integers, Sequences, FiniteSets, FiniteSetsExt

CONSTANTS NUnits,      \* the units of MAX_HEAP
          PageUnits,   \* mem_pagesize() / sizeof(Header)
          IntUnits,    \* (INT_MAX + 1) / sizeof(Header)
          MaxRequest,  \* bound on a request
          Vals         \* what the client writes, as the fields of a Header

ASSUME HeapAssumption == NUnits \in Nat \ {0} /\ PageUnits \in Nat \ {0}
                         /\ MaxRequest \in Nat /\ Vals \subseteq 0 .. NUnits
\* a request, in a page at least, is of less than 4 GiB: its low 32 bits are all of it
ASSUME RequestsAssumption == IntUnits \in Nat /\ PageUnits < 2 * IntUnits
                             /\ MaxRequest + 1 < 2 * IntUnits

VARIABLES heap,   \* the units, freep and the break, 0 when there is no area
          live    \* the client's view: the contents of its allocations

vars == <<heap, live>>

Base == 0
Units == 0 .. NUnits
Null == NUnits + 1
Blob(v) == [ptr |-> v, size |-> v]

mm_units(n) == n + 1

\* mm_init, mm_reset and mm_deinit leave the list with base alone
Emptied(units) == [unit |-> [units EXCEPT ![Base] = [ptr |-> Base, size |-> 0]],
                   freep |-> Base, brk |-> 1]

\* the list from freep
Nth(h) == LET at[k \in 0 .. NUnits + 1] == IF k = 0 THEN h.freep ELSE h.unit[at[k - 1]].ptr IN at

----------------------------------------------------------------------------
(* mm_free, for a block *)

\* the assertion on the size
Valid(h, b) == h.unit[b].size > 0 /\ h.unit[b].size <= h.brk - 1

\* b belongs between p and its successor, at the end of the list included
Between(h, p, b) == LET q == h.unit[p].ptr IN
  \/ b > p /\ b < q
  \/ p >= q /\ (b > p \/ b < q)

\* the block after which b is inserted
Before(h, b) == LET nth == Nth(h) IN
  nth[Min({k \in 0 .. NUnits : Between(h, nth[k], b)})]

\* (mutant: b is linked to the block it has swallowed)
JoinUpperKeep(h, p, b) == LET q == h.unit[p].ptr IN
  IF b + h.unit[b].size = q
  THEN [h EXCEPT !.unit[b] = [ptr |-> q, size |-> @.size + h.unit[q].size]]
  ELSE [h EXCEPT !.unit[b].ptr = q]
JoinUpper(h, p, b) == LET q == h.unit[p].ptr IN
  IF b + h.unit[b].size = q
  THEN [h EXCEPT !.unit[b] = [ptr |-> h.unit[q].ptr, size |-> @.size + h.unit[q].size]]
  ELSE [h EXCEPT !.unit[b].ptr = q]

\* (mutant: the block below is linked only)
JoinLowerNever(h, p, b) == [h EXCEPT !.unit[p].ptr = b]
JoinLower(h, p, b) ==
  IF p + h.unit[p].size = b
  THEN [h EXCEPT !.unit[p] = [ptr |-> h.unit[b].ptr, size |-> @.size + h.unit[b].size]]
  ELSE [h EXCEPT !.unit[p].ptr = b]

MmFree(h, b) == LET p == Before(h, b) IN
  [JoinLower(JoinUpper(h, p, b), p, b) EXCEPT !.freep = p]

----------------------------------------------------------------------------
(* mm_malloc *)

TakeWhole(h, prev, p) ==
  [heap |-> [h EXCEPT !.unit[prev].ptr = h.unit[p].ptr, !.unit[p].ptr = Null, !.freep = prev], at |-> p]

\* (mutant: the rest keeps its size)
SplitTailWhole(h, prev, p, n) == LET tail == p + h.unit[p].size - n IN
  [heap |-> [h EXCEPT !.unit[tail] = [ptr |-> Null, size |-> n], !.freep = prev], at |-> tail]
SplitTail(h, prev, p, n) == LET tail == p + h.unit[p].size - n IN
  [heap |-> [h EXCEPT !.unit[p].size = @ - n, !.unit[tail] = [ptr |-> Null, size |-> n], !.freep = prev],
   at |-> tail]

Carve(h, prev, n) == LET p == h.unit[prev].ptr IN
  IF h.unit[p].size = n THEN TakeWhole(h, prev, p) ELSE SplitTail(h, prev, p, n)

\* the search: the block before the first that is large enough, once round
Fitting(h, n) == LET nth == Nth(h) IN {k \in 0 .. NUnits : h.unit[nth[k + 1]].size >= n}
Found(h, n) == Nth(h)[Min(Fitting(h, n))]

\* a size_t as the int that mem_sbrk takes
AsInt(n) == ((n + IntUnits) % (2 * IntUnits)) - IntUnits
\* the break is read before mem_init may move it
mem_sbrk(h, n) ==
  LET brk == Max({h.brk, 1})
      incr == AsInt(n)
  IN [ok |-> incr >= 0 /\ brk - 1 + incr <= NUnits, at |-> h.brk, heap |-> [h EXCEPT !.brk = brk + incr]]

morecore(h, n) ==
  LET nu == Max({n, PageUnits})
      s == mem_sbrk(h, nu)
  IN [ok |-> s.ok,
      heap |-> IF s.ok THEN MmFree([s.heap EXCEPT !.unit[s.at].size = nu], s.at) ELSE h]

\* after morecore the search goes on from the new freep
MmMalloc(h, n) ==
  LET nunits == mm_units(n)
      more == morecore(h, nunits)
      done(x) == [ok |-> TRUE, heap |-> x.heap, at |-> x.at]
  IN IF Fitting(h, nunits) # {} THEN done(Carve(h, Found(h, nunits), nunits))
     ELSE IF more.ok THEN done(Carve(more.heap, Found(more.heap, nunits), nunits))
     ELSE [ok |-> FALSE, heap |-> h, at |-> 0]

----------------------------------------------------------------------------
(* The client: it allocates, fills what it got, reallocates and frees *)

Fill(h, b, from, s) ==
  [h EXCEPT !.unit = [u \in Units |-> IF u \in b + from .. b + Len(s) THEN Blob(s[u - b]) ELSE @[u]]]

Malloc(n, v) ==
  LET m == MmMalloc(heap, n)
      s == [i \in 1 .. n |-> v]
  IN IF m.ok THEN /\ heap' = Fill(m.heap, m.at, 1, s)
                  /\ live' = [b \in DOMAIN live \cup {m.at} |-> IF b = m.at THEN s ELSE live[b]]
     ELSE UNCHANGED vars

Free(b) ==
  /\ heap' = MmFree(heap, b)
  /\ live' = [c \in DOMAIN live \ {b} |-> live[c]]

\* memcpy of the old payload, or of as much as was asked for
\* (mutant: one unit short)
CopyShort(h, from, to, n) ==
  LET len == Min({h.unit[from].size - 1, n}) IN
  [h EXCEPT !.unit = [u \in Units |-> IF u \in to + 1 .. to + len - 1 THEN @[u - to + from] ELSE @[u]]]
Copy(h, from, to, n) ==
  LET len == Min({h.unit[from].size - 1, n}) IN
  [h EXCEPT !.unit = [u \in Units |-> IF u \in to + 1 .. to + len THEN @[u - to + from] ELSE @[u]]]

Realloc(b, n, v) ==
  LET m == MmMalloc(heap, n)
      fits == n > 0 /\ heap.unit[b].size >= mm_units(n)
      s == [i \in 1 .. n |-> IF i <= Len(live[b]) THEN live[b][i] ELSE v]
      to == IF fits THEN b ELSE m.at
      h == IF fits THEN heap ELSE MmFree(Copy(m.heap, b, m.at, n), b)
  IN IF fits \/ m.ok
     THEN /\ heap' = Fill(h, to, Len(live[b]) + 1, s)
          /\ live' = [c \in (DOMAIN live \ {b}) \cup {to} |-> IF c = to THEN s ELSE live[c]]
     ELSE UNCHANGED vars

Zeros == [u \in Units |-> Blob(0)]
NoBlocks == live' = [b \in {} |-> <<>>]
Init == heap = Emptied(Zeros) /\ live = [b \in {} |-> <<>>]

mm_reset == heap' = Emptied(heap.unit) /\ NoBlocks
mm_deinit == heap' = [Emptied(heap.unit) EXCEPT !.brk = 0] /\ NoBlocks
\* mem_init gets the area from malloc again, as it was or zeroed
mm_init == \E units \in {heap.unit, Zeros} : heap' = Emptied(units) /\ UNCHANGED live

\* after mm_deinit the client calls mm_init before anything else
Next ==
  IF heap.brk = 0 THEN mm_init
  ELSE \/ \E n \in 0 .. MaxRequest, v \in Vals : Malloc(n, v) \/ \E b \in DOMAIN live : Realloc(b, n, v)
       \/ \E b \in DOMAIN live : Free(b)
       \/ mm_reset \/ mm_deinit

Spec == Init /\ [][Next]_vars

----------------------------------------------------------------------------
(* Correctness *)

\* the first units of the blocks, found by going from size to size
Starts == LET at[k \in 0 .. NUnits] ==
                IF k = 0 THEN 1
                ELSE LET b == at[k - 1] IN IF b < heap.brk THEN b + heap.unit[b].size ELSE b
          IN {at[k] : k \in 0 .. NUnits}
Blocks == {b \in Starts : b < heap.brk}
FreeBlocks == Blocks \ DOMAIN live
OnList == LET nth == Nth(heap) IN {nth[k] : k \in 0 .. NUnits}
Succ(b) == heap.unit[b].ptr

\* The fields of the units, the list's head and the break have their types.
TypeOK ==
  /\ heap.unit \in [Units -> [ptr : Units \cup {Null}, size : Units]]
  /\ heap.freep \in Units /\ heap.brk \in 0 .. NUnits + 1
  /\ DOMAIN live \subseteq Units

\* The sizes lead from block to block to the break, the client's blocks are
\* among them, and each has room for what was asked and passes the assertion of
\* mm_free.
SizesTile ==
  /\ TypeOK
  /\ heap.brk \in Starts \cup {0}
  /\ DOMAIN live \subseteq Blocks
  /\ \A b \in DOMAIN live : heap.unit[b].size > Len(live[b]) /\ Valid(heap, b)

\* The list is base and the free blocks in the order of their addresses; freep
\* is on it, wherever the last call left it, so that the loop of mm_free ends.
ListSorted ==
  /\ OnList = FreeBlocks \cup {Base}
  /\ \A b \in OnList : Succ(b) = Base \/ Succ(b) > b
  /\ \A b \in DOMAIN live : \E p \in OnList : Between(heap, p, b)

\* No two free blocks are neighbours: mm_free has joined them on either side.
Coalesced == \A b \in FreeBlocks : b + heap.unit[b].size \notin FreeBlocks

\* The allocator never writes into a client's payload, never gives out a unit
\* twice, and keeps the contents of what it reallocates.
Payload == [p \in {b + 1 : b \in DOMAIN live} |->
             [i \in 1 .. Len(live[p - 1]) |-> heap.unit[p + i - 1]]]
Promise == INSTANCE Heap WITH Units <- Units, Vals <- {Blob(v) : v \in Vals}, blocks <- Payload
ImplementsHeap == Promise!Spec

----------------------------------------------------------------------------
(* What the code's comments claim and the code does not do *)

\* "Calculate the total amount of available free memory" (mm_kr_heap.c:336): the
\* scan stops where the list turns back to base
Ascending == LET at[k \in 0 .. NUnits] == IF k = 0 THEN heap.freep
                     ELSE LET b == at[k - 1] IN Max({b, Succ(b)})
             IN {at[k] : k \in 0 .. NUnits}
SizeOf(b) == heap.unit[b].size
mm_getfree == MapThenSumSet(SizeOf, Ascending)
GetFreeExact == mm_getfree = MapThenSumSet(SizeOf, FreeBlocks)

\* "Extends the heap by incr bytes and returns the start address of the new area"
\* (memlib.c:64): what mem_sbrk adds is what morecore asks for
Asked == 1 .. 2 * IntUnits + NUnits
GrowsAsAsked == \A n \in Asked : LET s == mem_sbrk(heap, n) IN
  s.ok => s.heap.brk = Max({heap.brk, 1}) + n

\* "initialize memory if not already initialized" (memlib.c:73): what mem_sbrk
\* then returns lies in the area
SbrkReturnsArea == mem_sbrk(heap, 1).ok => mem_sbrk(heap, 1).at > 0
=============================================================================
