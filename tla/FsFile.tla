------------------------------- MODULE FsFile -------------------------------
(***************************************************************************)
(* The blocks of a file (CS5600Assignment4/fs_util_file.c): the direct,    *)
(* indirect and double-indirect pointers that get_file_blkno follows and   *)
(* extends, do_read, do_write and do_truncate on top of it, and the block  *)
(* map all files share.                                                    *)
(*                                                                         *)
(* A block is Ptrs cells; a cell holds a pointer or a byte.  The pointers  *)
(* of an inode are one function: 0 .. NDirect-1 the direct ones, NDirect   *)
(* indir_1 and NDirect+1 indir_2.  A place is where a pointer is kept:     *)
(* <<0, k>> in the inode, <<b, k>> in cell k of block b.                   *)
(***************************************************************************)
EXTENDS Naturals, Integers, Sequences, FiniteSets

CONSTANTS
  Files,      \* the inodes
  Byte,       \* Byte[f] is the byte every write to f writes
  NDirect, Ptrs, NBlocks,
  MaxWrite,   \* bound: cells of one write
  MaxSize     \* bound: MaxSize[f] cells of file f

ASSUME SizesAssumption ==
  /\ {NDirect, Ptrs, NBlocks, MaxWrite} \subseteq Nat \ {0}
  /\ MaxSize \in [Files -> Nat]
ASSUME BytesAssumption == \A f \in Files : Byte[f] \in Nat /\ Byte[f] > NBlocks

VARIABLES
  size,     \* size[f]: in->size
  ptr,      \* ptr[f]: the pointers of the inode
  used,     \* the blocks the block map marks
  blocks,   \* the contents of the data blocks
  beyond    \* get_file_blkno indexed past the end of a pointer block

vars == <<size, ptr, used, blocks, beyond>>

Indir1 == NDirect
Indir2 == NDirect + 1
Cell == 0 .. Ptrs - 1
Blocks == 1 .. NBlocks
Zeros == [k \in Cell |-> 0]
Least(S) == CHOOSE x \in S : \A y \in S : x <= y
Lower(x, y) == IF x < y THEN x ELSE y

-----------------------------------------------------------------------------
(* get_file_blkno.  While a call runs, vol is the volume so far and blk    *)
(* the block it has come to, 0 when there is none.                         *)

Volume == [size |-> size, ptr |-> ptr, used |-> used, blocks |-> blocks, beyond |-> beyond]
At(v, b) == [vol |-> v, blk |-> b]

Pointer(v, f, place) ==
  IF place[1] = 0 THEN v.ptr[f][place[2]] ELSE v.blocks[place[1]][place[2]]
SetPointer(v, f, place, b) ==
  IF place[1] = 0 THEN [v EXCEPT !.ptr[f][place[2]] = b]
  ELSE [v EXCEPT !.blocks[place[1]][place[2]] = b]

\* the block a place points to, allocated when it points to none
Follow(v, f, place, zeroed) ==
  IF Pointer(v, f, place) # 0 THEN At(v, Pointer(v, f, place))
  ELSE IF v.used = Blocks THEN At(v, 0)
  ELSE LET b == Least(Blocks \ v.used)
           w == SetPointer([v EXCEPT !.used = @ \cup {b}], f, place, b)
       IN At(IF zeroed THEN [w EXCEPT !.blocks[b] = Zeros] ELSE w, b)

\* one level down from the block c has come to
Descend(c, f, k, zeroed) ==
  IF c.blk = 0 THEN c ELSE Follow(c.vol, f, <<c.blk, k>>, zeroed)

\* mutant: the two levels of the double-indirect blocks are swapped
BlkForSwapped(v, f, n) ==
  LET n1 == n - NDirect
      n2 == n1 - Ptrs
  IN IF n < NDirect THEN Follow(v, f, <<0, n>>, TRUE)
     ELSE IF n1 < Ptrs THEN Descend(Follow(v, f, <<0, Indir1>>, TRUE), f, n1, FALSE)
     ELSE IF n2 >= Ptrs * Ptrs THEN At(v, 0)
     ELSE Descend(Descend(Follow(v, f, <<0, Indir2>>, TRUE), f, n2 % Ptrs, TRUE),
                  f, n2 \div Ptrs, TRUE)

\* the bound of the double-indirect blocks admits one index too many
BlkFor(v, f, n) ==
  LET n1 == n - NDirect
      n2 == n1 - Ptrs
  IN IF n < NDirect THEN Follow(v, f, <<0, n>>, TRUE)
     ELSE IF n1 < Ptrs THEN Descend(Follow(v, f, <<0, Indir1>>, TRUE), f, n1, FALSE)
     ELSE IF n2 > Ptrs * Ptrs THEN At(v, 0)
     ELSE IF n2 = Ptrs * Ptrs THEN At([v EXCEPT !.beyond = TRUE], 0)
     ELSE Descend(Descend(Follow(v, f, <<0, Indir2>>, TRUE), f, n2 \div Ptrs, TRUE),
                  f, n2 % Ptrs, TRUE)

\* the same with alloc = 0
Lookup(v, f, n) ==
  LET down(b, k) == IF b = 0 THEN 0 ELSE v.blocks[b][k]
      n1 == n - NDirect
      n2 == n1 - Ptrs
  IN IF n < NDirect THEN v.ptr[f][n]
     ELSE IF n1 < Ptrs THEN down(v.ptr[f][Indir1], n1)
     ELSE IF n2 >= Ptrs * Ptrs THEN 0
     ELSE down(down(v.ptr[f][Indir2], n2 \div Ptrs), n2 % Ptrs)

-----------------------------------------------------------------------------
(* do_read and do_write.  Both visit the blocks from offset's to           *)
(* offset+len's, the last of which they need not touch.                    *)

NoData == <<-1>>    \* -EIO

\* the len cells from offset on, fewer at the end of the file
DoRead(v, f, offset, len) ==
  LET n == IF offset >= v.size[f] THEN 0 ELSE Lower(len, v.size[f] - offset)
  IN IF n = 0 THEN <<>>
     ELSE IF \E k \in offset \div Ptrs .. (offset + n) \div Ptrs : Lookup(v, f, k) = 0 THEN NoData
     ELSE [j \in 1 .. n |-> LET at == offset + j - 1 IN
             v.blocks[Lookup(v, f, at \div Ptrs)][at % Ptrs]]

\* do_get of the shell: fs_read gives MaxWrite cells at a time until none comes;
\* it tries again for ever when a read fails
DoGet(v, f) ==
  LET read == [k \in 0 .. v.size[f] \div MaxWrite |-> DoRead(v, f, k * MaxWrite, MaxWrite)]
  IN IF NoData \in {read[k] : k \in DOMAIN read} THEN NoData
     ELSE [j \in 1 .. v.size[f] |-> read[(j - 1) \div MaxWrite][((j - 1) % MaxWrite) + 1]]

\* mutants: the block after a full last one is not visited; every block adds
\* the whole length to the size
DoWriteTight(v, f, offset, len) ==
  LET first == offset \div Ptrs
      visits == (offset + len - 1) \div Ptrs - first + 1
      from(k) == IF k = 1 THEN offset % Ptrs ELSE 0
      step[k \in 0 .. visits] ==
        IF k = 0 THEN [vol |-> v, left |-> len]
        ELSE LET c == step[k - 1]
                 got == BlkFor(c.vol, f, first + k - 1)
                 l == Lower(Ptrs - from(k), c.left)
             IN [vol |-> [got.vol EXCEPT
                   !.blocks[got.blk] = [x \in Cell |-> IF x \in from(k) .. from(k) + l - 1 THEN Byte[f] ELSE @[x]],
                   !.size[f] = @ + l], left |-> c.left - l]
  IN step[visits].vol
DoWriteWhole(v, f, offset, len) ==
  LET visits == (offset + len) \div Ptrs - offset \div Ptrs + 1
      step[k \in 0 .. visits] ==
        IF k = 0 THEN v
        ELSE LET got == BlkFor(step[k - 1], f, offset \div Ptrs + k - 1) IN
             IF got.blk = 0 THEN got.vol ELSE [got.vol EXCEPT !.size[f] = @ + len]
  IN step[visits]

\* the blocks of do_write: step[k] is k blocks later, stopped when no block
\* could be had; what an earlier block got stays, and so does the size
WriteLoop(v, f, offset, len) ==
  LET first == offset \div Ptrs
      visits == (offset + len) \div Ptrs - first + 1
      from(k) == IF k = 1 THEN offset % Ptrs ELSE 0
      copied(c, b, lo, l) ==
        [c EXCEPT !.blocks[b] = [x \in Cell |-> IF x \in lo .. lo + l - 1 THEN Byte[f] ELSE @[x]],
                  !.size[f] = @ + l]
      step[k \in 0 .. visits] ==
        IF k = 0 THEN [vol |-> v, left |-> len, stopped |-> FALSE]
        ELSE LET c == step[k - 1]
                 got == BlkFor(c.vol, f, first + k - 1)
                 l == Lower(Ptrs - from(k), c.left)
             IN IF c.stopped THEN c
                ELSE IF got.blk = 0 THEN [c EXCEPT !.vol = got.vol, !.stopped = TRUE]
                ELSE [vol |-> copied(got.vol, got.blk, from(k), l), left |-> c.left - l,
                      stopped |-> FALSE]
  IN step[visits]
DoWrite(v, f, offset, len) == WriteLoop(v, f, offset, len).vol

\* mutant: a write that stored all its cells is no failure
PutCallShort(v, f, n) ==
  LET pieces == (n + MaxWrite - 1) \div MaxWrite
      piece[k \in 0 .. pieces] ==
        IF k = 0 THEN [vol |-> v, left |-> 0, stopped |-> FALSE]
        ELSE IF piece[k - 1].left > 0 THEN piece[k - 1]
        ELSE WriteLoop(piece[k - 1].vol, f, (k - 1) * MaxWrite, Lower(MaxWrite, n - (k - 1) * MaxWrite))
  IN [vol |-> piece[pieces].vol, ok |-> piece[pieces].left = 0]

\* do_put of the shell, once the file has been made: n cells, MaxWrite at a
\* time, until a write fails; one that stopped at its last block does
PutCall(v, f, n) ==
  LET pieces == (n + MaxWrite - 1) \div MaxWrite
      piece[k \in 0 .. pieces] ==
        IF k = 0 THEN [vol |-> v, left |-> 0, stopped |-> FALSE]
        ELSE IF piece[k - 1].stopped THEN piece[k - 1]
        ELSE WriteLoop(piece[k - 1].vol, f, (k - 1) * MaxWrite, Lower(MaxWrite, n - (k - 1) * MaxWrite))
  IN [vol |-> piece[pieces].vol, ok |-> ~piece[pieces].stopped]

-----------------------------------------------------------------------------
(* do_truncate                                                             *)

\* pointers of block b, none when b = 0
In(v, b) == IF b = 0 THEN {} ELSE {v.blocks[b][k] : k \in Cell} \ {0}
Freed(v, B) == [v EXCEPT !.used = @ \ B]

\* mutant: the single-indirect block itself is kept
FreeAllHeadKept(v, f, len) ==
  LET p == v.ptr[f]
      heads == In(v, p[Indir2])
  IN [Freed(v, UNION ({In(v, h) : h \in heads} \cup
                      {heads, In(v, p[Indir1]), {p[k] : k \in (0 .. Indir2) \ {Indir1}} \ {0}}))
      EXCEPT !.ptr[f] = [k \in 0 .. Indir2 |-> 0], !.size[f] = len]

\* every block of the file is returned, whatever len is
FreeAll(v, f, len) ==
  LET p == v.ptr[f]
      heads == In(v, p[Indir2])
  IN [Freed(v, UNION ({In(v, h) : h \in heads} \cup
                      {heads, In(v, p[Indir1]), {p[k] : k \in 0 .. Indir2} \ {0}}))
      EXCEPT !.ptr[f] = [k \in 0 .. Indir2 |-> 0], !.size[f] = len]

\* len is the size: the first level that is in use loses its last block and
\* the call returns; the pointer to it is cleared only when it is direct
FreeLast(v, f) ==
  LET p == v.ptr[f]
      heads == {k \in Cell : p[Indir2] # 0 /\ v.blocks[p[Indir2]][k] # 0}
      direct == {k \in 0 .. NDirect - 1 : p[k] # 0}
      last(S) == CHOOSE x \in S : \A y \in S : x >= y
      lastOf(b) == {v.blocks[b][Ptrs - 1]} \ {0}
      bare == IF p[Indir2] = 0 THEN v
              ELSE [Freed(v, {p[Indir2]}) EXCEPT !.ptr[f][Indir2] = 0]
  IN IF heads # {} THEN Freed(v, lastOf(v.blocks[p[Indir2]][last(heads)]))
     ELSE IF p[Indir1] # 0 THEN Freed(bare, lastOf(p[Indir1]))
     ELSE IF direct # {}
     THEN [Freed(bare, {p[last(direct)]}) EXCEPT !.ptr[f][last(direct)] = 0]
     ELSE bare

DoTruncate(v, f, len) == IF len = v.size[f] THEN FreeLast(v, f) ELSE FreeAll(v, f, len)

-----------------------------------------------------------------------------
(* Calls                                                                   *)

Becomes(v) ==
  /\ size' = v.size /\ ptr' = v.ptr /\ used' = v.used
  /\ blocks' = v.blocks /\ beyond' = v.beyond

Init ==
  /\ size = [f \in Files |-> 0]
  /\ ptr = [f \in Files |-> [k \in 0 .. Indir2 |-> 0]]
  /\ used = {}
  /\ blocks = [b \in Blocks |-> Zeros]
  /\ beyond = FALSE

Write(f, offset, len) ==
  /\ offset <= size[f]
  /\ size[f] + len <= MaxSize[f]
  /\ Becomes(DoWrite(Volume, f, offset, len))

Truncate(f, len) ==
  /\ len <= size[f]
  /\ Becomes(DoTruncate(Volume, f, len))

\* the calls of misc.c: put appends, truncate empties
AppendOnly == \E f \in Files :
  \/ \E len \in 1 .. MaxWrite : Write(f, size[f], len)
  \/ Truncate(f, 0)

Overwrite == \E f \in Files :
  \/ \E offset \in 0 .. size[f], len \in 1 .. MaxWrite : Write(f, offset, len)
  \/ Truncate(f, 0)

Next == \E f \in Files :
  \/ \E offset \in 0 .. size[f], len \in 1 .. MaxWrite : Write(f, offset, len)
  \/ \E len \in 0 .. size[f] : Truncate(f, len)

SpecAppend == Init /\ [][AppendOnly]_vars
SpecOverwrite == Init /\ [][Overwrite]_vars
Spec == Init /\ [][Next]_vars

-----------------------------------------------------------------------------
(* Properties                                                              *)

TypeOK ==
  /\ size \in [Files -> Nat] /\ \A f \in Files : size[f] <= MaxSize[f]
  /\ ptr \in [Files -> [0 .. Indir2 -> 0 .. NBlocks]]
  /\ used \subseteq Blocks
  /\ blocks \in [Blocks -> [Cell -> 0 .. NBlocks \cup {Byte[f] : f \in Files}]]
  /\ beyond \in BOOLEAN

\* the blocks of a file with its pointer blocks, as a bag over paths
Reached(f) ==
  LET v == Volume
      p == ptr[f]
  IN {<<k, 0, 0, p[k]>> : k \in 0 .. Indir2} \cup
     {<<Indir1, k, 0, IF p[Indir1] = 0 THEN 0 ELSE blocks[p[Indir1]][k]>> : k \in Cell} \cup
     {<<Indir2, k, 0, IF p[Indir2] = 0 THEN 0 ELSE blocks[p[Indir2]][k]>> : k \in Cell} \cup
     {<<Indir2, k[1], k[2] + 1,
        LET h == IF p[Indir2] = 0 THEN 0 ELSE blocks[p[Indir2]][k[1]]
        IN IF h = 0 THEN 0 ELSE blocks[h][k[2]]>> : k \in Cell \X Cell}
Owners == {x \in UNION {{f} \X Reached(f) : f \in Files} : x[2][4] # 0}

\* Every block marked in the block map is reached on exactly one path of one
\* file, and no file reaches a block that is not marked.
BlocksExact ==
  /\ used = {x[2][4] : x \in Owners}
  /\ Cardinality(used) = Cardinality(Owners)

\* Getting a file in pieces gives what was put into it, and no call changes
\* another file.
Contents == [f \in Files |-> DoGet(Volume, f)]
Store == INSTANCE FileContents WITH Cells <- {Byte[f] : f \in Files}, bytes <- Contents
ImplementsContents == Store!Spec

\* Every block below the end of a file exists: the cells do_write counts in the
\* size are in blocks it got, also when it stops half way on a full volume.
NoHoles == \A f \in Files : \A k \in 0 .. size[f] - 1 : Lookup(Volume, f, k \div Ptrs) # 0

\* After any sequence of writes, of which some stopped half way, and truncations,
\* the blocks marked are those the files reach, and they reach all their size.
StoredExact == TypeOK /\ BlocksExact /\ NoHoles

\* Truncating keeps the cells below the new length.
TruncateKeeps == [][\A f \in Files : \A len \in 0 .. size[f] :
  Truncate(f, len) => DoRead(Volume, f, 0, len) = DoRead(Volume', f, 0, len)]_vars

\* A block that extends a file is all zeros but for what is written to it.
TailZero == \A f \in Files : LET b == Lookup(Volume, f, size[f] \div Ptrs) IN
  b # 0 => \A k \in Cell : k >= size[f] % Ptrs => blocks[b][k] = 0

\* Reading a file that was put, at once or in pieces, never comes to a block that
\* does not exist: do_get ends.
ReadableToEnd == \A f \in Files : DoRead(Volume, f, 0, size[f]) # NoData /\ DoGet(Volume, f) # NoData

\* A put into a new file that reports success has stored the local file: get, in
\* pieces, gives all of its cells, whichever piece a full volume stops.
PutStored == \A f \in Files : size[f] = 0 => \A n \in 0 .. MaxSize[f] :
  LET put == PutCall(Volume, f, n) IN
  put.ok => DoGet(put.vol, f) = [j \in 1 .. n |-> Byte[f]]

\* get_file_blkno stays inside its pointer blocks.
IndexInRange == ~beyond
=============================================================================
