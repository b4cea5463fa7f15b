------------------------------ MODULE FsVolume ------------------------------
(***************************************************************************)
(* The fsx600 volume (CS5600Assignment4/fs_op_*.c and fs_util_*.c): inode  *)
(* and block bitmaps, the inode table, directory blocks, and the calls     *)
(* that change names.  One action is one call of the fuse_operations       *)
(* vector, with everything it calls, from its lookup to flush_metadata.    *)
(*                                                                         *)
(* vol is what the process and the image hold between two calls:           *)
(*   imap, bmap, inodes   the metadata in memory (struct ext2_fs)          *)
(*   dirty                the metadata blocks marked for flush_metadata    *)
(*   meta                 the metadata as the image holds it               *)
(*   blocks               the data blocks of the image, written through    *)
(*                                                                         *)
(* Metadata blocks are numbered as in fs.dirty: 0 the inode map, 1 the     *)
(* block map, 2 + n the n-th block of the inode table.  Sizes of           *)
(* directories are in entries; a file is at most MaxSize short writes of   *)
(* equal length to its first block, and what get_file_blkno does beyond    *)
(* the direct pointers is in module FsFile.                                *)
(***************************************************************************)
EXTENDS Naturals, Integers, FiniteSets

CONSTANTS
  Leaf,           \* names a path may end in
  Dot, DotDot,    \* the names "." and ".."
  NoName,         \* the name of an entry whose valid bit is 0
  Junk,           \* a name read from a block that is not a directory's
  LinkText,       \* names a symbolic link may hold, relative to its directory
  Data,           \* what a write puts into a file's first block
  NInodes,        \* fs.n_inodes; inode 1 is the root
  NBlocks,        \* data blocks of the volume
  DirentsPerBlk, InodesPerBlk,
  MaxBlks,        \* blocks a file or directory can address
  MaxSize,        \* bound: short writes to a file before it is truncated
  MaxNlink,       \* the largest value of the uint32_t nlink, after which it is 0
  MaxDirSize      \* the most entries a directory's uint32_t size in bytes can count

ASSUME SizesAssumption ==
  /\ {NInodes, NBlocks, DirentsPerBlk, InodesPerBlk, MaxBlks} \subseteq Nat \ {0}
  /\ DirentsPerBlk >= 2    \* . and .. of the root are in its first block
  /\ {MaxSize, MaxNlink, MaxDirSize} \subseteq Nat
ASSUME NamesAssumption ==
  /\ Leaf \cap {Dot, DotDot, NoName, Junk} = {}
  /\ Dot \notin {DotDot, NoName, Junk} /\ DotDot \notin {NoName, Junk} /\ NoName # Junk
  /\ LinkText \subseteq Leaf

\* an image has less than 2^21 data blocks (image.c multiplies block numbers by 1024
\* as int) of 32 entries of 32 bytes; nlink and size have 32 bits
ASSUME CountsAssumption == /\ NBlocks * DirentsPerBlk <= MaxNlink
                           /\ NBlocks * DirentsPerBlk <= MaxDirSize \div 2

VARIABLE vol

Inodes == 1 .. NInodes
Root == 1
Wild == 0         \* an inode number outside the table, as read from a block of text
Names == Leaf \cup {Dot, DotDot}

Slots == 0 .. DirentsPerBlk - 1
FreeSlot == [name |-> NoName, inum |-> Wild]
Zeros == [slots |-> [k \in Slots |-> FreeSlot], text |-> NoName]
Bytes(t) == [slots |-> [k \in Slots |-> [name |-> Junk, inum |-> Wild]], text |-> t]

LinkMore(x) == IF x = MaxNlink THEN 0 ELSE x + 1
LinkLess(x) == IF x = 0 THEN MaxNlink ELSE x - 1

\* the size of a directory: unsigned, and as the int of max.h
SizeMore(x) == IF x = MaxDirSize THEN 0 ELSE x + 1
SizeLess(x) == IF x = 0 THEN MaxDirSize ELSE x - 1
SizeLessOr0(x) == IF x = 0 \/ x - 1 > MaxDirSize \div 2 THEN 0 ELSE x - 1

Least(S) == CHOOSE x \in S : \A y \in S : x <= y
Done(v) == [vol |-> v, ok |-> TRUE]
Fail(v) == [vol |-> v, ok |-> FALSE]

-----------------------------------------------------------------------------
(* Metadata: fs_util_meta.c                                                *)

InodeBlk(i) == 2 + (i \div InodesPerBlk)
MarkInode(v, i) == [v EXCEPT !.dirty = @ \cup {InodeBlk(i)}]

FlushMetadata(v) ==
  LET written(b, new, old) == IF b \in v.dirty THEN new ELSE old IN
  [v EXCEPT
     !.meta = [imap |-> written(0, v.imap, @.imap),
               bmap |-> written(1, v.bmap, @.bmap),
               inodes |-> [i \in Inodes |-> written(InodeBlk(i), v.inodes[i], @.inodes[i])]],
     !.dirty = {}]

FreeInodes(v) == Inodes \ v.imap
FreeBlks(v) == (1 .. NBlocks) \ v.bmap
ReturnInode(v, i) == [v EXCEPT !.imap = @ \ {i}, !.dirty = @ \cup {0}]
ReturnBlks(v, B) == [v EXCEPT !.bmap = @ \ B, !.dirty = IF B = {} THEN @ ELSE @ \cup {1}]

-----------------------------------------------------------------------------
(* Blocks of a file: get_file_blkno for the direct pointers, do_truncate   *)

Ptrs(v, i) == {v.inodes[i].blk[k] : k \in 0 .. MaxBlks - 1} \ {0}

\* get_file_blkno with alloc = 1: fails outside the file's range or when no block is free
WithBlk(v, i, k) ==
  IF k < MaxBlks /\ v.inodes[i].blk[k] # 0 THEN Done(v)
  ELSE IF k >= MaxBlks \/ FreeBlks(v) = {} THEN Fail(v)
  ELSE LET b == Least(FreeBlks(v)) IN
       Done(MarkInode([v EXCEPT !.bmap = @ \cup {b}, !.dirty = @ \cup {1},
                                !.inodes[i].blk[k] = b, !.blocks[b] = Zeros], i))

\* mutant: the blocks are returned and the pointers left
TruncatedDangling(v, i) ==
  [ReturnBlks(v, Ptrs(v, i)) EXCEPT !.inodes[i].size = 0]

\* do_truncate(i, 0): of a file of size 0 only the last block is freed
Truncated(v, i) ==
  LET used == {k \in 0 .. MaxBlks - 1 : v.inodes[i].blk[k] # 0}
      freed == IF v.inodes[i].size # 0 THEN used
               ELSE {k \in used : \A j \in used : j <= k}
  IN [ReturnBlks(v, {v.inodes[i].blk[k] : k \in freed}) EXCEPT
        !.inodes[i].blk = [k \in 0 .. MaxBlks - 1 |-> IF k \in freed THEN 0 ELSE @[k]],
        !.inodes[i].size = 0]

-----------------------------------------------------------------------------
(* Directories: fs_util_dir.c.  A position counts entries from the first   *)
(* block of the directory.                                                 *)

IsDir(v, i) == v.inodes[i].type = "dir"

\* the blocks a scan reads: up to the first pointer that is 0
DirBlks(v, d) ==
  Cardinality({k \in 0 .. MaxBlks - 1 : \A j \in 0 .. k : v.inodes[d].blk[j] # 0})
Positions(v, d) == 0 .. DirBlks(v, d) * DirentsPerBlk - 1
Slot(v, d, p) ==
  v.blocks[v.inodes[d].blk[p \div DirentsPerBlk]].slots[p % DirentsPerBlk]

Found(v, d, n) == {p \in Positions(v, d) : Slot(v, d, p).name = n}
Target(v, d, n) == Slot(v, d, Least(Found(v, d, n))).inum
SetSlot(v, d, p, e) ==
  [v EXCEPT !.blocks[v.inodes[d].blk[p \div DirentsPerBlk]].slots[p % DirentsPerBlk] = e]

IsDirEmpty(v, d) == v.inodes[d].blk[0] = 0 \/ v.inodes[d].size = 2

\* get_dir_free_entry_block may extend the directory by a block, whatever follows
FreePositions(v, d) == Found(v, d, NoName)
WithFreeEntry(v, d) ==
  IF FreePositions(v, d) # {} THEN Done(v) ELSE WithBlk(v, d, DirBlks(v, d))

\* set_dir_entry, the write of the block and the directory's size
AddEntry(v, d, i, n) ==
  LET p == Least(FreePositions(v, d))
      entered == SetSlot(v, d, p, [name |-> n, inum |-> i])
      counted == MarkInode([entered EXCEPT !.inodes[i].nlink = LinkMore(@)], i)
  IN FlushMetadata(MarkInode([counted EXCEPT !.inodes[d].size = SizeMore(@)], d))

\* mutant: the directory's inode is not marked
DropEntryUnmarked(v, d, n, size) ==
  [SetSlot(v, d, Least(Found(v, d, n)), FreeSlot) EXCEPT !.inodes[d].size = size]

\* the entry's valid bit, the directory's new size; the inode's nlink is the caller's
DropEntry(v, d, n, size) ==
  LET p == Least(Found(v, d, n)) IN
  MarkInode([SetSlot(v, d, p, FreeSlot) EXCEPT !.inodes[d].size = size], d)

\* fs_unlink and fs_rmdir
Dropped(v, d, n) == DropEntry(v, d, n, SizeLessOr0(v.inodes[d].size))

-----------------------------------------------------------------------------
(* Paths: fs_util_path.c.  The directory d of a path is given; its last    *)
(* name may be a chain of symbolic links.  An empty link stands for the    *)
(* directory that holds it.                                                *)

\* the entry m of d is a link with a path, and the name its path ends in
LeadsOn(v, d, m) == Found(v, d, m) # {} /\ LET i == v.inodes[Target(v, d, m)] IN
                      i.type = "link" /\ i.size # 0
NextName(v, d, m) == v.blocks[v.inodes[Target(v, d, m)].blk[0]].text

\* the names get_inode_of_symlink_path goes through, from n on
Chain(v, d, n) ==
  {m \in Leaf : \A S \in SUBSET Leaf :
     n \in S /\ (\A x \in S : LeadsOn(v, d, x) => NextName(v, d, x) \in S) => m \in S}
LastName(v, d, n) == {m \in Chain(v, d, n) : ~LeadsOn(v, d, m)}

\* the recursion of get_inode_of_symlink_path has no end
Loops(v, d, n) == LastName(v, d, n) = {}

Resolve(v, d, n) ==
  LET m == CHOOSE x \in LastName(v, d, n) : TRUE
      i == Target(v, d, m)
  IN IF Loops(v, d, n) \/ Found(v, d, m) = {} THEN [found |-> FALSE, inum |-> Wild]
     ELSE [found |-> TRUE, inum |-> IF v.inodes[i].type = "link" THEN d ELSE i]

\* directories a path can lead to
Subdirs(v, d) ==
  {i \in Inodes : IsDir(v, i) /\ \E p \in Positions(v, d) :
                    Slot(v, d, p).name # NoName /\ Slot(v, d, p).inum = i}
Dirs(v) ==
  {i \in Inodes : \A S \in SUBSET Inodes :
     Root \in S /\ (\A d \in S : IsDir(v, d) => Subdirs(v, d) \subseteq S) => i \in S}

=============================================================================
