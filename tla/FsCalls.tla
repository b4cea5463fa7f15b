------------------------------ MODULE FsCalls -------------------------------
(***************************************************************************)
(* The calls of fs_ops that change the volume (fs_op_*.c), and Remount:    *)
(* the process ends between two calls and fs_init reads the image again.   *)
(* A call gets the directory d its path leads to and the last name n of    *)
(* the path; each Call operator gives the volume after the call and        *)
(* whether it returned 0.                                                  *)
(***************************************************************************)
EXTENDS FsVolume

CONSTANT MaxRaised    \* bound: the nlink up to which PlainRename takes an inode

NewInode(type, blk) == [type |-> type, nlink |-> 0, size |-> 0, blk |-> blk]

\* init_new_inode: the block pointers of the inode are those it was freed with
InitNewInode(v, i, type) ==
  MarkInode([v EXCEPT !.imap = @ \cup {i}, !.dirty = @ \cup {0},
                      !.inodes[i] = NewInode(type, v.inodes[i].blk)], i)

\* mutants: the name may exist already; the inode is taken before the directory
\* is known to have room
MkEntryAgain(v, d, n, type) ==
  LET room == WithFreeEntry(v, d)
      i == Least(FreeInodes(v))
  IN IF ~room.ok \/ FreeInodes(v) = {} THEN Fail(room.vol)
     ELSE Done(AddEntry(InitNewInode(room.vol, i, type), d, i, n))
MkEntryInodeFirst(v, d, n, type) ==
  LET i == Least(FreeInodes(v))
      taken == InitNewInode(v, i, type)
      room == WithFreeEntry(taken, d)
  IN IF Found(v, d, n) # {} \/ FreeInodes(v) = {} THEN Fail(v)
     ELSE IF ~room.ok THEN Fail(room.vol)
     ELSE Done(AddEntry(room.vol, d, i, n))

MkEntry(v, d, n, type) ==
  LET room == WithFreeEntry(v, d)
      i == Least(FreeInodes(v))
  IN IF Found(v, d, n) # {} THEN Fail(v)
     ELSE IF ~room.ok \/ FreeInodes(v) = {} THEN Fail(room.vol)
     ELSE Done(AddEntry(InitNewInode(room.vol, i, type), d, i, n))

\* do_mklink; fs_link has the same steps
MkLink(v, i, d, n) ==
  LET room == WithFreeEntry(v, d) IN
  IF ~IsDir(v, d) \/ Found(v, d, n) # {} THEN Fail(v)
  ELSE IF ~room.ok THEN Fail(room.vol)
  ELSE Done(AddEntry(room.vol, d, i, n))

\* mutant: the call ends without flush_metadata
DoUnlinkUnflushed(v, i, d, n) ==
  Done([DropEntry(v, d, n, SizeLess(v.inodes[d].size)) EXCEPT !.inodes[i].nlink = LinkLess(@)])

\* do_unlink, used by rename only: the inode is not marked, its blocks are kept
DoUnlink(v, i, d, n) ==
  LET dropped == DropEntry(v, d, n, SizeLess(v.inodes[d].size))
      less == [dropped EXCEPT !.inodes[i].nlink = LinkLess(@)]
  IN IF ~IsDir(v, d) \/ Found(v, d, n) = {} THEN Fail(v)
     ELSE Done(FlushMetadata(IF less.inodes[i].nlink = 0
                             THEN ReturnInode(less, i) ELSE less))

MkdirCall(v, d, n) ==
  LET made == MkEntry(v, d, n, "dir")
      i == Target(made.vol, d, n)
      dot == MkLink(made.vol, i, i, Dot)
  IN IF ~made.ok THEN made
     ELSE IF ~dot.ok THEN dot
     ELSE MkLink(dot.vol, d, i, DotDot)

\* the result of do_write is not looked at
SymlinkCall(v, d, n, t) ==
  LET made == MkEntry(v, d, n, "link")
      i == Target(made.vol, d, n)
      room == WithBlk(made.vol, i, 0)
      b == room.vol.inodes[i].blk[0]
  IN IF ~made.ok THEN made
     ELSE Done(FlushMetadata(MarkInode(
            IF room.ok THEN [room.vol EXCEPT !.blocks[b] = Bytes(t), !.inodes[i].size = 1]
            ELSE room.vol, i)))

\* mutant: the parent keeps the count of the child's ..
RmdirCallParentKept(v, d, n) ==
  LET i == Target(v, d, n) IN
  IF Found(v, d, n) = {} THEN Fail(v)
  ELSE IF ~IsDir(v, i) \/ ~IsDirEmpty(v, i) THEN Fail(v)
  ELSE Done(FlushMetadata(ReturnInode(MarkInode(Truncated(Dropped(v, d, n), i), i), i)))

RmdirCall(v, d, n) ==
  LET i == Target(v, d, n)
      gone == [Dropped(v, d, n) EXCEPT !.inodes[d].nlink = LinkLess(@)]
  IN IF Found(v, d, n) = {} THEN Fail(v)
     ELSE IF ~IsDir(v, i) \/ ~IsDirEmpty(v, i) THEN Fail(v)
     ELSE Done(FlushMetadata(ReturnInode(MarkInode(Truncated(gone, i), i), i)))

\* mutants: the inode is freed whatever its count; its blocks are not returned
UnlinkCallAlways(v, d, n) ==
  LET i == Target(v, d, n) IN
  IF Found(v, d, n) = {} THEN Fail(v)
  ELSE IF IsDir(v, i) THEN Fail(v)
  ELSE Done(FlushMetadata(ReturnInode(Truncated(MarkInode(Dropped(v, d, n), i), i), i)))
UnlinkCallBlocksKept(v, d, n) ==
  LET i == Target(v, d, n)
      less == MarkInode([Dropped(v, d, n) EXCEPT !.inodes[i].nlink = LinkLess(@)], i)
  IN IF Found(v, d, n) = {} THEN Fail(v)
     ELSE IF IsDir(v, i) THEN Fail(v)
     ELSE Done(FlushMetadata(IF less.inodes[i].nlink = 0 THEN ReturnInode(less, i) ELSE less))

UnlinkCall(v, d, n) ==
  LET i == Target(v, d, n)
      less == MarkInode([Dropped(v, d, n) EXCEPT !.inodes[i].nlink = LinkLess(@)], i)
  IN IF Found(v, d, n) = {} THEN Fail(v)
     ELSE IF IsDir(v, i) THEN Fail(v)
     ELSE Done(FlushMetadata(IF less.inodes[i].nlink = 0
                             THEN ReturnInode(Truncated(less, i), i) ELSE less))

\* mutant: the source's entry is kept
RenameCallKept(v, d, n, e, m, samePerm) ==
  LET src == Resolve(v, d, n) IN
  IF Found(v, d, n) = {} \/ Found(v, e, m) # {} THEN Fail(v)
  ELSE Done(MkLink(v, src.inum, e, m).vol)

\* the results of do_mklink and of the last do_unlink are not looked at; samePerm:
\* the permission bits of source and target, which mode holds too, are equal
RenameCall(v, d, n, e, m, samePerm) ==
  LET src == Resolve(v, d, n)
      dst == Resolve(v, e, m)
      exists == Found(v, e, m) # {}
      sameMode == \/ src.inum = dst.inum
                  \/ v.inodes[src.inum].type = v.inodes[dst.inum].type /\ samePerm
      replaced == IF ~exists THEN Done(v)
                  ELSE IF ~sameMode THEN Fail(v)
                  ELSE IF ~IsDir(v, dst.inum) THEN DoUnlink(v, dst.inum, e, m)
                  ELSE IF IsDirEmpty(v, dst.inum) THEN RmdirCall(v, e, m) ELSE Fail(v)
  IN IF Found(v, d, n) = {} THEN Fail(v)
     ELSE IF ~replaced.ok THEN replaced
     ELSE Done(DoUnlink(MkLink(replaced.vol, src.inum, e, m).vol, src.inum, d, n).vol)

\* a write of t, which is shorter than a block, at offset 0
DoWrite(v, i, t) ==
  LET room == WithBlk(v, i, 0)
      b == room.vol.inodes[i].blk[0]
  IN IF room.ok
     THEN Done(FlushMetadata(MarkInode([room.vol EXCEPT !.blocks[b] = Bytes(t),
                                                        !.inodes[i].size = @ + 1], i)))
     ELSE Fail(FlushMetadata(MarkInode(v, i)))

-----------------------------------------------------------------------------
(* mkfs (not in this repository) makes a root that holds only . and ..     *)

Init ==
  LET root == [NewInode("dir", [k \in 0 .. MaxBlks - 1 |-> IF k = 0 THEN 1 ELSE 0])
                 EXCEPT !.nlink = 2, !.size = 2]
      table == [i \in Inodes |-> IF i = Root THEN root
                                 ELSE NewInode("none", [k \in 0 .. MaxBlks - 1 |-> 0])]
      entries == [k \in Slots |-> IF k = 0 THEN [name |-> Dot, inum |-> Root]
                                  ELSE IF k = 1 THEN [name |-> DotDot, inum |-> Root]
                                  ELSE FreeSlot]
  IN vol = [imap |-> {Root}, bmap |-> {1}, inodes |-> table, dirty |-> {},
            meta |-> [imap |-> {Root}, bmap |-> {1}, inodes |-> table],
            blocks |-> [b \in 1 .. NBlocks |-> IF b = 1 THEN [Zeros EXCEPT !.slots = entries]
                                               ELSE Zeros]]

Mknod(d, n) == vol' = MkEntry(vol, d, n, "file").vol
Mkdir(d, n) == vol' = MkdirCall(vol, d, n).vol
Symlink(d, n, t) == vol' = SymlinkCall(vol, d, n, t).vol
Rmdir(d, n) == vol' = RmdirCall(vol, d, n).vol
Unlink(d, n) == vol' = UnlinkCall(vol, d, n).vol

\* the inode a path leads to, links followed; a chain of links without end
\* overflows the stack, and Remount is what follows
Leads(d, n, i) == ~Loops(vol, d, n) /\ Resolve(vol, d, n) = [found |-> TRUE, inum |-> i]

Link(d, n, e, m) == \E i \in Inodes :
  /\ Leads(d, n, i) /\ ~IsDir(vol, i)
  /\ vol' = MkLink(vol, i, e, m).vol

\* renaming a link that leads nowhere, or onto one, indexes the inode table
\* with an error number: not modelled
LeadsNowhere(d, n) ==
  Loops(vol, d, n) \/ (Found(vol, d, n) # {} /\ ~Resolve(vol, d, n).found)
Rename(d, n, e, m) ==
  /\ ~LeadsNowhere(d, n) /\ ~LeadsNowhere(e, m)
  /\ \E samePerm \in BOOLEAN : vol' = RenameCall(vol, d, n, e, m, samePerm).vol

Write(d, n, t) == \E i \in Inodes :
  /\ Leads(d, n, i) /\ ~IsDir(vol, i) /\ vol.inodes[i].size < MaxSize
  /\ vol' = DoWrite(vol, i, t).vol

Truncate(d, n) == \E i \in Inodes :
  /\ Leads(d, n, i) /\ ~IsDir(vol, i)
  /\ vol' = FlushMetadata(MarkInode(Truncated(vol, i), i))

\* fs_chmod and fs_utime: the attribute is not modelled, the flush is
SetAttr(d, n) == \E i \in Inodes :
  /\ Leads(d, n, i)
  /\ vol' = FlushMetadata(MarkInode(vol, i))

\* fs_init
Remounted == [vol EXCEPT !.imap = vol.meta.imap, !.bmap = vol.meta.bmap,
                         !.inodes = vol.meta.inodes, !.dirty = {}]
Remount == vol' = Remounted

Next ==
  \/ \E d \in Dirs(vol), n \in Leaf :
       \/ Mknod(d, n) \/ Mkdir(d, n) \/ Rmdir(d, n) \/ Unlink(d, n)
       \/ Truncate(d, n) \/ SetAttr(d, n)
       \/ \E t \in Data : Write(d, n, t)
       \/ \E t \in LinkText : Symlink(d, n, t)
       \/ \E e \in Dirs(vol), m \in Leaf : Link(d, n, e, m)
  \/ Remount

Spec == Init /\ [][Next]_vol

RenameAny == \E d, e \in Dirs(vol), n, m \in Leaf : Rename(d, n, e, m)
SpecRename == Init /\ [][Next \/ RenameAny]_vol

\* the renames that the names survive: to a name that is free, in a directory that
\* has room, of a file, or of a directory within its parent; each can leave the
\* image's count one too high, so that restarts in between would raise it for ever
PlainRename(d, n, e, m) ==
  /\ Found(vol, d, n) # {} /\ Found(vol, e, m) = {} /\ WithFreeEntry(vol, e).ok
  /\ LET i == vol.inodes[Target(vol, d, n)] IN
       /\ i.type = "file" \/ (i.type = "dir" /\ d = e)
       /\ i.nlink <= MaxRaised
  /\ Rename(d, n, e, m)
RenamePlain == \E d, e \in Dirs(vol), n, m \in Leaf : PlainRename(d, n, e, m)
SpecPlain == Init /\ [][Next \/ RenamePlain]_vol

-----------------------------------------------------------------------------
(* Properties                                                              *)

LiveDirs == {i \in vol.imap : IsDir(vol, i)}
EntriesOf(d) == {p \in Positions(vol, d) : Slot(vol, d, p).name # NoName}
EntriesTo(i) == {x \in LiveDirs \X (0 .. MaxBlks * DirentsPerBlk - 1) :
                   /\ x[2] \in EntriesOf(x[1])
                   /\ Slot(vol, x[1], x[2]).inum = i}

Metadata == [imap : SUBSET Inodes, bmap : SUBSET (1 .. NBlocks),
             inodes : [Inodes -> [type : {"none", "dir", "file", "link"}, nlink : 0 .. MaxNlink, size : Nat,
                                  blk : [0 .. MaxBlks - 1 -> 0 .. NBlocks]]]]
TypeOK ==
  /\ DOMAIN vol = {"imap", "bmap", "inodes", "dirty", "meta", "blocks"}
  /\ [imap |-> vol.imap, bmap |-> vol.bmap, inodes |-> vol.inodes] \in Metadata
  /\ vol.meta \in Metadata
  /\ vol.dirty \subseteq 0 .. InodeBlk(NInodes)
  /\ vol.blocks \in [1 .. NBlocks -> [slots : [Slots -> [name : Names \cup {NoName, Junk}, inum : Inodes \cup {Wild}]],
                                      text : LinkText \cup Data \cup {NoName}]]

\* Every entry of a directory names an inode that is allocated: no call frees
\* an inode some directory still names.
EntriesLive == \A d \in LiveDirs : \A p \in EntriesOf(d) : Slot(vol, d, p).inum \in vol.imap

\* The reference count of an inode is the number of entries that name it, . and
\* .. among them: unlink frees the inode exactly when its last name goes.
LinkCounts == \A i \in vol.imap : vol.inodes[i].nlink = Cardinality(EntriesTo(i))

\* A data block is marked in the block map exactly when one allocated inode
\* points to it: none is lost, none is shared.
BlocksExact ==
  /\ vol.bmap = UNION {Ptrs(vol, i) : i \in vol.imap}
  /\ \A i, j \in vol.imap : i # j => Ptrs(vol, i) \cap Ptrs(vol, j) = {}

\* init_new_inode leaves the block pointers alone: an inode must be free of
\* blocks when it is returned.
FreeInodesEmpty == \A i \in FreeInodes(vol) : Ptrs(vol, i) = {}

\* No block is lost, shared, or carried over to the next user of an inode,
\* whatever calls failed half way.
AllocationExact == BlocksExact /\ FreeInodesEmpty

\* is_dir_empty relies on the size of a directory counting its entries.
DirSizeExact == \A d \in LiveDirs : vol.inodes[d].size = Cardinality(EntriesOf(d))

\* "." names the directory itself and ".." the directory that holds it.
DotEntries == \A d \in LiveDirs :
  /\ Found(vol, d, Dot) # {} /\ Target(vol, d, Dot) = d
  /\ Found(vol, d, DotDot) # {}
  /\ d # Root => \E n \in Leaf : LET up == Target(vol, d, DotDot) IN
                   up \in vol.imap /\ Found(vol, up, n) # {} /\ Target(vol, up, n) = d

\* A directory that rmdir takes for empty holds no name but "." and "..".
EmptyHasNoNames ==
  \A d \in LiveDirs : IsDirEmpty(vol, d) => \A n \in Leaf : Found(vol, d, n) = {}

\* What a directory says of its contents, of itself and of its parent is so, and
\* its size is the number of what it says.
DirectoriesExact == EntriesLive /\ DirSizeExact /\ DotEntries

\* Between two calls the image has the inodes and the entries that memory has.
ImageHasNames ==
  /\ vol.meta.imap = vol.imap
  /\ \A i \in vol.imap : vol.meta.inodes[i].size = vol.inodes[i].size
  /\ \A d \in LiveDirs, n \in Names : Found(vol, d, n) = Found(Remounted, d, n)

\* Between two calls the image has what a restart needs: the names, and the same
\* counts.
ImageCurrent ==
  /\ ImageHasNames
  /\ \A i \in vol.imap : vol.meta.inodes[i].nlink = vol.inodes[i].nlink

\* A rename leaves a count that the image does not have.  Both stay high enough:
\* neither now nor after a restart can unlink free an inode that has another name.
NamesCounted ==
  /\ ImageHasNames
  /\ \A i \in vol.imap : LET names == Cardinality(EntriesTo(i)) IN
       names <= vol.inodes[i].nlink /\ names <= vol.meta.inodes[i].nlink

\* The calls do to the names what Namespace says, all or nothing, and a restart
\* does nothing to them: without the renames that PlainRename leaves out, and
\* without the rmdir of a directory taken for empty (SparingStep).  What exists is
\* what has a name: an inode that a count too high keeps allocated does not.
NodeNamed(i) == i = Root \/ \E d \in LiveDirs, n \in Leaf :
                               Found(vol, d, n) # {} /\ Target(vol, d, n) = i
NodeKind == [i \in Inodes |->
               IF i \in vol.imap /\ NodeNamed(i) THEN vol.inodes[i].type ELSE "none"]
NodeChild == [d \in Inodes |-> [n \in Leaf |->
               IF d \in LiveDirs /\ Found(vol, d, n) # {} THEN Target(vol, d, n) ELSE Wild]]
Tree == INSTANCE Namespace WITH Nodes <- Inodes, Top <- Root, Nothing <- Wild,
                                kind <- NodeKind, child <- NodeChild
ImplementsNamespace == Tree!Spec

\* A rename of a file to another path that returns 0 leaves the file with a name.
RenameKeepsFile == [][\A d, e \in Dirs(vol), n, m \in Leaf :
  /\ <<d, n>> # <<e, m>> /\ Found(vol, d, n) # {} /\ vol.inodes[Target(vol, d, n)].type = "file"
  /\ ~LeadsNowhere(d, n) /\ ~LeadsNowhere(e, m)
  /\ \E samePerm \in BOOLEAN : LET renamed == RenameCall(vol, d, n, e, m, samePerm) IN
       renamed.ok /\ vol' = renamed.vol
  => LET i == Target(vol, d, n) IN \E x \in Dirs(vol)', k \in Leaf :
       Found(vol', x, k) # {} /\ Target(vol', x, k) = i]_vol

\* A symbolic link whose creation returns 0 holds the path it was given.
SymlinkStored == [][\A d \in Dirs(vol), n \in Leaf, t \in LinkText :
  /\ Symlink(d, n, t) /\ SymlinkCall(vol, d, n, t).ok
  => LET i == vol'.inodes[Target(vol', d, n)] IN
       i.size # 0 /\ vol'.blocks[i.blk[0]].text = t]_vol

\* Resolving a path ends.
ResolutionEnds == \A d \in Dirs(vol), n \in Leaf : ~Loops(vol, d, n)
=============================================================================
