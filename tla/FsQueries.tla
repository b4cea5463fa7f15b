----------------------------- MODULE FsQueries ------------------------------
(***************************************************************************)
(* The calls that look at the volume and change nothing (fs_op_getattr.c,  *)
(* fs_op_opendir.c, fs_op_readdir.c, fs_op_readlink.c, fs_op_statfs.c): a  *)
(* query of the volume v between two calls, for the directory d its path   *)
(* leads to and the path's last name n.  What they must tell a client is   *)
(* stated against the calls that change the volume.                        *)
(***************************************************************************)
EXTENDS FsHandles

NoStat == [ino |-> Wild, type |-> "none", nlink |-> 0, size |-> 0]

\* do_stat; past the inode table there is nothing to tell
Stat(v, i) == IF i \notin Inodes THEN NoStat ELSE
  [ino |-> i, type |-> v.inodes[i].type, nlink |-> v.inodes[i].nlink, size |-> v.inodes[i].size]

\* fs_getattr: links are followed, at the end of the path too
Getattr(v, d, n) == LET r == Resolve(v, d, n) IN IF r.found THEN Stat(v, r.inum) ELSE NoStat

\* fs_opendir: the inode for fi->fh, Wild for an error
Opendir(v, d, n) ==
  LET r == Resolve(v, d, n) IN IF r.found /\ IsDir(v, r.inum) THEN r.inum ELSE Wild

\* fs_readdir on a directory: what it gives to filler, by the entry's position
Readdir(v, i) ==
  {[at |-> p, name |-> Slot(v, i, p).name, stat |-> Stat(v, Slot(v, i, p).inum)] :
     p \in {q \in Positions(v, i) : Slot(v, i, q).name # NoName}}

\* fs_readlink of an entry that is a link; NoName for an empty path
Readlink(v, d, n) == LET link == v.inodes[Target(v, d, n)] IN
  IF link.size = 0 THEN NoName ELSE v.blocks[link.blk[0]].text

\* fs_read of the first block, through a handle or by a path that leads to i
Read(v, i) == IF IsDir(v, i) \/ v.inodes[i].size = 0 THEN Zeros ELSE v.blocks[v.inodes[i].blk[0]]

\* fs_statfs
Statfs(v) == [bfree |-> Cardinality(FreeBlks(v)), ffree |-> Cardinality(FreeInodes(v))]

-----------------------------------------------------------------------------
(* Properties                                                              *)

\* A client that lists a directory it has opened gets every name once, and each
\* with the attributes a path to that name leads to, when it is not a link.
Opened == {Root} \cup ({Opendir(vol, d, n) : d \in Dirs(vol), n \in Leaf} \ {Wild})
ListedOnce == \A x \in Opened : LET listed == Readdir(vol, x) IN
  /\ \A e \in listed, f \in listed : e.name = f.name => e = f
  /\ {e.name : e \in listed} \cap Leaf = {m \in Leaf : Found(vol, x, m) # {}}
  /\ \A e \in listed : e.name \in Leaf /\ e.stat.type # "link" => e.stat = Getattr(vol, x, e.name)

\* A directory that rmdir takes for empty may have names, when a mkdir that failed
\* half way has left it without . and .. (EmptyHasNoNames).  The next two properties
\* are stated without the rmdir of such a directory, and with everything else that
\* can fail half way, that mkdir included.
TakenForEmpty(d, n) ==
  /\ Found(vol, d, n) # {} /\ RmdirCall(vol, d, n).ok
  /\ \E m \in Leaf : Found(vol, Target(vol, d, n), m) # {}
SparingStep == CarefulStep /\ ~\E d \in Dirs(vol), n \in Leaf : TakenForEmpty(d, n) /\ Rmdir(d, n)
SparingSpec == HandlesInit /\ [][SparingStep \/ HandleStep]_handleVars

\* What statfs calls free is what a walk through the listings from the root does
\* not come across: a volume loses no inode and no block, whatever calls failed, but
\* for the rmdir of such a directory.
Walked == UNION {{e.stat.ino : e \in Readdir(vol, d)} : d \in Dirs(vol)}
FreeIsUnreached ==
  Statfs(vol) = [bfree |-> NBlocks - Cardinality(UNION {Ptrs(vol, i) : i \in Walked}),
                 ffree |-> NInodes - Cardinality(Walked)]

\* No step changes what a file or a link reads as, but a write to it or a truncate
\* of it, through a handle or by a path: not the calls for other files, which may
\* come to use blocks it had or get blocks it has; not a new name or a lost one; not
\* a restart.  What is written is read.
Kept(i) == Read(vol', i) = Read(vol, i)
Overwritten(i) == \E t \in Data :
  /\ \/ fh = i \/ \E d \in Dirs(vol), n \in Leaf : Leads(d, n, i)
  /\ vol' = DoWrite(vol, i, t).vol /\ Read(vol', i) = Bytes(t)
Emptied(i) ==
  /\ \E d \in Dirs(vol), n \in Leaf : Leads(d, n, i) /\ Truncate(d, n)
  /\ Read(vol', i) = Zeros
BytesKept == [][\A i \in vol.imap \cap vol'.imap :
  ~IsDir(vol, i) => Kept(i) \/ Overwritten(i) \/ Emptied(i)]_handleVars

\* "where <statbuf> is a struct stat, just like in getattr" (fs_op_readdir.c:25)
ListedLikeGetattr == \A d \in Dirs(vol) : \A e \in Readdir(vol, d) :
  e.name \in Leaf => e.stat = Getattr(vol, d, e.name)
=============================================================================
