----------------------------- MODULE FsHandles ------------------------------
(***************************************************************************)
(* An open file (fs_op_open.c, fs_op_release.c, fs_op_write.c): fs_open    *)
(* stores the inode number in fi->fh and fs_write uses it without another  *)
(* look at the path.  Neither counts the open file in the inode.           *)
(***************************************************************************)
EXTENDS FsCalls

VARIABLE fh    \* the inode of the open file, 0 when there is none

handleVars == <<vol, fh>>

HandlesInit == Init /\ fh = 0

Open(d, n) == \E i \in Inodes :
  /\ fh = 0 /\ Leads(d, n, i) /\ ~IsDir(vol, i)
  /\ fh' = i /\ UNCHANGED vol

Release == fh # 0 /\ fh' = 0 /\ UNCHANGED vol

WriteHandle ==
  /\ fh # 0 /\ ~IsDir(vol, fh) /\ vol.inodes[fh].size < MaxSize
  /\ \E t \in Data : vol' = DoWrite(vol, fh, t).vol
  /\ UNCHANGED fh

HandleStep == WriteHandle \/ Release \/ \E d \in Dirs(vol), n \in Leaf : Open(d, n)

\* the process that ends takes its open files with it
CallStep == Next /\ UNCHANGED fh /\ (fh = 0 \/ ~Remount)
HandlesSpec == HandlesInit /\ [][CallStep \/ HandleStep]_handleVars

\* what nothing in the code sees to and its clients have to: no call takes the last
\* name of the open file
CarefulStep == CallStep /\ (fh # 0 => EntriesTo(fh) # {} /\ EntriesTo(fh)' # {})
CarefulSpec == HandlesInit /\ [][CarefulStep \/ HandleStep]_handleVars

\* what libfuse does about it, unless mounted with hard_remove: it calls fs_rename
\* to give an open file that is unlinked or renamed over a name that is free
Hide(d, n, h) ==
  /\ fh # 0 /\ Found(vol, d, n) # {} /\ Target(vol, d, n) = fh /\ Found(vol, d, h) = {}
  /\ Rename(d, n, d, h) /\ UNCHANGED fh
MountedStep == CarefulStep \/ \E d \in Dirs(vol), n, h \in Leaf : Hide(d, n, h)
MountedSpec == HandlesInit /\ [][MountedStep \/ HandleStep]_handleVars

\* While a file is open its inode stays allocated, so that no other file gets
\* it and a write through the handle reaches the file that was opened.
HandleKeepsInode == fh # 0 => fh \in vol.imap
=============================================================================
