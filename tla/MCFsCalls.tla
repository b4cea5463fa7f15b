----------------------------- MODULE MCFsCalls ------------------------------
(* Instances of FsCalls for TLC. *)
EXTENDS FsCalls, TLC

CONSTANTS leafA, leafB, leafC, dataA, dataB

\* in the instances where a link may hold any name or none
Symmetry == Permutations(Leaf) \cup Permutations(Data)

\* What a data block holds while nothing points to it is of no consequence, for
\* WithBlk zeroes it first; of an inode that is free, only the pointers are, for
\* NewInode sets the rest.
Pointed == UNION {Ptrs(vol, i) \cup {vol.meta.inodes[i].blk[k] : k \in 0 .. MaxBlks - 1} : i \in Inodes}
Used(table, allocated) ==
  [i \in Inodes |-> IF i \in allocated THEN table[i] ELSE NewInode("none", table[i].blk)]
View == [vol EXCEPT !.blocks = [k \in 1 .. NBlocks |-> IF k \in Pointed THEN @[k] ELSE Zeros],
                    !.inodes = Used(@, vol.imap), !.meta.inodes = Used(@, vol.meta.imap)]

\* The count of a directory is kept and, but by rename, never read.
Uncounted(table) == [i \in Inodes |-> IF table[i].type = "dir" THEN [table[i] EXCEPT !.nlink = 0] ELSE table[i]]
ViewUncounted == [View EXCEPT !.inodes = Uncounted(@), !.meta.inodes = Uncounted(@)]
=============================================================================
