------------------------------ MODULE MCShell -------------------------------
(* An instance of Shell for TLC: directories /a and /a/b, in which files and *)
(* links named a come and go; fileA runs itself, and noFile is not there.     *)
EXTENDS Shell

CONSTANTS leafA, leafB, dataA, dataB, stdin, fileA, noFile

Rel(names) == [abs |-> FALSE, names |-> names]
Abs(names) == [abs |-> TRUE, names |-> names]
a == Rel(<<leafA>>)

MCTyped ==
  [cmd : {"cd"}, p : {a, Rel(<<leafB, DotDot>>), Rel(<<DotDot, DotDot, leafA>>), Abs(<<leafA, leafB>>)}]
  \cup [cmd : {"mkdir", "rmdir"}, p : {Abs(<<leafA>>), Abs(<<leafA, leafB>>)}]
  \cup [cmd : {"rm", "touch", "truncate", "chmod"}, p : {a}]
  \cup [cmd : {"put"}, p : {a}, n : {MaxSize}, t : Data]
  \cup [cmd : {"symlink"}, t : LinkText, p : {a}]
  \cup [cmd : {"link", "rename"}, p : {a}, q : {Rel(<<DotDot, leafB>>)}]
  \cup [cmd : {"rename"}, p : {a}, q : {Abs(<<leafB, leafA>>)}]
  \cup [cmd : {"run"}, file : {fileA, noFile}] \cup [cmd : {"quit"}]
MCScript == (fileA :> <<[cmd |-> "run", file |-> fileA], [cmd |-> "cd", p |-> Rel(<<Dot, DotDot>>)]>>)

\* As in MCFsCalls, and without the count of the root, which is counted but
\* never read: the root has no name that could be removed.
Pointed == UNION {Ptrs(vol, i) \cup {vol.meta.inodes[i].blk[k] : k \in 0 .. MaxBlks - 1} : i \in Inodes}
View == <<cwd, cmdstk,
  [vol EXCEPT !.blocks = [k \in 1 .. NBlocks |-> IF k \in Pointed THEN @[k] ELSE Zeros],
              !.inodes[Root].nlink = 0, !.meta.inodes[Root].nlink = 0]>>
=============================================================================
