------------------------------ MODULE MCFsFile ------------------------------
(* Instances of FsFile for TLC: two files that write different bytes. *)
EXTENDS FsFile

CONSTANTS f1, f2
MCFiles == {f1, f2}
MCByte == [f \in MCFiles |-> IF f = f1 THEN 101 ELSE 102]

\* one file long enough for the double-indirect blocks and one short; both
\* middling; both of the largest size
MCMaxSizeDeep == [f \in MCFiles |-> IF f = f1 THEN 10 ELSE 3]
MCMaxSizeEven == [f \in MCFiles |-> 8]
MCMaxSizeAll == [f \in MCFiles |-> 14]

\* what a free block holds shows, when it is not zeroed, only beyond the end
\* of a file, which no call reads
View == <<size, ptr, used, beyond, [k \in Blocks |-> IF k \in used THEN blocks[k] ELSE Zeros]>>
=============================================================================
