----------------------------- MODULE Namespace ------------------------------
(***************************************************************************)
(* What a file system promises about names: a tree of directories whose    *)
(* entries name nodes; a node exists as long as some entry names it; each  *)
(* call happens at once or not at all; and a restart changes nothing, so   *)
(* it is no step of this specification.                                    *)
(***************************************************************************)
CONSTANTS Nodes, Top, Leaf, Nothing

VARIABLES kind,    \* "none" for a node that does not exist
          child    \* child[d][n] is the node directory d names n

Empty(d) == \A n \in Leaf : child[d][n] = Nothing
IsDirectory(d) == kind[d] = "dir"
Named(table, i) == \E d \in Nodes, n \in Leaf : table[d][n] = i

Init ==
  /\ kind = [i \in Nodes |-> IF i = Top THEN "dir" ELSE "none"]
  /\ child = [d \in Nodes |-> [n \in Leaf |-> Nothing]]

Create(d, n, i, k) ==
  /\ IsDirectory(d) /\ child[d][n] = Nothing /\ kind[i] = "none"
  /\ kind' = [kind EXCEPT ![i] = k]
  /\ child' = [child EXCEPT ![d][n] = i]

AddName(d, n, i) ==
  /\ IsDirectory(d) /\ child[d][n] = Nothing
  /\ kind[i] \notin {"none", "dir"}
  /\ child' = [child EXCEPT ![d][n] = i]
  /\ UNCHANGED kind

\* a node goes with its last name
Settle(table) ==
  /\ child' = table
  /\ kind' = [i \in Nodes |-> IF i = Top \/ Named(table, i) THEN kind[i] ELSE "none"]

Remove(d, n) ==
  /\ IsDirectory(d) /\ child[d][n] # Nothing
  /\ IsDirectory(child[d][n]) => Empty(child[d][n])
  /\ Settle([child EXCEPT ![d][n] = Nothing])

Move(d, n, e, m) ==
  /\ IsDirectory(d) /\ IsDirectory(e) /\ child[d][n] # Nothing
  /\ child[e][m] # Nothing => /\ kind[child[e][m]] = kind[child[d][n]]
                              /\ IsDirectory(child[e][m]) => Empty(child[e][m])
  /\ \/ <<d, n>> = <<e, m>> /\ UNCHANGED <<kind, child>>
     \/ <<d, n>> # <<e, m>> /\ Settle([[child EXCEPT ![e][m] = child[d][n]] EXCEPT ![d][n] = Nothing])

Next ==
  \E d \in Nodes, n \in Leaf :
    \/ \E i \in Nodes : \E k \in {"dir", "file", "link"} : Create(d, n, i, k)
    \/ \E i \in Nodes : AddName(d, n, i)
    \/ Remove(d, n)
    \/ \E e \in Nodes, m \in Leaf : Move(d, n, e, m)

Spec == Init /\ [][Next]_<<kind, child>>
=============================================================================
