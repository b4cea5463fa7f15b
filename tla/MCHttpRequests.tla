--------------------------- MODULE MCHttpRequests ---------------------------
(* Instances of HttpRequests for TLC. *)
EXTENDS HttpRequests

CONSTANTS r1, r2, r3, nodeA, nodeD, nodeAX, nodeDX

MCAbove == [n \in Nodes |-> CASE n = Root -> <<>> [] n \in {nodeA, nodeD} -> <<Root>>
                              [] n = nodeAX -> <<Root, nodeA>> [] n = nodeDX -> <<Root, nodeD>>]

Ask(m, n) == [method |-> m, node |-> n, slash |-> FALSE, length |-> None, supply |-> 0]
InDir(q) == [q EXCEPT !.slash = TRUE]
With(q, n) == [q EXCEPT !.length = n, !.supply = n]

GetA == Ask("GET", nodeA)
GetRoot == InDir(Ask("GET", Root))
GetAsFile == Ask("GET", nodeD)
DelRoot == InDir(Ask("DELETE", Root))
HeadA == Ask("HEAD", nodeA)
DelA == Ask("DELETE", nodeA)
DelD == InDir(Ask("DELETE", nodeD))
PutA == With(Ask("PUT", nodeA), 2)
PutAX == With(Ask("PUT", nodeAX), 1)
PutD == InDir(With(Ask("PUT", nodeD), 1))
PostDX == With(Ask("POST", nodeDX), 1)
Short == [Ask("PUT", nodeDX) EXCEPT !.length = 2, !.supply = 1]
BareA == Ask("PUT", nodeA)
BareDX == Ask("POST", nodeDX)
Other == Ask("other", nodeA)
Bad == Ask("bad", nodeA)
Empty == Ask("empty", nodeA)

Triple(x, y, z) == [r \in Requests |-> IF r = r1 THEN x ELSE IF r = r2 THEN y ELSE z]
MCScenarios == {
  Triple(GetA, DelA, PutAX), Triple(PutA, PutA, Bad), Triple(GetRoot, PostDX, DelD),
  Triple(Short, DelD, PutD), Triple(BareDX, HeadA, Empty), Triple(Other, Bad, GetA),
  Triple(PutA, GetA, Bad), Triple(GetAsFile, DelRoot, PutD), Triple(PutAX, BareA, Empty)}
=============================================================================
