------------------------------ MODULE FsProofs ------------------------------
(***************************************************************************)
(* The inductive invariant of the fsx600 calls (FsQueries, with FsCalls,   *)
(* FsHandles and FsVolume), and what follows from it, as long as no mkdir  *)
(* runs out of blocks half way (WholeDirs).  At the end, with two more     *)
(* parts of the invariant: what is allocated is reached from the root, and *)
(* the calls implement Namespace.                                          *)
(***************************************************************************)
EXTENDS FsQueries, FiniteSetTheorems, WellFoundedInduction, TLAPS

-----------------------------------------------------------------------------
(* The volume as a table of pointers and a table of entries. *)

Index == 0 .. MaxBlks - 1
Blks == 1 .. NBlocks
Places == 0 .. MaxBlks * DirentsPerBlk - 1

Inode == [type : {"none", "dir", "file", "link"}, nlink : 0 .. MaxNlink, size : Nat,
          blk : [Index -> 0 .. NBlocks]]
Entry == [name : Names \cup {NoName, Junk}, inum : Inodes \cup {Wild}]
Block == [slots : [Slots -> Entry], text : LinkText \cup Data \cup {NoName}]
Volume == [imap : SUBSET Inodes, bmap : SUBSET Blks, inodes : [Inodes -> Inode],
           dirty : SUBSET Nat, meta : Metadata, blocks : [Blks -> Block]]

Alive(v) == {i \in v.imap : IsDir(v, i)}
Used(v, d) == {p \in Positions(v, d) : Slot(v, d, p).name # NoName}
Entries(v) == {x \in Alive(v) \X Places : x[2] \in Used(v, x[1])}
NameOf(v) == [x \in Entries(v) |-> Slot(v, x[1], x[2]).name]
InumOf(v) == [x \in Entries(v) |-> Slot(v, x[1], x[2]).inum]

-----------------------------------------------------------------------------
(* The parts of the invariant. *)

\* A block has at most one pointer to it; the block map marks those that have
\* one; only an inode that is allocated has pointers; and they come first.
Pointers(imap, bmap, inodes) ==
  /\ \A i, j \in Inodes, k, l \in Index :
       inodes[i].blk[k] # 0 /\ inodes[i].blk[k] = inodes[j].blk[l] => i = j /\ k = l
  /\ \A b \in Blks : b \in bmap <=> \E i \in Inodes, k \in Index : inodes[i].blk[k] = b
  /\ \A i \in Inodes, k \in Index : inodes[i].blk[k] # 0 => i \in imap
  /\ \A i \in Inodes, k, l \in Index : l < k /\ inodes[i].blk[k] # 0 => inodes[i].blk[l] # 0

\* What is not a directory has at most one block, of which do_truncate leaves
\* nothing, and the block of a link holds a path.
Content(n, blocks) ==
  /\ n.type # "none"
  /\ n.type # "dir" => \A k \in Index : k # 0 => n.blk[k] = 0
  /\ n.type # "dir" /\ n.size # 0 =>
       /\ n.blk[0] # 0
       /\ n.type = "link" => blocks[n.blk[0]].text \in LinkText
Contents(v) == \A i \in v.imap : Content(v.inodes[i], v.blocks)

\* The directories D of the inodes A hold the entries E, with names N and inodes
\* T: names are unique in their directory, . and .. lead where they should, and
\* a directory has one name only, which its .. leads back to.
Linked(A, D, E, N, T) ==
  /\ Root \in D /\ D \subseteq A
  /\ \A x \in E : x[1] \in D /\ N[x] \in Names /\ T[x] \in A
  /\ \A x, y \in E : x[1] = y[1] /\ N[x] = N[y] => x = y
  /\ \A x \in E : N[x] = Dot => T[x] = x[1]
  /\ \A x \in E : N[x] = DotDot =>
       /\ T[x] \in D /\ (x[1] = Root => T[x] = Root)
       /\ x[1] # Root => \E y \in E : y[1] = T[x] /\ N[y] \in Leaf /\ T[y] = x[1]
  /\ \A x \in E : N[x] \in Leaf /\ T[x] \in D =>
       /\ T[x] # Root
       /\ \A y \in E : N[y] \in Leaf /\ T[y] = T[x] => y = x

\* Counts are what they count.
Counted(A, D, E, T, inodes) ==
  /\ \A i \in A : inodes[i].nlink = Cardinality({x \in E : T[x] = i})
  /\ \A d \in D : inodes[d].size = Cardinality({x \in E : x[1] = d})

Good(v) ==
  /\ v \in Volume
  /\ Pointers(v.imap, v.bmap, v.inodes)
  /\ Contents(v)
  /\ Linked(v.imap, Alive(v), Entries(v), NameOf(v), InumOf(v))
  /\ Counted(v.imap, Alive(v), Entries(v), InumOf(v), v.inodes)

\* What is not marked for flush_metadata is on the image.
Marked(v) ==
  /\ 0 \notin v.dirty => v.meta.imap = v.imap
  /\ 1 \notin v.dirty => v.meta.bmap = v.bmap
  /\ \A i \in Inodes : InodeBlk(i) \notin v.dirty => v.meta.inodes[i] = v.inodes[i]

\* The image lacks at most blocks that extend a directory and hold no entry: a
\* call that found no free inode leaves them to the next flush_metadata.
Behind(v) ==
  /\ v.meta.imap = v.imap
  /\ Pointers(v.meta.imap, v.meta.bmap, v.meta.inodes)
  /\ \A i \in Inodes : LET n == v.inodes[i]
                           m == v.meta.inodes[i] IN
       /\ m.type = n.type /\ m.nlink = n.nlink /\ m.size = n.size
       /\ \A k \in Index : m.blk[k] # n.blk[k] =>
            m.blk[k] = 0 /\ n.type = "dir" /\ v.blocks[n.blk[k]] = Zeros

Handle(v, h) == h # 0 => h \in v.imap /\ v.inodes[h].type = "file"

IInv == Good(vol) /\ Marked(vol) /\ Behind(vol) /\ fh \in Inodes \cup {0} /\ Handle(vol, fh)

\* The hypothesis of the theorems: every directory has its . and its .., which
\* fails only when mkdir finds a block for its name and none for these two.
Whole(v) == \A d \in Alive(v) : Found(v, d, Dot) # {} /\ Found(v, d, DotDot) # {}
WholeDirs == Whole(vol)

-----------------------------------------------------------------------------
(* Numbers: the least of a set, and the block and the slot of a position. *)

BlkIx(p) == p \div DirentsPerBlk
SlotIx(p) == p % DirentsPerBlk

\* The least element that CHOOSE is asked for exists.
LEMMA LeastIn ==
  ASSUME NEW S, S \subseteq Nat, S # {}
  PROVE  Least(S) \in S /\ \A y \in S : Least(S) <= y
<1>1. \A m, n \in Nat : m < n => <<m, n>> \in OpToRel(<, Nat)
  BY DEF OpToRel
<1>2. PICK R : IsWellFoundedOn(R, Nat) /\ \A m, n \in Nat : m < n => <<m, n>> \in R
  BY <1>1, NatLessThanWellFounded, Zenon
<1>3. PICK n \in S : \A m \in S : ~(<<m, n>> \in R)
  BY <1>2, WFMin, ZenonT(40)
<1>4. ASSUME NEW m \in S PROVE n <= m
  <2>1. m \in Nat /\ n \in Nat /\ <<m, n>> \notin R BY <1>3
  <2>2. ~(m < n) BY <1>2, <2>1, Zenon
  <2> QED BY <2>1, <2>2
<1>5. \E x \in S : \A y \in S : x <= y
  BY <1>4
<1> QED BY <1>5 DEF Least

LEMMA DivMod ==
  ASSUME NEW p \in Nat
  PROVE  /\ BlkIx(p) \in Nat /\ SlotIx(p) \in Slots
         /\ p = DirentsPerBlk * BlkIx(p) + SlotIx(p)
<1>1. DirentsPerBlk \in Nat /\ DirentsPerBlk > 0
  BY SizesAssumption
<1> QED BY <1>1 DEF BlkIx, SlotIx, Slots

\* Of two numbers of blocks the smaller has the smaller products.
LEMMA Products ==
  ASSUME NEW a \in Nat, NEW b \in Nat, NEW c \in Nat, a < b
  PROVE  c * a + c <= c * b /\ c * a \in Nat /\ c * b \in Nat
<1>1. PICK e \in Nat : b = a + 1 + e
  <2>1. b - a - 1 \in Nat /\ b = a + 1 + (b - a - 1) OBVIOUS
  <2> QED BY <2>1
<1>2. c * (a + 1 + e) = c * a + c + c * e OBVIOUS
<1>3. c * e \in Nat /\ c * a \in Nat /\ c * b \in Nat OBVIOUS
<1> QED BY <1>1, <1>2, <1>3

LEMMA DivUnique ==
  ASSUME NEW k \in Nat, NEW s \in Slots, NEW p, p = DirentsPerBlk * k + s
  PROVE  p \in Nat /\ BlkIx(p) = k /\ SlotIx(p) = s
<1>1. DirentsPerBlk \in Nat /\ DirentsPerBlk > 0 /\ s \in Nat /\ s < DirentsPerBlk
  BY SizesAssumption DEF Slots
<1>2. p \in Nat BY <1>1
<1>3. /\ BlkIx(p) \in Nat /\ SlotIx(p) \in Nat /\ SlotIx(p) < DirentsPerBlk
      /\ p = DirentsPerBlk * BlkIx(p) + SlotIx(p)
  BY <1>1, <1>2, DivMod DEF Slots
<1>4. ~(BlkIx(p) < k) BY <1>1, <1>3, Products
<1>5. ~(k < BlkIx(p)) BY <1>1, <1>3, Products
<1>6. BlkIx(p) = k BY <1>3, <1>4, <1>5
<1>7. p = DirentsPerBlk * k + SlotIx(p) BY <1>3, <1>6, Zenon
<1>8. \A a, b, c \in Nat : a + b = a + c => b = c OBVIOUS
<1>9. DirentsPerBlk * k \in Nat BY <1>1
<1>10. SlotIx(p) = s
  <2>1. DirentsPerBlk * k + s = DirentsPerBlk * k + SlotIx(p) BY <1>7, Zenon
  <2> QED BY <1>1, <1>3, <1>8, <1>9, <2>1, Zenon
<1> QED BY <1>2, <1>6, <1>10

\* A position below n blocks is in one of them.
LEMMA Below ==
  ASSUME NEW n \in Nat, NEW p \in Nat
  PROVE  p \in 0 .. n * DirentsPerBlk - 1 <=> BlkIx(p) < n
<1>1. DirentsPerBlk \in Nat /\ DirentsPerBlk > 0
  BY SizesAssumption
<1>2. /\ BlkIx(p) \in Nat /\ SlotIx(p) \in Nat /\ SlotIx(p) < DirentsPerBlk
      /\ p = DirentsPerBlk * BlkIx(p) + SlotIx(p)
  BY <1>1, DivMod DEF Slots
<1>3. n * DirentsPerBlk = DirentsPerBlk * n /\ n * DirentsPerBlk \in Nat BY <1>1
<1>4. CASE BlkIx(p) < n BY <1>1, <1>2, <1>3, <1>4, Products
<1>5. CASE BlkIx(p) = n BY <1>1, <1>2, <1>3, <1>5
<1>6. CASE n < BlkIx(p)  BY <1>1, <1>2, <1>3, <1>6, Products
<1> QED BY <1>2, <1>4, <1>5, <1>6

\* Positions are pairs of a block and a slot.
LEMMA PlacesArePairs ==
  /\ Places \subseteq Nat /\ Index \subseteq Nat /\ 0 \in Index
  /\ \A p \in Places : BlkIx(p) \in Index /\ SlotIx(p) \in Slots
  /\ \A p, q \in Places : BlkIx(p) = BlkIx(q) /\ SlotIx(p) = SlotIx(q) => p = q
  /\ \A k \in Index, s \in Slots : \E p \in Places : BlkIx(p) = k /\ SlotIx(p) = s
<1>1. MaxBlks \in Nat /\ MaxBlks > 0 /\ DirentsPerBlk \in Nat
  BY SizesAssumption
<1>2. MaxBlks * DirentsPerBlk \in Nat BY <1>1
<1>3. Places \subseteq Nat /\ Index \subseteq Nat /\ 0 \in Index
  BY <1>1, <1>2 DEF Places, Index
<1>4. ASSUME NEW p \in Places PROVE BlkIx(p) \in Index /\ SlotIx(p) \in Slots
  <2>1. p \in Nat BY <1>3
  <2>2. BlkIx(p) \in Nat /\ SlotIx(p) \in Slots BY <2>1, DivMod
  <2>3. BlkIx(p) < MaxBlks BY <1>1, <2>1, Below DEF Places
  <2> QED BY <1>1, <2>2, <2>3 DEF Index
<1>5. ASSUME NEW p \in Places, NEW q \in Places, BlkIx(p) = BlkIx(q), SlotIx(p) = SlotIx(q)
      PROVE  p = q
  BY <1>3, <1>5, DivMod, Zenon
<1>6. ASSUME NEW k \in Index, NEW s \in Slots
      PROVE  \E p \in Places : BlkIx(p) = k /\ SlotIx(p) = s
  <2> DEFINE p == DirentsPerBlk * k + s
  <2>1. p \in Nat /\ BlkIx(p) = k /\ SlotIx(p) = s BY <1>3, DivUnique
  <2>2. k < MaxBlks BY <1>1 DEF Index
  <2>3. p \in Places
    <3> HIDE DEF p
    <3> QED BY <1>1, <2>1, <2>2, Below DEF Places
  <2> QED BY <2>1, <2>3
<1> QED BY <1>3, <1>4, <1>5, <1>6

-----------------------------------------------------------------------------
(* The entries of a directory, by their positions. *)

Prefix(blk) == \A k, l \in Index : l < k /\ blk[k] # 0 => blk[l] # 0

\* DirBlks counts the pointers before the first that is 0.
LEMMA CountBlks ==
  ASSUME NEW v, NEW d, Prefix(v.inodes[d].blk)
  PROVE  /\ DirBlks(v, d) \in Nat /\ DirBlks(v, d) <= MaxBlks
         /\ \A k \in Index : k < DirBlks(v, d) <=> v.inodes[d].blk[k] # 0
<1> DEFINE blk == v.inodes[d].blk
           S == {k \in 0 .. MaxBlks - 1 : \A j \in 0 .. k : blk[j] # 0}
           Z == {k \in Index : blk[k] = 0}
<1>1. MaxBlks \in Nat /\ Index \subseteq Nat /\ Index = 0 .. MaxBlks - 1
  BY SizesAssumption DEF Index
<1>2. DirBlks(v, d) = Cardinality(S) BY DEF DirBlks
<1>3. ASSUME NEW k \in Index PROVE k \in S <=> blk[k] # 0
  <2>1. 0 .. k \subseteq Index BY <1>1
  <2>2. \A j \in 0 .. k : j = k \/ j < k BY <1>1
  <2>3. k \in 0 .. k BY <1>1
  <2> QED BY <1>1, <2>1, <2>2, <2>3 DEF Prefix
<1>4. \E n \in Nat : n <= MaxBlks /\ S = 0 .. n - 1
  <2>1. CASE Z = {}
    <3>1. S = Index BY <1>1, <1>3, <2>1
    <3> QED BY <1>1, <3>1
  <2>2. CASE Z # {}
    <3>1. PICK m \in Z : \A y \in Z : m <= y BY <1>1, <2>2, LeastIn
    <3>2. m \in Index /\ m \in Nat /\ blk[m] = 0 BY <1>1, <3>1
    <3>3. ASSUME NEW k \in Index PROVE k < m <=> blk[k] # 0
      <4>1. k < m => blk[k] # 0 BY <1>1, <3>1
      <4>2. m < k => blk[k] = 0 BY <3>2 DEF Prefix
      <4>3. k \in Nat BY <1>1
      <4> QED BY <3>2, <4>1, <4>2, <4>3
    <3>4. \A k : k \in S <=> k \in 0 .. m - 1
      <4> TAKE k
      <4>1. k \in S => k \in Index BY <1>1
      <4>2. k \in 0 .. m - 1 => k \in Index BY <1>1, <3>2
      <4>3. k \in Index => (k \in 0 .. m - 1 <=> k < m) BY <1>1, <3>2
      <4> HIDE DEF S
      <4> QED BY <1>3, <3>3, <4>1, <4>2, <4>3
    <3>5. S = 0 .. m - 1 BY <3>4
    <3> QED BY <1>1, <3>2, <3>5
  <2> QED BY <2>1, <2>2
<1>5. PICK n \in Nat : n <= MaxBlks /\ S = 0 .. n - 1 BY <1>4
<1> HIDE DEF S
<1>6. Cardinality(0 .. n - 1) = n BY FS_Interval
<1>7. DirBlks(v, d) = n BY <1>2, <1>5, <1>6
<1>8. \A k \in Index : k < n <=> k \in S BY <1>1, <1>5
<1> QED BY <1>3, <1>5, <1>7, <1>8

\* The positions of a directory are those whose block it has.
LEMMA PositionsAre ==
  ASSUME NEW v, NEW d, Prefix(v.inodes[d].blk)
  PROVE  /\ Positions(v, d) \subseteq Places
         /\ \A p \in Places : p \in Positions(v, d) <=> v.inodes[d].blk[BlkIx(p)] # 0
<1> DEFINE n == DirBlks(v, d)
<1>1. n \in Nat /\ n <= MaxBlks /\ \A k \in Index : k < n <=> v.inodes[d].blk[k] # 0
  BY CountBlks
<1>2. MaxBlks \in Nat /\ DirentsPerBlk \in Nat BY SizesAssumption
<1>3. Positions(v, d) = 0 .. n * DirentsPerBlk - 1 BY DEF Positions
<1> HIDE DEF n
<1>4. n * DirentsPerBlk \in Nat BY <1>1, <1>2
<1>5. Positions(v, d) \subseteq Nat BY <1>3, <1>4
<1>6. \A p \in Nat : BlkIx(p) \in Nat BY DivMod
<1>7. \A p \in Nat : p \in Positions(v, d) <=> BlkIx(p) < n BY <1>1, <1>3, Below
<1>8. \A p \in Nat : p \in Places <=> BlkIx(p) < MaxBlks BY <1>2, Below DEF Places
<1>9. Positions(v, d) \subseteq Places
  <2> SUFFICES ASSUME NEW p \in Positions(v, d) PROVE p \in Places OBVIOUS
  <2>1. p \in Nat /\ BlkIx(p) < n BY <1>5, <1>7
  <2>2. BlkIx(p) < MaxBlks BY <1>1, <1>2, <1>6, <2>1
  <2> QED BY <1>8, <2>1, <2>2
<1> QED BY <1>1, <1>7, <1>9, PlacesArePairs

LEMMA SlotAt ==
  ASSUME NEW v, NEW d, NEW p
  PROVE  Slot(v, d, p) = v.blocks[v.inodes[d].blk[BlkIx(p)]].slots[SlotIx(p)]
BY DEF Slot, BlkIx, SlotIx

-----------------------------------------------------------------------------
(* Entries that come and go, whatever holds them. *)

Into(E, T, i) == {x \in E : T[x] = i}
Within(E, d) == {x \in E : x[1] = d}

\* A new entry e of the directory d that names the inode i as n.
LinksEnter(A, D, E, N, T, F, M, U, e, n, i, d) ==
  /\ n \in Names
  /\ i \in A
  /\ d \in D
  /\ Linked(A, D, E, N, T)
  /\ e \notin E
  /\ e[1] = d
  /\ F = E \cup {e}
  /\ M[e] = n
  /\ U[e] = i
  /\ \A x \in E : M[x] = N[x] /\ U[x] = T[x]
  /\ \A x \in E : x[1] = d => N[x] # n
  /\ (n = Dot => i = d)
  /\ (n = DotDot => /\ i \in D /\ (d = Root => i = Root)
                    /\ d # Root => \E y \in E : y[1] = i /\ N[y] \in Leaf /\ T[y] = d)
  /\ (n \in Leaf /\ i \in D => i # Root /\ \A y \in E : N[y] \in Leaf => T[y] # i)

LEMMA LinkedEnter ==
  ASSUME NEW A, NEW D, NEW E, NEW N, NEW T, NEW F, NEW M, NEW U, NEW e, NEW n, NEW i, NEW d,
         LinksEnter(A, D, E, N, T, F, M, U, e, n, i, d)
  PROVE  Linked(A, D, F, M, U)
<1> USE DEF LinksEnter
<1>1. Dot \notin Leaf /\ DotDot \notin Leaf /\ Dot # DotDot BY NamesAssumption
<1>2. Root \in D /\ D \subseteq A BY DEF Linked
<1>3. \A x \in F : x[1] \in D /\ M[x] \in Names /\ U[x] \in A BY DEF Linked
<1>4. \A x, y \in F : x[1] = y[1] /\ M[x] = M[y] => x = y BY DEF Linked
<1>5. \A x \in F : M[x] = Dot => U[x] = x[1] BY DEF Linked
<1>6. ASSUME NEW x \in F, M[x] = DotDot
      PROVE  /\ U[x] \in D /\ (x[1] = Root => U[x] = Root)
             /\ x[1] # Root => \E y \in F : y[1] = U[x] /\ M[y] \in Leaf /\ U[y] = x[1]
  <2>1. CASE x = e BY <1>1, <1>6, <2>1
  <2>2. CASE x \in E
    <3>1. N[x] = DotDot /\ U[x] = T[x] BY <1>6, <2>2
    <3> QED BY <2>2, <3>1 DEF Linked
  <2> QED BY <2>1, <2>2
<1>7. ASSUME NEW x \in F, M[x] \in Leaf, U[x] \in D
      PROVE  U[x] # Root /\ \A y \in F : M[y] \in Leaf /\ U[y] = U[x] => y = x
  <2>1. CASE x = e BY <1>7, <2>1
  <2>2. CASE x \in E
    <3>1. N[x] \in Leaf /\ U[x] = T[x] /\ T[x] \in D BY <1>7, <2>2
    <3>2. T[x] # Root /\ \A y \in E : N[y] \in Leaf /\ T[y] = T[x] => y = x
      BY <2>2, <3>1 DEF Linked
    <3>3. ~(n \in Leaf /\ i = T[x]) BY <2>2, <3>1
    <3> QED BY <2>2, <3>1, <3>2, <3>3
  <2> QED BY <2>1, <2>2
<1> QED BY <1>2, <1>3, <1>4, <1>5, <1>6, <1>7 DEF Linked

\* An entry e that does not name a directory goes.
LinksLeave(A, D, E, N, T, F, M, U, e) ==
  /\ e \in E
  /\ Linked(A, D, E, N, T)
  /\ T[e] \notin D
  /\ F = E \ {e}
  /\ \A x \in F : M[x] = N[x] /\ U[x] = T[x]

LEMMA LinkedLeave ==
  ASSUME NEW A, NEW D, NEW E, NEW N, NEW T, NEW F, NEW M, NEW U, NEW e,
         LinksLeave(A, D, E, N, T, F, M, U, e)
  PROVE  Linked(A, D, F, M, U)
<1> USE DEF LinksLeave
<1>1. Root \in D /\ D \subseteq A BY DEF Linked
<1>2. \A x \in F : x[1] \in D /\ M[x] \in Names /\ U[x] \in A BY DEF Linked
<1>3. \A x, y \in F : x[1] = y[1] /\ M[x] = M[y] => x = y BY DEF Linked
<1>4. \A x \in F : M[x] = Dot => U[x] = x[1] BY DEF Linked
<1>5. ASSUME NEW x \in F, M[x] = DotDot
      PROVE  /\ U[x] \in D /\ (x[1] = Root => U[x] = Root)
             /\ x[1] # Root => \E y \in F : y[1] = U[x] /\ M[y] \in Leaf /\ U[y] = x[1]
  <2>1. N[x] = DotDot /\ U[x] = T[x] /\ x \in E /\ x[1] \in D BY <1>2, <1>5
  <2>2. T[x] \in D /\ (x[1] = Root => T[x] = Root) BY <2>1 DEF Linked
  <2>3. ASSUME x[1] # Root PROVE \E y \in F : y[1] = U[x] /\ M[y] \in Leaf /\ U[y] = x[1]
    <3>1. PICK y \in E : y[1] = T[x] /\ N[y] \in Leaf /\ T[y] = x[1]
      BY <2>1, <2>3 DEF Linked
    <3>2. y \in F BY <2>1, <3>1
    <3> QED BY <2>1, <3>1, <3>2
  <2> QED BY <2>1, <2>2, <2>3
<1>6. ASSUME NEW x \in F, M[x] \in Leaf, U[x] \in D
      PROVE  U[x] # Root /\ \A y \in F : M[y] \in Leaf /\ U[y] = U[x] => y = x
  BY <1>6 DEF Linked
<1> QED BY <1>1, <1>2, <1>3, <1>4, <1>5, <1>6 DEF Linked

\* A directory i whose only entries are . and .. goes with the entry e that names it.
LinksRmdir(A, D, E, N, T, F, M, U, e, i) ==
  /\ e \in E
  /\ i \in D
  /\ Linked(A, D, E, N, T)
  /\ N[e] \in Leaf
  /\ T[e] = i
  /\ \A x \in E : x[1] = i => N[x] \in {Dot, DotDot}
  /\ F = {x \in E : x # e /\ x[1] # i}
  /\ \A x \in F : M[x] = N[x] /\ U[x] = T[x]

LEMMA LinkedRmdir ==
  ASSUME NEW A, NEW D, NEW E, NEW N, NEW T, NEW F, NEW M, NEW U, NEW e, NEW i,
         LinksRmdir(A, D, E, N, T, F, M, U, e, i)
  PROVE  /\ Linked(A \ {i}, D \ {i}, F, M, U)
         /\ \A x \in E : N[x] = DotDot /\ x[1] = i => T[x] = e[1]
         /\ \A x \in E : T[x] = i => x = e \/ x[1] = i
         /\ i # Root /\ i # e[1]
<1> USE DEF LinksRmdir
<1>1. Dot \notin Leaf /\ DotDot \notin Leaf /\ Dot # DotDot BY NamesAssumption
<1>2. i # Root /\ \A y \in E : N[y] \in Leaf /\ T[y] = i => y = e BY DEF Linked
<1>3. i # e[1] BY <1>1
<1>4. ASSUME NEW x \in E, N[x] = DotDot, x[1] = i PROVE T[x] = e[1]
  <2>1. PICK y \in E : y[1] = T[x] /\ N[y] \in Leaf /\ T[y] = i
    BY <1>2, <1>4 DEF Linked
  <2> QED BY <1>2, <2>1
<1>5. ASSUME NEW x \in E, T[x] = i, x # e PROVE x[1] = i
  <2>1. N[x] \in Names BY DEF Linked
  <2>2. CASE N[x] = Dot BY <1>5, <2>2 DEF Linked
  <2>3. CASE N[x] = DotDot
    <3>1. x[1] # Root BY <1>2, <1>5, <2>3 DEF Linked
    <3>2. PICK y \in E : y[1] = i /\ N[y] \in Leaf /\ T[y] = x[1]
      BY <1>5, <2>3, <3>1 DEF Linked
    <3> QED BY <1>1, <3>2
  <2>4. CASE N[x] \in Leaf BY <1>2, <1>5, <2>4
  <2> QED BY <2>1, <2>2, <2>3, <2>4 DEF Names
<1>6. Root \in D \ {i} /\ D \ {i} \subseteq A \ {i} BY <1>2 DEF Linked
<1>7. \A x \in F : x[1] \in D \ {i} /\ M[x] \in Names /\ U[x] \in A \ {i}
  BY <1>5 DEF Linked
<1>8. \A x, y \in F : x[1] = y[1] /\ M[x] = M[y] => x = y BY DEF Linked
<1>9. \A x \in F : M[x] = Dot => U[x] = x[1] BY DEF Linked
<1>10. ASSUME NEW x \in F, M[x] = DotDot
       PROVE  /\ U[x] \in D \ {i} /\ (x[1] = Root => U[x] = Root)
              /\ x[1] # Root => \E y \in F : y[1] = U[x] /\ M[y] \in Leaf /\ U[y] = x[1]
  <2>1. N[x] = DotDot /\ U[x] = T[x] /\ x \in E /\ x[1] # i /\ x # e BY <1>10
  <2>2. T[x] \in D /\ (x[1] = Root => T[x] = Root) BY <2>1 DEF Linked
  <2>3. T[x] # i BY <1>5, <2>1
  <2>4. ASSUME x[1] # Root PROVE \E y \in F : y[1] = U[x] /\ M[y] \in Leaf /\ U[y] = x[1]
    <3>1. PICK y \in E : y[1] = T[x] /\ N[y] \in Leaf /\ T[y] = x[1]
      BY <2>1, <2>4 DEF Linked
    <3>2. y \in F BY <2>1, <2>3, <3>1
    <3> QED BY <2>1, <3>1, <3>2
  <2> QED BY <2>1, <2>2, <2>3, <2>4
<1>11. ASSUME NEW x \in F, M[x] \in Leaf, U[x] \in D \ {i}
       PROVE  U[x] # Root /\ \A y \in F : M[y] \in Leaf /\ U[y] = U[x] => y = x
  BY <1>11 DEF Linked
<1>12. Linked(A \ {i}, D \ {i}, F, M, U)
  BY <1>6, <1>7, <1>8, <1>9, <1>10, <1>11 DEF Linked
<1> QED BY <1>2, <1>3, <1>4, <1>5, <1>12

\* Counts follow an entry that comes, and one that goes.
CountsEnter(A, D, E, T, F, U, nodes, after, e, i, d) ==
  /\ IsFiniteSet(E)
  /\ Counted(A, D, E, T, nodes)
  /\ e \notin E
  /\ e[1] = d
  /\ F = E \cup {e}
  /\ U[e] = i
  /\ \A x \in E : U[x] = T[x]
  /\ \A j \in A : after[j].nlink = IF j = i THEN nodes[j].nlink + 1 ELSE nodes[j].nlink
  /\ \A j \in D : after[j].size = IF j = d THEN nodes[j].size + 1 ELSE nodes[j].size

LEMMA CountedEnter ==
  ASSUME NEW A, NEW D, NEW E, NEW T, NEW F, NEW U, NEW nodes, NEW after, NEW e, NEW i, NEW d,
         CountsEnter(A, D, E, T, F, U, nodes, after, e, i, d)
  PROVE  Counted(A, D, F, U, after) /\ IsFiniteSet(F)
<1> USE DEF CountsEnter
<1>1. IsFiniteSet(F) BY FS_AddElement
<1>2. ASSUME NEW j \in A PROVE after[j].nlink = Cardinality(Into(F, U, j))
  <2>1. nodes[j].nlink = Cardinality(Into(E, T, j)) BY DEF Counted, Into
  <2>2. IsFiniteSet(Into(E, T, j)) BY FS_Subset DEF Into
  <2>3. CASE j = i
    <3>1. Into(F, U, j) = Into(E, T, j) \cup {e} BY <2>3 DEF Into
    <3>2. e \notin Into(E, T, j) BY DEF Into
    <3>3. Cardinality(Into(F, U, j)) = Cardinality(Into(E, T, j)) + 1
      BY <2>2, <3>1, <3>2, FS_AddElement
    <3> QED BY <2>1, <2>3, <3>3
  <2>4. CASE j # i
    <3>1. Into(F, U, j) = Into(E, T, j) BY <2>4 DEF Into
    <3> QED BY <2>1, <2>4, <3>1
  <2> QED BY <2>3, <2>4
<1>3. ASSUME NEW j \in D PROVE after[j].size = Cardinality(Within(F, j))
  <2>1. nodes[j].size = Cardinality(Within(E, j)) BY DEF Counted, Within
  <2>2. IsFiniteSet(Within(E, j)) BY FS_Subset DEF Within
  <2>3. CASE j = d
    <3>1. Within(F, j) = Within(E, j) \cup {e} BY <2>3 DEF Within
    <3>2. e \notin Within(E, j) BY DEF Within
    <3>3. Cardinality(Within(F, j)) = Cardinality(Within(E, j)) + 1
      BY <2>2, <3>1, <3>2, FS_AddElement
    <3> QED BY <2>1, <2>3, <3>3
  <2>4. CASE j # d
    <3>1. Within(F, j) = Within(E, j) BY <2>4 DEF Within
    <3> QED BY <2>1, <2>4, <3>1
  <2> QED BY <2>3, <2>4
<1> QED BY <1>1, <1>2, <1>3 DEF Counted, Into, Within

CountsLeave(A, D, E, T, F, U, nodes, after, e, i, d) ==
  /\ e \in E
  /\ IsFiniteSet(E)
  /\ Counted(A, D, E, T, nodes)
  /\ e[1] = d
  /\ F = E \ {e}
  /\ T[e] = i
  /\ \A x \in F : U[x] = T[x]
  /\ \A j \in A : after[j].nlink = IF j = i THEN nodes[j].nlink - 1 ELSE nodes[j].nlink
  /\ \A j \in D : after[j].size = IF j = d THEN nodes[j].size - 1 ELSE nodes[j].size

LEMMA CountedLeave ==
  ASSUME NEW A, NEW D, NEW E, NEW T, NEW F, NEW U, NEW nodes, NEW after, NEW e, NEW i, NEW d,
         CountsLeave(A, D, E, T, F, U, nodes, after, e, i, d)
  PROVE  Counted(A, D, F, U, after) /\ IsFiniteSet(F)
<1> USE DEF CountsLeave
<1>1. IsFiniteSet(F) BY FS_RemoveElement
<1>2. ASSUME NEW j \in A PROVE after[j].nlink = Cardinality(Into(F, U, j))
  <2>1. nodes[j].nlink = Cardinality(Into(E, T, j)) BY DEF Counted, Into
  <2>2. IsFiniteSet(Into(E, T, j)) BY FS_Subset DEF Into
  <2>3. CASE j = i
    <3>1. Into(F, U, j) = Into(E, T, j) \ {e} BY DEF Into
    <3>2. e \in Into(E, T, j) BY <2>3 DEF Into
    <3>3. Cardinality(Into(F, U, j)) = Cardinality(Into(E, T, j)) - 1
      BY <2>2, <3>1, <3>2, FS_RemoveElement, ZenonT(40)
    <3> QED BY <2>1, <2>3, <3>3
  <2>4. CASE j # i
    <3>1. Into(F, U, j) = Into(E, T, j) BY <2>4 DEF Into
    <3> QED BY <2>1, <2>4, <3>1
  <2> QED BY <2>3, <2>4
<1>3. ASSUME NEW j \in D PROVE after[j].size = Cardinality(Within(F, j))
  <2>1. nodes[j].size = Cardinality(Within(E, j)) BY DEF Counted, Within
  <2>2. IsFiniteSet(Within(E, j)) BY FS_Subset DEF Within
  <2>3. CASE j = d
    <3>1. Within(F, j) = Within(E, j) \ {e} BY DEF Within
    <3>2. e \in Within(E, j) BY <2>3 DEF Within
    <3>3. Cardinality(Within(F, j)) = Cardinality(Within(E, j)) - 1
      BY <2>2, <3>1, <3>2, FS_RemoveElement, ZenonT(40)
    <3> QED BY <2>1, <2>3, <3>3
  <2>4. CASE j # d
    <3>1. Within(F, j) = Within(E, j) BY <2>4 DEF Within
    <3> QED BY <2>1, <2>4, <3>1
  <2> QED BY <2>3, <2>4
<1> QED BY <1>1, <1>2, <1>3 DEF Counted, Into, Within

\* When the directory i goes, with its name e and its . and .. (z), its parent d
\* has one entry and one reference less.
CountsRmdir(A, D, E, T, F, U, nodes, after, e, z, i, d) ==
  /\ e \in E
  /\ z \in E
  /\ IsFiniteSet(E)
  /\ Counted(A, D, E, T, nodes)
  /\ e[1] = d
  /\ i # d
  /\ F = {x \in E : x # e /\ x[1] # i}
  /\ \A x \in F : U[x] = T[x]
  /\ T[e] = i
  /\ z[1] = i
  /\ T[z] = d
  /\ \A x \in E : x[1] = i /\ x # z => T[x] = i
  /\ \A j \in A \ {i} : after[j].nlink = IF j = d THEN nodes[j].nlink - 1 ELSE nodes[j].nlink
  /\ \A j \in D \ {i} : after[j].size = IF j = d THEN nodes[j].size - 1 ELSE nodes[j].size

LEMMA CountedRmdir ==
  ASSUME NEW A, NEW D, NEW E, NEW T, NEW F, NEW U, NEW nodes, NEW after, NEW e, NEW z, NEW i, NEW d,
         CountsRmdir(A, D, E, T, F, U, nodes, after, e, z, i, d)
  PROVE  Counted(A \ {i}, D \ {i}, F, U, after) /\ IsFiniteSet(F)
<1> USE DEF CountsRmdir
<1>1. IsFiniteSet(F) BY FS_Subset
<1>2. ASSUME NEW j \in A \ {i} PROVE after[j].nlink = Cardinality(Into(F, U, j))
  <2>1. nodes[j].nlink = Cardinality(Into(E, T, j)) BY DEF Counted, Into
  <2>2. IsFiniteSet(Into(E, T, j)) BY FS_Subset DEF Into
  <2>3. CASE j = d
    <3>1. Into(F, U, j) = Into(E, T, j) \ {z} BY <2>3 DEF Into
    <3>2. z \in Into(E, T, j) BY <2>3 DEF Into
    <3>3. Cardinality(Into(F, U, j)) = Cardinality(Into(E, T, j)) - 1
      BY <2>2, <3>1, <3>2, FS_RemoveElement, ZenonT(40)
    <3> QED BY <2>1, <2>3, <3>3
  <2>4. CASE j # d
    <3>1. Into(F, U, j) = Into(E, T, j) BY <2>4 DEF Into
    <3> QED BY <2>1, <2>4, <3>1
  <2> QED BY <2>3, <2>4
<1>3. ASSUME NEW j \in D \ {i} PROVE after[j].size = Cardinality(Within(F, j))
  <2>1. nodes[j].size = Cardinality(Within(E, j)) BY DEF Counted, Within
  <2>2. IsFiniteSet(Within(E, j)) BY FS_Subset DEF Within
  <2>3. CASE j = d
    <3>1. Within(F, j) = Within(E, j) \ {e} BY <2>3 DEF Within
    <3>2. e \in Within(E, j) BY <2>3 DEF Within
    <3>3. Cardinality(Within(F, j)) = Cardinality(Within(E, j)) - 1
      BY <2>2, <3>1, <3>2, FS_RemoveElement, ZenonT(40)
    <3> QED BY <2>1, <2>3, <3>3
  <2>4. CASE j # d
    <3>1. Within(F, j) = Within(E, j) BY <2>4 DEF Within
    <3> QED BY <2>1, <2>4, <3>1
  <2> QED BY <2>3, <2>4
<1> QED BY <1>1, <1>2, <1>3 DEF Counted, Into, Within

-----------------------------------------------------------------------------
(* The entries of two volumes. *)

Prefixes(v) == \A i \in Inodes : Prefix(v.inodes[i].blk)

LEMMA PointersFirst ==
  ASSUME NEW v, Pointers(v.imap, v.bmap, v.inodes)
  PROVE  Prefixes(v)
BY DEF Pointers, Prefixes, Prefix

LEMMA AliveInodes ==
  ASSUME NEW v \in Volume
  PROVE  /\ Alive(v) \subseteq v.imap /\ v.imap \subseteq Inodes
         /\ \A i \in v.imap : i \in Alive(v) <=> v.inodes[i].type = "dir"
BY DEF Alive, Volume, IsDir

LEMMA EntryIff ==
  ASSUME NEW v \in Volume, Prefixes(v), NEW d \in Alive(v), NEW p
  PROVE  /\ <<d, p>> \in Entries(v) <=>
              /\ p \in Places /\ v.inodes[d].blk[BlkIx(p)] # 0
              /\ Slot(v, d, p).name # NoName
         /\ p \in Used(v, d) <=> <<d, p>> \in Entries(v)
<1>1. d \in Inodes BY AliveInodes
<1>2. /\ Positions(v, d) \subseteq Places
      /\ \A q \in Places : q \in Positions(v, d) <=> v.inodes[d].blk[BlkIx(q)] # 0
  BY <1>1, PositionsAre DEF Prefixes
<1>3. <<d, p>> \in Entries(v) <=> p \in Places /\ p \in Used(v, d)
  BY DEF Entries
<1>4. p \in Used(v, d) <=> p \in Positions(v, d) /\ Slot(v, d, p).name # NoName
  BY DEF Used
<1> QED BY <1>2, <1>3, <1>4

LEMMA EntryPairs ==
  ASSUME NEW v, NEW x \in Entries(v)
  PROVE  x = <<x[1], x[2]>> /\ x[1] \in Alive(v) /\ x[2] \in Places
BY DEF Entries

LEMMA EntriesFinite ==
  ASSUME NEW v \in Volume
  PROVE  IsFiniteSet(Entries(v))
<1>1. NInodes \in Int /\ 1 \in Int /\ 0 \in Int BY SizesAssumption
<1>2. MaxBlks * DirentsPerBlk - 1 \in Int BY SizesAssumption
<1>3. IsFiniteSet(Inodes) BY <1>1, FS_Interval DEF Inodes
<1>4. IsFiniteSet(Places) BY <1>1, <1>2, FS_Interval DEF Places
<1>5. IsFiniteSet(Inodes \X Places) BY <1>3, <1>4, FS_Product
<1>6. Entries(v) \subseteq Inodes \X Places BY AliveInodes DEF Entries
<1> QED BY <1>5, <1>6, FS_Subset

\* Two volumes in which a directory has the same entries: the same slots in each
\* block it has in both, and nothing in any other.
Blank(v, d, k) == v.inodes[d].blk[k] = 0 \/ v.blocks[v.inodes[d].blk[k]] = Zeros
Framed(v, w, d) == \A k \in Index :
  \/ /\ w.inodes[d].blk[k] = v.inodes[d].blk[k]
     /\ w.inodes[d].blk[k] # 0 => w.blocks[w.inodes[d].blk[k]].slots = v.blocks[w.inodes[d].blk[k]].slots
  \/ Blank(v, d, k) /\ Blank(w, d, k)

LEMMA BlankSlot ==
  ASSUME NEW v, NEW d, NEW p \in Places, Blank(v, d, BlkIx(p)),
         v.inodes[d].blk[BlkIx(p)] # 0
  PROVE  Slot(v, d, p) = FreeSlot
<1>1. SlotIx(p) \in Slots BY PlacesArePairs
<1>2. v.blocks[v.inodes[d].blk[BlkIx(p)]] = Zeros BY DEF Blank
<1>3. Zeros.slots[SlotIx(p)] = FreeSlot BY <1>1 DEF Zeros
<1> QED BY <1>2, <1>3, SlotAt

LEMMA SameDir ==
  ASSUME NEW v, NEW w, NEW d \in Inodes, Prefixes(v), Prefixes(w), Framed(v, w, d), NEW p
  PROVE  /\ p \in Used(v, d) <=> p \in Used(w, d)
         /\ p \in Used(v, d) => Slot(w, d, p) = Slot(v, d, p)
<1>1. /\ Positions(v, d) \subseteq Places /\ Positions(w, d) \subseteq Places
      /\ \A q \in Places : q \in Positions(v, d) <=> v.inodes[d].blk[BlkIx(q)] # 0
      /\ \A q \in Places : q \in Positions(w, d) <=> w.inodes[d].blk[BlkIx(q)] # 0
  BY PositionsAre DEF Prefixes
<1>2. /\ p \in Used(v, d) <=> p \in Positions(v, d) /\ Slot(v, d, p).name # NoName
      /\ p \in Used(w, d) <=> p \in Positions(w, d) /\ Slot(w, d, p).name # NoName
  BY DEF Used
<1> SUFFICES ASSUME p \in Places
             PROVE  /\ p \in Used(v, d) <=> p \in Used(w, d)
                    /\ p \in Used(v, d) => Slot(w, d, p) = Slot(v, d, p)
  BY <1>1, <1>2
<1>3. BlkIx(p) \in Index BY PlacesArePairs
<1>4. CASE /\ w.inodes[d].blk[BlkIx(p)] = v.inodes[d].blk[BlkIx(p)]
           /\ w.inodes[d].blk[BlkIx(p)] # 0 =>
                w.blocks[w.inodes[d].blk[BlkIx(p)]].slots = v.blocks[w.inodes[d].blk[BlkIx(p)]].slots
  <2>1. CASE w.inodes[d].blk[BlkIx(p)] = 0 BY <1>1, <1>2, <1>4, <2>1
  <2>2. CASE w.inodes[d].blk[BlkIx(p)] # 0
    <3>1. Slot(w, d, p) = Slot(v, d, p) BY <1>4, <2>2, SlotAt
    <3> QED BY <1>1, <1>2, <1>4, <2>2, <3>1
  <2> QED BY <2>1, <2>2
<1>5. CASE Blank(v, d, BlkIx(p)) /\ Blank(w, d, BlkIx(p))
  <2>1. p \in Positions(v, d) => Slot(v, d, p).name = NoName BY <1>1, <1>5, BlankSlot DEF FreeSlot
  <2>2. p \in Positions(w, d) => Slot(w, d, p).name = NoName BY <1>1, <1>5, BlankSlot DEF FreeSlot
  <2> QED BY <1>2, <2>1, <2>2
<1> QED BY <1>3, <1>4, <1>5 DEF Framed

LEMMA SameEntries ==
  ASSUME NEW v \in Volume, NEW w \in Volume, Prefixes(v), Prefixes(w),
         \A d \in Alive(v) : d \in Alive(w) /\ Framed(v, w, d),
         \A d \in Alive(w) \ Alive(v) : \A k \in Index : w.inodes[d].blk[k] = 0
  PROVE  Entries(w) = Entries(v) /\ NameOf(w) = NameOf(v) /\ InumOf(w) = InumOf(v)
<1>1. ASSUME NEW d \in Alive(v), NEW p
      PROVE  /\ p \in Used(v, d) <=> p \in Used(w, d)
             /\ p \in Used(v, d) => Slot(w, d, p) = Slot(v, d, p)
  BY AliveInodes, SameDir
<1>2. ASSUME NEW d \in Alive(w) \ Alive(v), NEW p PROVE <<d, p>> \notin Entries(w)
  <2>1. <<d, p>> \in Entries(w) => p \in Places /\ w.inodes[d].blk[BlkIx(p)] # 0 BY EntryIff
  <2> QED BY <2>1, PlacesArePairs
<1>3. ASSUME NEW x PROVE x \in Entries(v) <=> x \in Entries(w)
  <2>1. x \in Entries(v) => x \in Entries(w) BY <1>1 DEF Entries
  <2>2. ASSUME x \in Entries(w) PROVE x \in Entries(v)
    <3>1. x = <<x[1], x[2]>> /\ x[1] \in Alive(w) /\ x[2] \in Places /\ x[2] \in Used(w, x[1])
      BY <2>2 DEF Entries
    <3>2. x[1] \in Alive(v) BY <1>2, <2>2, <3>1
    <3> QED BY <1>1, <3>1, <3>2 DEF Entries
  <2> QED BY <2>1, <2>2
<1>4. Entries(w) = Entries(v) BY <1>3
<1>5. \A x \in Entries(v) : Slot(w, x[1], x[2]) = Slot(v, x[1], x[2])
  BY <1>1 DEF Entries
<1> QED BY <1>4, <1>5 DEF NameOf, InumOf

-----------------------------------------------------------------------------
(* What keeps the invariant. *)

\* A step that leaves every entry alone, and takes or frees no inode that has one.
LEMMA GoodFrame ==
  ASSUME NEW v \in Volume, NEW w \in Volume, Good(v),
         Pointers(w.imap, w.bmap, w.inodes), Contents(w),
         \A i \in v.imap \cap w.imap :
           /\ w.inodes[i].type = v.inodes[i].type /\ w.inodes[i].nlink = v.inodes[i].nlink
           /\ i \in Alive(v) => w.inodes[i].size = v.inodes[i].size /\ Framed(v, w, i),
         \A i \in w.imap \ v.imap :
           /\ w.inodes[i].nlink = 0
           /\ w.inodes[i].type = "dir" =>
                w.inodes[i].size = 0 /\ \A k \in Index : w.inodes[i].blk[k] = 0,
         \A i \in v.imap \ w.imap :
           i \notin Alive(v) /\ \A x \in Entries(v) : InumOf(v)[x] # i
  PROVE  /\ Good(w)
         /\ Entries(w) = Entries(v) /\ NameOf(w) = NameOf(v) /\ InumOf(w) = InumOf(v)
<1> DEFINE E == Entries(v)
           N == NameOf(v)
           T == InumOf(v)
<1>1. /\ Linked(v.imap, Alive(v), E, N, T) /\ Counted(v.imap, Alive(v), E, T, v.inodes)
      /\ Pointers(v.imap, v.bmap, v.inodes)
  BY DEF Good
<1>2. \A i \in Alive(v) : i \in Alive(w) BY AliveInodes
<1>3. \A d \in Alive(w) \ Alive(v) : /\ d \in w.imap \ v.imap /\ w.inodes[d].size = 0
                                     /\ \A k \in Index : w.inodes[d].blk[k] = 0
  BY AliveInodes
<1>4. Entries(w) = E /\ NameOf(w) = N /\ InumOf(w) = T
  <2>1. Prefixes(v) /\ Prefixes(w) BY <1>1, PointersFirst
  <2>2. \A d \in Alive(v) : d \in Alive(w) /\ Framed(v, w, d) BY <1>2, AliveInodes
  <2> QED BY <1>3, <2>1, <2>2, SameEntries
<1>5. Alive(v) \subseteq v.imap /\ Alive(w) \subseteq w.imap BY AliveInodes
<1>6. Linked(w.imap, Alive(w), E, N, T)
  <2> HIDE DEF E, N, T
  <2>1. Root \in Alive(w) /\ Alive(w) \subseteq w.imap BY <1>1, <1>2, <1>5 DEF Linked
  <2>2. \A x \in E : x[1] \in Alive(v) /\ T[x] \in v.imap /\ N[x] \in Names BY <1>1 DEF Linked
  <2>3. \A x \in E : T[x] \in w.imap BY <2>2 DEF E, T
  <2>4. \A x \in E : T[x] \in Alive(w) <=> T[x] \in Alive(v) BY <1>2, <1>3, <2>2
  <2>5. \A x \in E : x[1] \in Alive(w) BY <1>2, <2>2
  <2>6. \A x \in E : N[x] = DotDot =>
          /\ T[x] \in Alive(v) /\ (x[1] = Root => T[x] = Root)
          /\ x[1] # Root => \E y \in E : y[1] = T[x] /\ N[y] \in Leaf /\ T[y] = x[1]
    BY <1>1 DEF Linked
  <2>7. \A x \in E : N[x] \in Leaf /\ T[x] \in Alive(v) =>
          /\ T[x] # Root
          /\ \A y \in E : N[y] \in Leaf /\ T[y] = T[x] => y = x
    BY <1>1 DEF Linked
  <2>8. /\ \A x, y \in E : x[1] = y[1] /\ N[x] = N[y] => x = y
        /\ \A x \in E : N[x] = Dot => T[x] = x[1]
    BY <1>1 DEF Linked
  <2> QED BY <2>1, <2>2, <2>3, <2>4, <2>5, <2>6, <2>7, <2>8 DEF Linked
<1>7. Counted(w.imap, Alive(w), E, T, w.inodes)
  <2> HIDE DEF E, T
  <2>1. ASSUME NEW i \in w.imap PROVE w.inodes[i].nlink = Cardinality({x \in E : T[x] = i})
    <3>1. CASE i \in v.imap BY <1>1, <3>1 DEF Counted
    <3>2. CASE i \notin v.imap
      <4>1. \A x \in E : T[x] # i BY <1>1, <3>2 DEF Linked
      <4>2. {x \in E : T[x] = i} = {} BY <4>1
      <4> QED BY <3>2, <4>2, FS_EmptySet
    <3> QED BY <3>1, <3>2
  <2>2. ASSUME NEW d \in Alive(w) PROVE w.inodes[d].size = Cardinality({x \in E : x[1] = d})
    <3>1. CASE d \in Alive(v) BY <1>1, <1>5, <3>1 DEF Counted
    <3>2. CASE d \notin Alive(v)
      <4>1. \A x \in E : x[1] # d BY <1>1, <3>2 DEF Linked
      <4>2. {x \in E : x[1] = d} = {} BY <4>1
      <4> QED BY <1>3, <3>2, <4>2, FS_EmptySet
    <3> QED BY <3>1, <3>2
  <2> QED BY <2>1, <2>2 DEF Counted
<1> QED BY <1>4, <1>6, <1>7 DEF Good

LEMMA ContentSame ==
  ASSUME NEW n, NEW before, NEW after, Content(n, before),
         n.blk[0] # 0 => after[n.blk[0]] = before[n.blk[0]]
  PROVE  Content(n, after)
BY DEF Content

\* get_file_blkno gives an inode a block that nothing points to.
LEMMA GrowGood ==
  ASSUME NEW v \in Volume, NEW w \in Volume, Good(v),
         NEW i \in v.imap, NEW k \in Index, NEW b \in Blks \ v.bmap,
         v.inodes[i].blk[k] = 0, \A l \in Index : l < k => v.inodes[i].blk[l] # 0,
         i \notin Alive(v) => k = 0,
         w.imap = v.imap, w.bmap = v.bmap \cup {b},
         w.inodes = [v.inodes EXCEPT ![i].blk[k] = b],
         w.blocks = [v.blocks EXCEPT ![b] = Zeros]
  PROVE  /\ Good(w)
         /\ Entries(w) = Entries(v) /\ NameOf(w) = NameOf(v) /\ InumOf(w) = InumOf(v)
<1>1. /\ i \in Inodes /\ b # 0 /\ b \in Blks /\ Index \subseteq Nat
      /\ \A j \in Inodes : v.inodes[j] \in Inode /\ v.inodes[j].blk \in [Index -> 0 .. NBlocks]
  BY AliveInodes, PlacesArePairs DEF Volume, Inode, Blks
<1>2. /\ \A j \in Inodes : j # i => w.inodes[j] = v.inodes[j]
      /\ \A l \in Index : w.inodes[i].blk[l] = IF l = k THEN b ELSE v.inodes[i].blk[l]
      /\ \A j \in Inodes : /\ w.inodes[j].type = v.inodes[j].type
                           /\ w.inodes[j].nlink = v.inodes[j].nlink
                           /\ w.inodes[j].size = v.inodes[j].size
  BY <1>1 DEF Volume, Inode
<1>3. \A c \in Blks : w.blocks[c] = IF c = b THEN Zeros ELSE v.blocks[c]
  BY DEF Volume
<1>4. Pointers(v.imap, v.bmap, v.inodes) BY DEF Good
<1>5. \A j \in Inodes, l \in Index : v.inodes[j].blk[l] # b
  BY <1>1, <1>4 DEF Pointers
<1>6. \A j \in Inodes, l \in Index :
        w.inodes[j].blk[l] = IF j = i /\ l = k THEN b ELSE v.inodes[j].blk[l]
  BY <1>2
<1>7. Pointers(w.imap, w.bmap, w.inodes)
  <2>1. \A j, m \in Inodes, l, o \in Index :
          w.inodes[j].blk[l] # 0 /\ w.inodes[j].blk[l] = w.inodes[m].blk[o] => j = m /\ l = o
    BY <1>4, <1>5, <1>6 DEF Pointers
  <2>2. \A c \in Blks : c \in w.bmap <=> \E j \in Inodes, l \in Index : w.inodes[j].blk[l] = c
    <3> TAKE c \in Blks
    <3>1. CASE c = b BY <1>1, <1>6, <3>1
    <3>2. CASE c # b
      <4>1. c \in w.bmap <=> \E j \in Inodes, l \in Index : v.inodes[j].blk[l] = c
        BY <1>4, <3>2 DEF Pointers
      <4>2. \A j \in Inodes, l \in Index : w.inodes[j].blk[l] = c <=> v.inodes[j].blk[l] = c
        BY <1>1, <1>6, <3>2 DEF Blks
      <4> QED BY <4>1, <4>2
    <3> QED BY <3>1, <3>2
  <2>3. \A j \in Inodes, l \in Index : w.inodes[j].blk[l] # 0 => j \in w.imap
    BY <1>4, <1>6 DEF Pointers
  <2>4. \A j \in Inodes, l, o \in Index : o < l /\ w.inodes[j].blk[l] # 0 => w.inodes[j].blk[o] # 0
    BY <1>1, <1>4, <1>6 DEF Pointers
  <2> QED BY <2>1, <2>2, <2>3, <2>4 DEF Pointers
<1>8. Contents(w)
  <2>1. Contents(v) BY DEF Good
  <2> SUFFICES ASSUME NEW j \in w.imap PROVE Content(w.inodes[j], w.blocks) BY DEF Contents
  <2>2. j \in v.imap /\ j \in Inodes /\ 0 \in Index BY AliveInodes, PlacesArePairs
  <2>3. CASE j = i
    <3>1. w.inodes[j].type # "dir" => w.inodes[j].size = 0
      BY <1>2, <2>1, <2>2, <2>3, AliveInodes DEF Contents, Content
    <3>2. w.inodes[j].type # "dir" => \A l \in Index : l # 0 => w.inodes[j].blk[l] = 0
      BY <1>2, <1>6, <2>1, <2>2, <2>3, AliveInodes DEF Contents, Content
    <3> QED BY <1>2, <2>1, <2>2, <3>1, <3>2 DEF Contents, Content
  <2>4. CASE j # i
    <3>1. w.inodes[j] = v.inodes[j] BY <1>2, <2>2, <2>4
    <3>2. v.inodes[j].blk[0] # 0 => v.inodes[j].blk[0] \in Blks
      BY <1>1, <2>2 DEF Blks
    <3>3. v.inodes[j].blk[0] # 0 => w.blocks[v.inodes[j].blk[0]] = v.blocks[v.inodes[j].blk[0]]
      BY <1>3, <1>5, <2>2, <3>2
    <3> QED BY <2>1, <2>2, <3>1, <3>3, ContentSame DEF Contents
  <2> QED BY <2>3, <2>4
<1>9. ASSUME NEW d \in Alive(v) PROVE Framed(v, w, d)
  <2>1. d \in Inodes BY AliveInodes
  <2> SUFFICES ASSUME NEW l \in Index
               PROVE  \/ /\ w.inodes[d].blk[l] = v.inodes[d].blk[l]
                         /\ w.inodes[d].blk[l] # 0 =>
                              w.blocks[w.inodes[d].blk[l]].slots = v.blocks[w.inodes[d].blk[l]].slots
                      \/ Blank(v, d, l) /\ Blank(w, d, l)
    BY DEF Framed
  <2>2. CASE d = i /\ l = k BY <1>1, <1>3, <1>6, <2>2 DEF Blank
  <2>3. CASE ~(d = i /\ l = k)
    <3>1. w.inodes[d].blk[l] = v.inodes[d].blk[l] BY <1>6, <2>1, <2>3
    <3>2. v.inodes[d].blk[l] # 0 => v.inodes[d].blk[l] \in Blks BY <1>1, <2>1 DEF Blks
    <3> QED BY <1>3, <1>5, <2>1, <3>1, <3>2
  <2> QED BY <2>2, <2>3
<1>10. v.imap \subseteq Inodes /\ Alive(v) \subseteq v.imap BY AliveInodes
<1>11. \A j \in v.imap \cap w.imap :
         /\ w.inodes[j].type = v.inodes[j].type /\ w.inodes[j].nlink = v.inodes[j].nlink
         /\ j \in Alive(v) => w.inodes[j].size = v.inodes[j].size /\ Framed(v, w, j)
  BY <1>2, <1>9, <1>10
<1> QED BY <1>7, <1>8, <1>11, GoodFrame

\* Facts of a volume that the following steps keep needing.
LEMMA VolumeFacts ==
  ASSUME NEW v \in Volume
  PROVE  /\ v.imap \subseteq Inodes /\ Alive(v) \subseteq v.imap
         /\ v.bmap \subseteq Blks /\ Index \subseteq Nat /\ 0 \in Index
         /\ \A j \in Inodes : /\ v.inodes[j] \in Inode
                              /\ v.inodes[j].blk \in [Index -> 0 .. NBlocks]
         /\ \A j \in Inodes, k \in Index :
              v.inodes[j].blk[k] # 0 => v.inodes[j].blk[k] \in Blks
BY AliveInodes, PlacesArePairs DEF Volume, Inode, Blks

\* init_new_inode takes a free inode, which has no block.
LEMMA TakeGood ==
  ASSUME NEW v \in Volume, NEW w \in Volume, Good(v),
         NEW i \in Inodes \ v.imap, NEW t \in {"dir", "file", "link"},
         w.imap = v.imap \cup {i}, w.bmap = v.bmap, w.blocks = v.blocks,
         w.inodes[i] = NewInode(t, v.inodes[i].blk),
         \A j \in Inodes : j # i => w.inodes[j] = v.inodes[j]
  PROVE  /\ Good(w)
         /\ Entries(w) = Entries(v) /\ NameOf(w) = NameOf(v) /\ InumOf(w) = InumOf(v)
<1>1. Pointers(v.imap, v.bmap, v.inodes) /\ Contents(v) BY DEF Good
<1>2. /\ w.inodes[i].type = t /\ w.inodes[i].nlink = 0 /\ w.inodes[i].size = 0
      /\ w.inodes[i].blk = v.inodes[i].blk
  BY DEF NewInode
<1>3. \A j \in Inodes : w.inodes[j].blk = v.inodes[j].blk BY <1>2
<1>4. \A k \in Index : w.inodes[i].blk[k] = 0 BY <1>1, <1>2 DEF Pointers
<1>5. Pointers(w.imap, w.bmap, w.inodes) BY <1>1, <1>3 DEF Pointers
<1>6. Contents(w)
  <2> SUFFICES ASSUME NEW j \in w.imap PROVE Content(w.inodes[j], w.blocks) BY DEF Contents
  <2>1. CASE j = i BY <1>2, <1>4, <2>1 DEF Content
  <2>2. CASE j # i BY <1>1, <2>2, VolumeFacts DEF Contents
  <2> QED BY <2>1, <2>2
<1>7. \A d \in v.imap : w.inodes[d] = v.inodes[d] BY VolumeFacts
<1>8. \A d \in v.imap : Framed(v, w, d) BY <1>7 DEF Framed
<1> QED BY <1>2, <1>4, <1>5, <1>6, <1>7, <1>8, GoodFrame

\* return_inode frees an inode that has no block and no name.
LEMMA ReturnGood ==
  ASSUME NEW v \in Volume, NEW w \in Volume, Good(v), NEW i \in v.imap, i \notin Alive(v),
         \A k \in Index : v.inodes[i].blk[k] = 0, \A x \in Entries(v) : InumOf(v)[x] # i,
         w.imap = v.imap \ {i}, w.bmap = v.bmap, w.blocks = v.blocks, w.inodes = v.inodes
  PROVE  /\ Good(w)
         /\ Entries(w) = Entries(v) /\ NameOf(w) = NameOf(v) /\ InumOf(w) = InumOf(v)
<1>1. Pointers(v.imap, v.bmap, v.inodes) /\ Contents(v) BY DEF Good
<1>2. Pointers(w.imap, w.bmap, w.inodes) BY <1>1 DEF Pointers
<1>3. Contents(w) BY <1>1 DEF Contents
<1>4. \A d \in v.imap : Framed(v, w, d) BY DEF Framed
<1> QED BY <1>2, <1>3, <1>4, GoodFrame

\* The blocks of an inode, and their marks, go together.
LEMMA PointersFreed ==
  ASSUME NEW v \in Volume, Pointers(v.imap, v.bmap, v.inodes), NEW i \in Inodes,
         NEW bmap, bmap = v.bmap \ {v.inodes[i].blk[k] : k \in Index}, NEW inodes,
         \A j \in Inodes, k \in Index :
           inodes[j].blk[k] = IF j = i THEN 0 ELSE v.inodes[j].blk[k]
  PROVE  Pointers(v.imap, bmap, inodes) /\ Pointers(v.imap \ {i}, bmap, inodes)
<1>1. \A j, m \in Inodes, l, o \in Index :
        inodes[j].blk[l] # 0 /\ inodes[j].blk[l] = inodes[m].blk[o] => j = m /\ l = o
  BY DEF Pointers
<1>2. \A c \in Blks : c \in bmap <=> \E j \in Inodes, l \in Index : inodes[j].blk[l] = c
  <2> TAKE c \in Blks
  <2>1. c # 0 BY DEF Blks
  <2>2. c \in v.bmap <=> \E j \in Inodes, l \in Index : v.inodes[j].blk[l] = c
    BY DEF Pointers
  <2>3. CASE \E l \in Index : v.inodes[i].blk[l] = c
    <3>1. c \notin bmap BY <2>3
    <3>2. \A j \in Inodes, l \in Index : v.inodes[j].blk[l] = c => j = i
      BY <2>1, <2>3 DEF Pointers
    <3> QED BY <2>1, <3>1, <3>2
  <2>4. CASE \A l \in Index : v.inodes[i].blk[l] # c
    <3>1. c \in bmap <=> c \in v.bmap BY <2>4
    <3> QED BY <2>1, <2>2, <2>4, <3>1
  <2> QED BY <2>3, <2>4
<1>3. \A j \in Inodes, l \in Index : inodes[j].blk[l] # 0 => j \in v.imap \ {i}
  BY DEF Pointers
<1>4. \A j \in Inodes, l, o \in Index : o < l /\ inodes[j].blk[l] # 0 => inodes[j].blk[o] # 0
  BY DEF Pointers
<1> QED BY <1>1, <1>2, <1>3, <1>4 DEF Pointers

\* do_truncate takes the block of what is not a directory.
LEMMA TruncateGood ==
  ASSUME NEW v \in Volume, NEW w \in Volume, Good(v), NEW i \in v.imap, i \notin Alive(v),
         w.imap = v.imap, w.blocks = v.blocks,
         w.bmap = v.bmap \ {v.inodes[i].blk[k] : k \in Index},
         \A k \in Index : w.inodes[i].blk[k] = 0, w.inodes[i].size = 0,
         w.inodes[i].type = v.inodes[i].type, w.inodes[i].nlink = v.inodes[i].nlink,
         \A j \in Inodes : j # i => w.inodes[j] = v.inodes[j]
  PROVE  /\ Good(w)
         /\ Entries(w) = Entries(v) /\ NameOf(w) = NameOf(v) /\ InumOf(w) = InumOf(v)
<1>1. Pointers(v.imap, v.bmap, v.inodes) /\ Contents(v) BY DEF Good
<1>2. \A j \in Inodes, k \in Index :
        w.inodes[j].blk[k] = IF j = i THEN 0 ELSE v.inodes[j].blk[k]
  OBVIOUS
<1>3. Pointers(w.imap, w.bmap, w.inodes) BY <1>1, <1>2, VolumeFacts, PointersFreed
<1>4. Contents(w)
  <2> SUFFICES ASSUME NEW j \in w.imap PROVE Content(w.inodes[j], w.blocks) BY DEF Contents
  <2>1. CASE j = i BY <1>1, <2>1 DEF Contents, Content
  <2>2. CASE j # i BY <1>1, <2>2, VolumeFacts DEF Contents
  <2> QED BY <2>1, <2>2
<1>5. \A d \in v.imap : d # i => w.inodes[d] = v.inodes[d] BY VolumeFacts
<1>6. \A d \in v.imap : d # i => Framed(v, w, d) BY <1>5 DEF Framed
<1>7. \A d \in v.imap \cap w.imap :
        /\ w.inodes[d].type = v.inodes[d].type /\ w.inodes[d].nlink = v.inodes[d].nlink
        /\ d \in Alive(v) => w.inodes[d].size = v.inodes[d].size /\ Framed(v, w, d)
  BY <1>5, <1>6
<1> QED BY <1>3, <1>4, <1>7, GoodFrame

\* do_write fills the block of what is not a directory.
LEMMA FillGood ==
  ASSUME NEW v \in Volume, NEW w \in Volume, Good(v), NEW i \in v.imap, i \notin Alive(v),
         v.inodes[i].blk[0] # 0, NEW c,
         v.inodes[i].type = "link" => c.text \in LinkText,
         w.imap = v.imap, w.bmap = v.bmap,
         w.blocks[v.inodes[i].blk[0]] = c,
         \A b \in Blks : b # v.inodes[i].blk[0] => w.blocks[b] = v.blocks[b],
         w.inodes[i].blk = v.inodes[i].blk,
         w.inodes[i].type = v.inodes[i].type, w.inodes[i].nlink = v.inodes[i].nlink,
         \A j \in Inodes : j # i => w.inodes[j] = v.inodes[j]
  PROVE  /\ Good(w)
         /\ Entries(w) = Entries(v) /\ NameOf(w) = NameOf(v) /\ InumOf(w) = InumOf(v)
<1>1. Pointers(v.imap, v.bmap, v.inodes) /\ Contents(v) BY DEF Good
<1>2. \A j \in Inodes : w.inodes[j].blk = v.inodes[j].blk OBVIOUS
<1>3. Pointers(w.imap, w.bmap, w.inodes) BY <1>1, <1>2 DEF Pointers
<1>4. \A j \in Inodes, l \in Index : v.inodes[j].blk[l] # 0 /\ j # i =>
        w.blocks[v.inodes[j].blk[l]] = v.blocks[v.inodes[j].blk[l]]
  BY <1>1, VolumeFacts DEF Pointers
<1>5. Contents(w)
  <2> SUFFICES ASSUME NEW j \in w.imap PROVE Content(w.inodes[j], w.blocks) BY DEF Contents
  <2>1. Content(v.inodes[j], v.blocks) /\ j \in Inodes BY <1>1, VolumeFacts DEF Contents
  <2>2. CASE j = i BY <2>1, <2>2 DEF Content
  <2>3. CASE j # i
    <3>1. w.inodes[j] = v.inodes[j] BY <2>1, <2>3
    <3>2. v.inodes[j].blk[0] # 0 => w.blocks[v.inodes[j].blk[0]] = v.blocks[v.inodes[j].blk[0]]
      BY <1>4, <2>1, <2>3, VolumeFacts
    <3> QED BY <2>1, <3>1, <3>2, ContentSame
  <2> QED BY <2>2, <2>3
<1>6. \A d \in v.imap : d # i => w.inodes[d] = v.inodes[d] BY VolumeFacts
<1>7. \A d \in v.imap : d # i => Framed(v, w, d)
  <2> SUFFICES ASSUME NEW d \in v.imap, d # i, NEW k \in Index
               PROVE  /\ w.inodes[d].blk[k] = v.inodes[d].blk[k]
                      /\ w.inodes[d].blk[k] # 0 =>
                           w.blocks[w.inodes[d].blk[k]].slots = v.blocks[w.inodes[d].blk[k]].slots
    BY DEF Framed
  <2>1. d \in Inodes BY VolumeFacts
  <2> QED BY <1>4, <1>6, <2>1
<1>8. \A d \in v.imap \cap w.imap :
        /\ w.inodes[d].type = v.inodes[d].type /\ w.inodes[d].nlink = v.inodes[d].nlink
        /\ d \in Alive(v) => w.inodes[d].size = v.inodes[d].size /\ Framed(v, w, d)
  BY <1>6, <1>7
<1> QED BY <1>3, <1>5, <1>8, GoodFrame

-----------------------------------------------------------------------------
(* Entries of a directory that change. *)

\* There are no more entries than slots of data blocks, so that no count wraps.
LEMMA EntriesBound ==
  ASSUME NEW v \in Volume, Pointers(v.imap, v.bmap, v.inodes), NEW F,
         \A x \in F : /\ x = <<x[1], x[2]>> /\ x[1] \in Inodes /\ x[2] \in Places
                      /\ v.inodes[x[1]].blk[BlkIx(x[2])] # 0
  PROVE  /\ IsFiniteSet(F) /\ Cardinality(F) <= MaxNlink
         /\ Cardinality(F) <= NBlocks * DirentsPerBlk
<1> DEFINE f == [x \in F |-> <<v.inodes[x[1]].blk[BlkIx(x[2])], SlotIx(x[2])>>]
           room == Blks \X Slots
<1>1. NInodes \in Nat /\ NBlocks \in Nat /\ DirentsPerBlk \in Nat /\ DirentsPerBlk > 0
      /\ MaxBlks \in Nat /\ MaxNlink \in Nat /\ NBlocks * DirentsPerBlk <= MaxNlink
  BY SizesAssumption, CountsAssumption
<1>2. IsFiniteSet(F)
  <2>1. MaxBlks * DirentsPerBlk - 1 \in Int /\ 0 \in Int BY <1>1
  <2>2. IsFiniteSet(Inodes) /\ IsFiniteSet(Places)
    <3>1. 1 \in Int /\ NInodes \in Int BY <1>1
    <3>2. IsFiniteSet(Inodes) BY <3>1, FS_Interval DEF Inodes
    <3>3. IsFiniteSet(Places) BY <2>1, FS_Interval DEF Places
    <3> QED BY <3>2, <3>3
  <2>3. IsFiniteSet(Inodes \X Places) BY <2>2, FS_Product
  <2>4. F \subseteq Inodes \X Places
    <3> SUFFICES ASSUME NEW x \in F PROVE x \in Inodes \X Places OBVIOUS
    <3> QED OBVIOUS
  <2> QED BY <2>3, <2>4, FS_Subset
<1>3. IsFiniteSet(room) /\ Cardinality(room) = NBlocks * DirentsPerBlk
  <2>1. IsFiniteSet(Blks) /\ Cardinality(Blks) = NBlocks
    <3>1. 1 \in Int /\ NBlocks \in Int /\ ~(1 > NBlocks) /\ NBlocks - 1 + 1 = NBlocks
      BY SizesAssumption
    <3> QED BY <3>1, FS_Interval DEF Blks
  <2>2. IsFiniteSet(Slots) /\ Cardinality(Slots) = DirentsPerBlk
    <3>1. DirentsPerBlk - 1 \in Int /\ 0 \in Int /\ ~(0 > DirentsPerBlk - 1)
          /\ DirentsPerBlk - 1 - 0 + 1 = DirentsPerBlk
      BY <1>1
    <3> QED BY <3>1, FS_Interval DEF Slots
  <2> QED BY <2>1, <2>2, FS_Product
<1>4. f \in [F -> room]
  <2> SUFFICES ASSUME NEW x \in F
               PROVE  <<v.inodes[x[1]].blk[BlkIx(x[2])], SlotIx(x[2])>> \in room
    OBVIOUS
  <2> QED BY PlacesArePairs, VolumeFacts
<1>5. ASSUME NEW x \in F, NEW y \in F, f[x] = f[y] PROVE x = y
  <2>1. v.inodes[x[1]].blk[BlkIx(x[2])] = v.inodes[y[1]].blk[BlkIx(y[2])] /\ SlotIx(x[2]) = SlotIx(y[2])
    BY <1>5
  <2>2. x[1] = y[1] /\ BlkIx(x[2]) = BlkIx(y[2])
    BY <2>1, PlacesArePairs DEF Pointers
  <2>3. x[2] = y[2] BY <2>1, <2>2, PlacesArePairs
  <2> QED BY <2>2, <2>3
<1> HIDE DEF f, room
<1>6. ~(Cardinality(room) < Cardinality(F)) BY <1>2, <1>3, <1>4, <1>5, FS_PigeonHole
<1>7. Cardinality(F) \in Nat BY <1>2, FS_CardinalityType
<1> QED BY <1>1, <1>2, <1>3, <1>6, <1>7

\* A step that changes one slot of a directory changes no other.
SlotSet(v, w, d, p, e) ==
  \A b \in Blks : w.blocks[b] = IF b = v.inodes[d].blk[BlkIx(p)]
                                THEN [v.blocks[b] EXCEPT !.slots[SlotIx(p)] = e]
                                ELSE v.blocks[b]
Replaced(v, w, d, p, e) ==
  SlotSet(v, w, d, p, e) /\ \A j \in Inodes : w.inodes[j].blk = v.inodes[j].blk

LEMMA OneSlot ==
  ASSUME NEW v \in Volume, NEW w, Pointers(v.imap, v.bmap, v.inodes),
         NEW d \in Inodes, NEW p \in Places, NEW e,
         v.inodes[d].blk[BlkIx(p)] # 0, Replaced(v, w, d, p, e)
  PROVE  /\ \A x \in Inodes, q \in Places : v.inodes[x].blk[BlkIx(q)] # 0 =>
              Slot(w, x, q) = IF x = d /\ q = p THEN e ELSE Slot(v, x, q)
         /\ \A x \in Inodes, k \in Index : x # d /\ v.inodes[x].blk[k] # 0 =>
              w.blocks[v.inodes[x].blk[k]] = v.blocks[v.inodes[x].blk[k]]
<1> DEFINE b == v.inodes[d].blk[BlkIx(p)]
<1>1. b \in Blks /\ BlkIx(p) \in Index /\ SlotIx(p) \in Slots BY PlacesArePairs, VolumeFacts
<1>2. v.blocks[b].slots \in [Slots -> Entry] /\ v.blocks[b] \in Block
  BY <1>1 DEF Volume, Block
<1>3. \A s \in Slots : w.blocks[b].slots[s] = IF s = SlotIx(p) THEN e ELSE v.blocks[b].slots[s]
  BY <1>1, <1>2 DEF Replaced, SlotSet, Block
<1>4. ASSUME NEW x \in Inodes, NEW q \in Places, v.inodes[x].blk[BlkIx(q)] # 0
      PROVE  Slot(w, x, q) = IF x = d /\ q = p THEN e ELSE Slot(v, x, q)
  <2> DEFINE c == v.inodes[x].blk[BlkIx(q)]
  <2>1. c \in Blks /\ BlkIx(q) \in Index /\ SlotIx(q) \in Slots BY <1>4, PlacesArePairs, VolumeFacts
  <2>2. Slot(v, x, q) = v.blocks[c].slots[SlotIx(q)] /\ Slot(w, x, q) = w.blocks[c].slots[SlotIx(q)]
    BY SlotAt DEF Replaced
  <2>3. CASE c = b
    <3>1. x = d /\ BlkIx(q) = BlkIx(p) BY <1>1, <1>4, <2>1, <2>3 DEF Pointers
    <3>2. q = p <=> SlotIx(q) = SlotIx(p) BY <3>1, PlacesArePairs
    <3> QED BY <1>3, <2>1, <2>2, <2>3, <3>1, <3>2
  <2>4. CASE c # b
    <3>1. ~(x = d /\ q = p) BY <2>4
    <3>2. w.blocks[c] = v.blocks[c] BY <2>1, <2>4 DEF Replaced, SlotSet
    <3> QED BY <2>2, <3>1, <3>2
  <2> QED BY <2>3, <2>4
<1>5. ASSUME NEW x \in Inodes, NEW k \in Index, x # d, v.inodes[x].blk[k] # 0
      PROVE  w.blocks[v.inodes[x].blk[k]] = v.blocks[v.inodes[x].blk[k]]
  <2>1. v.inodes[x].blk[k] \in Blks BY <1>5, VolumeFacts
  <2>2. v.inodes[x].blk[k] # b BY <1>1, <1>5 DEF Pointers
  <2> QED BY <2>1, <2>2 DEF Replaced, SlotSet
<1> QED BY <1>4, <1>5

\* What is not a directory keeps its content when a directory's slot changes.
LEMMA DirectoryChange ==
  ASSUME NEW v \in Volume, NEW w \in Volume, Contents(v), Pointers(v.imap, v.bmap, v.inodes),
         NEW d \in Alive(v), NEW p \in Places, NEW e, v.inodes[d].blk[BlkIx(p)] # 0,
         w.imap = v.imap, Replaced(v, w, d, p, e),
         \A j \in Inodes : /\ w.inodes[j].type = v.inodes[j].type
                           /\ j # d => w.inodes[j].size = v.inodes[j].size
  PROVE  Contents(w)
<1> SUFFICES ASSUME NEW j \in w.imap PROVE Content(w.inodes[j], w.blocks) BY DEF Contents
<1>1. Content(v.inodes[j], v.blocks) /\ j \in Inodes /\ d \in Inodes BY AliveInodes DEF Contents
<1>2. CASE j \in Alive(v) BY <1>1, <1>2, AliveInodes DEF Content
<1>3. CASE j \notin Alive(v)
  <2>1. j # d BY <1>3
  <2>2. 0 \in Index BY PlacesArePairs
  <2>3. v.inodes[j].blk[0] # 0 => w.blocks[v.inodes[j].blk[0]] = v.blocks[v.inodes[j].blk[0]]
    BY <1>1, <2>1, <2>2, OneSlot
  <2>4. Content(v.inodes[j], w.blocks) BY <1>1, <2>3, ContentSame
  <2>5. w.inodes[j].blk = v.inodes[j].blk /\ w.inodes[j].size = v.inodes[j].size
        /\ w.inodes[j].type = v.inodes[j].type
    BY <1>1, <2>1 DEF Replaced
  <2> QED BY <2>4, <2>5 DEF Content
<1> QED BY <1>2, <1>3

\* The entries of a volume in which a slot that was free now holds an entry.
LEMMA EntriesEnter ==
  ASSUME NEW v \in Volume, NEW w \in Volume, Good(v), Pointers(w.imap, w.bmap, w.inodes),
         NEW d \in Alive(v), NEW p \in Places, NEW n \in Names, NEW i \in Inodes,
         v.inodes[d].blk[BlkIx(p)] # 0, Slot(v, d, p).name = NoName,
         Alive(w) = Alive(v), Replaced(v, w, d, p, [name |-> n, inum |-> i])
  PROVE  /\ <<d, p>> \notin Entries(v) /\ Entries(w) = Entries(v) \cup {<<d, p>>}
         /\ NameOf(w)[<<d, p>>] = n /\ InumOf(w)[<<d, p>>] = i
         /\ \A x \in Entries(v) : NameOf(w)[x] = NameOf(v)[x] /\ InumOf(w)[x] = InumOf(v)[x]
<1> DEFINE e == [name |-> n, inum |-> i]
<1>1. Pointers(v.imap, v.bmap, v.inodes) /\ Prefixes(v) /\ Prefixes(w)
  BY PointersFirst DEF Good
<1>2. d \in Inodes /\ Alive(v) \subseteq Inodes BY AliveInodes
<1>3. n # NoName BY NamesAssumption DEF Names
<1>4. \A x \in Inodes, q \in Places : v.inodes[x].blk[BlkIx(q)] # 0 =>
        Slot(w, x, q) = IF x = d /\ q = p THEN e ELSE Slot(v, x, q)
  BY <1>1, <1>2, OneSlot
<1>5. \A x \in Alive(v) : \A q : <<x, q>> \in Entries(v) <=>
        q \in Places /\ v.inodes[x].blk[BlkIx(q)] # 0 /\ Slot(v, x, q).name # NoName
  BY <1>1, EntryIff
<1>6. \A x \in Alive(v) : \A q : <<x, q>> \in Entries(w) <=>
        q \in Places /\ v.inodes[x].blk[BlkIx(q)] # 0 /\ Slot(w, x, q).name # NoName
  <2>1. \A x \in Alive(v) : w.inodes[x].blk = v.inodes[x].blk BY <1>2 DEF Replaced
  <2>2. \A x \in Alive(w) : \A q : <<x, q>> \in Entries(w) <=>
          q \in Places /\ w.inodes[x].blk[BlkIx(q)] # 0 /\ Slot(w, x, q).name # NoName
    BY <1>1, EntryIff
  <2> QED BY <2>1, <2>2
<1>7. ASSUME NEW x \in Alive(v), NEW q
      PROVE  <<x, q>> \in Entries(w) <=> <<x, q>> \in Entries(v) \/ <<x, q>> = <<d, p>>
  <2>1. <<x, q>> = <<d, p>> <=> x = d /\ q = p OBVIOUS
  <2>2. x \in Inodes /\ e.name = n BY <1>2
  <2>3. CASE x = d /\ q = p
    <3>1. Slot(w, x, q) = e BY <1>4, <2>2, <2>3
    <3> QED BY <1>3, <1>6, <2>1, <2>2, <2>3, <3>1
  <2>4. CASE ~(x = d /\ q = p)
    <3>1. q \in Places /\ v.inodes[x].blk[BlkIx(q)] # 0 => Slot(w, x, q) = Slot(v, x, q)
      BY <1>4, <2>2, <2>4
    <3> QED BY <1>5, <1>6, <2>1, <2>4, <3>1
  <2> QED BY <2>3, <2>4
<1>8. ASSUME NEW x PROVE x \in Entries(w) <=> x \in Entries(v) \cup {<<d, p>>}
  <2>1. x \in Entries(w) => x = <<x[1], x[2]>> /\ x[1] \in Alive(v) BY EntryPairs
  <2>2. x \in Entries(v) => x = <<x[1], x[2]>> /\ x[1] \in Alive(v) BY EntryPairs
  <2> QED BY <1>7, <2>1, <2>2
<1>9. Entries(w) = Entries(v) \cup {<<d, p>>} BY <1>8
<1>10. <<d, p>> \notin Entries(v) BY <1>5
<1>11. Slot(w, d, p) = e BY <1>2, <1>4
<1>12. ASSUME NEW x \in Entries(v) PROVE Slot(w, x[1], x[2]) = Slot(v, x[1], x[2])
  <2>1. x = <<x[1], x[2]>> /\ x[1] \in Alive(v) /\ x[2] \in Places BY EntryPairs
  <2>2. v.inodes[x[1]].blk[BlkIx(x[2])] # 0 /\ ~(x[1] = d /\ x[2] = p) BY <1>5, <1>10, <2>1
  <2> QED BY <1>2, <1>4, <2>1, <2>2
<1> QED BY <1>9, <1>10, <1>11, <1>12 DEF NameOf, InumOf

\* A name that is free, and leads where a name of its kind may lead.
MayEnter(v, d, n, i) ==
  /\ \A x \in Entries(v) : x[1] = d => NameOf(v)[x] # n
  /\ (n = Dot => i = d)
  /\ (n = DotDot =>
        /\ i \in Alive(v) /\ (d = Root => i = Root)
        /\ d # Root => \E y \in Entries(v) :
                         y[1] = i /\ NameOf(v)[y] \in Leaf /\ InumOf(v)[y] = d)
  /\ (n \in Leaf /\ i \in Alive(v) =>
        i # Root /\ \A y \in Entries(v) : NameOf(v)[y] \in Leaf => InumOf(v)[y] # i)

\* One more for the inode i and for the directory d.
OneMore(v, w, d, i) == \A j \in Inodes :
  /\ w.inodes[j].type = v.inodes[j].type
  /\ w.inodes[j].nlink = IF j = i THEN LinkMore(v.inodes[j].nlink) ELSE v.inodes[j].nlink
  /\ w.inodes[j].size = IF j = d THEN v.inodes[j].size + 1 ELSE v.inodes[j].size

\* set_dir_entry, with the count of the inode and the size of the directory.
LEMMA EnterGood ==
  ASSUME NEW v \in Volume, NEW w \in Volume, Good(v),
         NEW d \in Alive(v), NEW p \in Places, NEW n \in Names, NEW i \in v.imap,
         v.inodes[d].blk[BlkIx(p)] # 0, Slot(v, d, p).name = NoName,
         MayEnter(v, d, n, i), OneMore(v, w, d, i),
         w.imap = v.imap, w.bmap = v.bmap, Replaced(v, w, d, p, [name |-> n, inum |-> i])
  PROVE  /\ Good(w) /\ Alive(w) = Alive(v)
         /\ <<d, p>> \notin Entries(v) /\ Entries(w) = Entries(v) \cup {<<d, p>>}
         /\ NameOf(w)[<<d, p>>] = n /\ InumOf(w)[<<d, p>>] = i
         /\ \A x \in Entries(v) : NameOf(w)[x] = NameOf(v)[x] /\ InumOf(w)[x] = InumOf(v)[x]
         /\ w.inodes[i].nlink = v.inodes[i].nlink + 1
<1> USE DEF MayEnter, OneMore
<1> DEFINE E == Entries(v)
           F == Entries(w)
           z == <<d, p>>
<1>1. /\ Pointers(v.imap, v.bmap, v.inodes) /\ Contents(v) /\ Prefixes(v)
      /\ Linked(v.imap, Alive(v), E, NameOf(v), InumOf(v))
      /\ Counted(v.imap, Alive(v), E, InumOf(v), v.inodes)
  BY PointersFirst DEF Good
<1>2. d \in Inodes /\ d \in v.imap /\ i \in Inodes /\ v.imap \subseteq Inodes
      /\ Alive(v) \subseteq Inodes BY AliveInodes
<1>3. Alive(w) = Alive(v) BY <1>2 DEF Alive, IsDir
<1>4. Pointers(w.imap, w.bmap, w.inodes) BY <1>1 DEF Replaced, Pointers
<1>5. /\ z \notin E /\ F = E \cup {z} /\ NameOf(w)[z] = n /\ InumOf(w)[z] = i
      /\ \A x \in E : NameOf(w)[x] = NameOf(v)[x] /\ InumOf(w)[x] = InumOf(v)[x]
  BY <1>2, <1>3, <1>4, EntriesEnter
<1>6. IsFiniteSet(F) /\ Cardinality(F) <= MaxNlink
  <2>1. \A x \in F : x = <<x[1], x[2]>> /\ x[1] \in Alive(v) /\ x[2] \in Places
    BY <1>3, EntryPairs
  <2>2. \A x \in E : v.inodes[x[1]].blk[BlkIx(x[2])] # 0
    <3> SUFFICES ASSUME NEW x \in E PROVE v.inodes[x[1]].blk[BlkIx(x[2])] # 0 OBVIOUS
    <3>1. x = <<x[1], x[2]>> /\ x[1] \in Alive(v) BY EntryPairs
    <3>2. <<x[1], x[2]>> \in E BY <3>1, Zenon
    <3> QED BY <1>1, <3>1, <3>2, EntryIff
  <2>3. \A x \in F : v.inodes[x[1]].blk[BlkIx(x[2])] # 0 BY <1>5, <2>2
  <2> HIDE DEF E, F, z
  <2> QED BY <1>1, <1>2, <2>1, <2>3, EntriesBound
<1>7. v.inodes[i].nlink + 1 <= MaxNlink /\ v.inodes[i].nlink \in Nat /\ MaxNlink \in Nat
  <2>1. IsFiniteSet(E) /\ IsFiniteSet(Into(E, InumOf(v), i)) BY EntriesFinite, FS_Subset DEF Into
  <2>2. v.inodes[i].nlink = Cardinality(Into(E, InumOf(v), i)) BY <1>1 DEF Counted, Into
  <2>3. Cardinality(Into(E, InumOf(v), i)) <= Cardinality(E) BY <2>1, FS_Subset DEF Into
  <2>4. Cardinality(F) = Cardinality(E) + 1
    <3> HIDE DEF E, F, z
    <3> QED BY <1>5, <2>1, FS_AddElement
  <2>5. Cardinality(E) \in Nat /\ Cardinality(Into(E, InumOf(v), i)) \in Nat
    BY <2>1, FS_CardinalityType
  <2>6. MaxNlink \in Nat BY SizesAssumption
  <2> HIDE DEF E, F, z
  <2> QED BY <1>6, <2>2, <2>3, <2>4, <2>5, <2>6
<1>8. w.inodes[i].nlink = v.inodes[i].nlink + 1 BY <1>2, <1>7 DEF LinkMore
<1>9. Counted(v.imap, Alive(v), F, InumOf(w), w.inodes)
  <2>1. IsFiniteSet(E) BY EntriesFinite
  <2>2. \A j \in v.imap : w.inodes[j].nlink =
          IF j = i THEN v.inodes[j].nlink + 1 ELSE v.inodes[j].nlink
    BY <1>2, <1>8
  <2>3. \A j \in Alive(v) : w.inodes[j].size =
          IF j = d THEN v.inodes[j].size + 1 ELSE v.inodes[j].size
    BY <1>2
  <2>4. z[1] = d OBVIOUS
  <2>5. CountsEnter(v.imap, Alive(v), E, InumOf(v), F, InumOf(w), v.inodes, w.inodes, z, i, d)
    <3> HIDE DEF E, F, z
    <3> QED BY <1>1, <1>5, <2>1, <2>2, <2>3, <2>4 DEF CountsEnter
  <2> HIDE DEF E, F, z
  <2> QED BY <2>5, CountedEnter
<1>10. Linked(v.imap, Alive(v), F, NameOf(w), InumOf(w))
  <2>1. z[1] = d OBVIOUS
  <2>2. \A x \in E : x[1] = d => NameOf(v)[x] # n OBVIOUS
  <2>3. n = DotDot =>
           /\ i \in Alive(v) /\ (d = Root => i = Root)
           /\ d # Root => \E y \in E : y[1] = i /\ NameOf(v)[y] \in Leaf /\ InumOf(v)[y] = d
    OBVIOUS
  <2>4. n \in Leaf /\ i \in Alive(v) =>
          i # Root /\ \A y \in E : NameOf(v)[y] \in Leaf => InumOf(v)[y] # i
    OBVIOUS
  <2>5. LinksEnter(v.imap, Alive(v), E, NameOf(v), InumOf(v), F, NameOf(w), InumOf(w), z, n, i, d)
    <3> HIDE DEF E, F, z
    <3> QED BY <1>1, <1>5, <2>1, <2>2, <2>3, <2>4 DEF LinksEnter
  <2> HIDE DEF E, F, z
  <2> QED BY <2>5, LinkedEnter
<1>11. Contents(w) BY <1>1, DirectoryChange
<1>12. Good(w) BY <1>3, <1>4, <1>9, <1>10, <1>11 DEF Good
<1> QED BY <1>3, <1>5, <1>8, <1>12

\* The entries of a volume in which an entry's slot is now free.
LEMMA EntriesLeave ==
  ASSUME NEW v \in Volume, NEW w \in Volume, Pointers(v.imap, v.bmap, v.inodes),
         NEW d \in Alive(v), NEW p \in Places, <<d, p>> \in Entries(v),
         Alive(w) = Alive(v), Replaced(v, w, d, p, FreeSlot)
  PROVE  /\ Entries(w) = Entries(v) \ {<<d, p>>}
         /\ \A x \in Entries(w) : NameOf(w)[x] = NameOf(v)[x] /\ InumOf(w)[x] = InumOf(v)[x]
<1>1. d \in Inodes /\ Alive(v) \subseteq Inodes /\ Prefixes(v) BY AliveInodes, PointersFirst
<1>2. Prefixes(w) BY <1>1 DEF Prefixes, Replaced
<1>3. \A x \in Alive(v) : \A q : <<x, q>> \in Entries(v) <=>
        q \in Places /\ v.inodes[x].blk[BlkIx(q)] # 0 /\ Slot(v, x, q).name # NoName
  BY <1>1, EntryIff
<1>4. \A x \in Alive(v) : \A q : <<x, q>> \in Entries(w) <=>
        q \in Places /\ v.inodes[x].blk[BlkIx(q)] # 0 /\ Slot(w, x, q).name # NoName
  <2>1. \A x \in Alive(v) : w.inodes[x].blk = v.inodes[x].blk BY <1>1 DEF Replaced
  <2>2. \A x \in Alive(w) : \A q : <<x, q>> \in Entries(w) <=>
          q \in Places /\ w.inodes[x].blk[BlkIx(q)] # 0 /\ Slot(w, x, q).name # NoName
    BY <1>2, EntryIff
  <2> QED BY <2>1, <2>2
<1>5. \A x \in Inodes, q \in Places : v.inodes[x].blk[BlkIx(q)] # 0 =>
        Slot(w, x, q) = IF x = d /\ q = p THEN FreeSlot ELSE Slot(v, x, q)
  <2>1. v.inodes[d].blk[BlkIx(p)] # 0 BY <1>3
  <2> QED BY <1>1, <2>1, OneSlot
<1>6. ASSUME NEW x \in Alive(v), NEW q
      PROVE  <<x, q>> \in Entries(w) <=> <<x, q>> \in Entries(v) /\ <<x, q>> # <<d, p>>
  <2>1. <<x, q>> = <<d, p>> <=> x = d /\ q = p OBVIOUS
  <2>2. x \in Inodes /\ FreeSlot.name = NoName BY <1>1 DEF FreeSlot
  <2>3. CASE x = d /\ q = p
    <3>1. v.inodes[x].blk[BlkIx(q)] # 0 => Slot(w, x, q) = FreeSlot BY <1>5, <2>2, <2>3
    <3> QED BY <1>4, <2>1, <2>2, <2>3, <3>1
  <2>4. CASE ~(x = d /\ q = p)
    <3>1. q \in Places /\ v.inodes[x].blk[BlkIx(q)] # 0 => Slot(w, x, q) = Slot(v, x, q)
      BY <1>5, <2>2, <2>4
    <3> QED BY <1>3, <1>4, <2>1, <2>4, <3>1
  <2> QED BY <2>3, <2>4
<1>7. ASSUME NEW x PROVE x \in Entries(w) <=> x \in Entries(v) \ {<<d, p>>}
  <2>1. x \in Entries(w) => x = <<x[1], x[2]>> /\ x[1] \in Alive(v) BY EntryPairs
  <2>2. x \in Entries(v) => x = <<x[1], x[2]>> /\ x[1] \in Alive(v) BY EntryPairs
  <2> QED BY <1>6, <2>1, <2>2
<1>8. Entries(w) = Entries(v) \ {<<d, p>>} BY <1>7
<1>9. ASSUME NEW x \in Entries(w) PROVE Slot(w, x[1], x[2]) = Slot(v, x[1], x[2])
  <2>1. x = <<x[1], x[2]>> /\ x[1] \in Alive(v) /\ x[2] \in Places BY EntryPairs
  <2>2. <<x[1], x[2]>> \in Entries(w) BY <2>1, Zenon
  <2>3. v.inodes[x[1]].blk[BlkIx(x[2])] # 0 /\ ~(x[1] = d /\ x[2] = p) BY <1>4, <1>8, <2>1, <2>2
  <2> QED BY <1>1, <1>5, <2>1, <2>3
<1> QED BY <1>8, <1>9 DEF NameOf, InumOf

\* The counts that an entry is part of are not 0.
LEMMA CountsPositive ==
  ASSUME NEW v \in Volume, Good(v), NEW x \in Entries(v)
  PROVE  /\ x[1] \in Alive(v) /\ InumOf(v)[x] \in v.imap
         /\ v.inodes[x[1]].size \in Nat /\ v.inodes[x[1]].size # 0
         /\ v.inodes[InumOf(v)[x]].nlink \in Nat /\ v.inodes[InumOf(v)[x]].nlink # 0
<1> DEFINE E == Entries(v)
           i == InumOf(v)[x]
           I == Into(E, InumOf(v), i)
           W == Within(E, x[1])
<1>1. x[1] \in Alive(v) /\ i \in v.imap BY DEF Good, Linked
<1>2. IsFiniteSet(I) /\ IsFiniteSet(W) BY EntriesFinite, FS_Subset DEF Into, Within
<1>3. x \in I /\ x \in W BY DEF Into, Within
<1>4. v.inodes[i].nlink = Cardinality(I) /\ v.inodes[x[1]].size = Cardinality(W)
  BY <1>1 DEF Good, Counted, Into, Within
<1> HIDE DEF I, W
<1>5. Cardinality(I) \in Nat /\ Cardinality(W) \in Nat BY <1>2, FS_CardinalityType
<1>6. Cardinality(I) # 0 /\ Cardinality(W) # 0
  <2>1. I # {} /\ W # {} BY <1>3
  <2> QED BY <1>2, <2>1, FS_EmptySet
<1> QED BY <1>1, <1>4, <1>5, <1>6

\* A directory's size is far from where it wraps.
LEMMA SizeSteps ==
  ASSUME NEW v \in Volume, Good(v), NEW d \in Alive(v)
  PROVE  LET x == v.inodes[d].size IN
         SizeMore(x) = x + 1 /\ SizeLessOr0(x) = IF x = 0 THEN 0 ELSE x - 1
<1> DEFINE W == Within(Entries(v), d)
           half == MaxDirSize \div 2
           all == NBlocks * DirentsPerBlk
<1>1. Pointers(v.imap, v.bmap, v.inodes) /\ Prefixes(v) /\ v.inodes[d].size = Cardinality(W)
  BY PointersFirst DEF Good, Counted, Within
<1>2. ASSUME NEW x \in W
      PROVE  /\ x = <<x[1], x[2]>> /\ x[1] \in Inodes /\ x[2] \in Places
             /\ v.inodes[x[1]].blk[BlkIx(x[2])] # 0
  <2>1. x \in Entries(v) /\ x = <<x[1], x[2]>> /\ x[1] \in Alive(v) /\ x[2] \in Places
    BY EntryPairs DEF Within
  <2>2. <<x[1], x[2]>> \in Entries(v) BY <2>1, Zenon
  <2> QED BY <1>1, <2>1, <2>2, EntryIff, AliveInodes
<1> HIDE DEF W
<1>3. IsFiniteSet(W) /\ Cardinality(W) <= all BY <1>1, <1>2, EntriesBound
<1>4. Cardinality(W) \in Nat BY <1>3, FS_CardinalityType
<1>5. all \in Nat /\ all > 0
  <2>1. NBlocks \in Nat /\ NBlocks > 0 /\ DirentsPerBlk \in Nat /\ DirentsPerBlk > 0
    BY SizesAssumption
  <2>2. NBlocks * DirentsPerBlk \in Nat /\ NBlocks * DirentsPerBlk > 0 BY <2>1
  <2> QED BY <2>2
<1> HIDE DEF all
<1>6. MaxDirSize \in Nat /\ all <= half BY SizesAssumption, CountsAssumption DEF all
<1>7. half \in Nat /\ half < MaxDirSize
  <2>1. half \in Nat /\ 2 * half <= MaxDirSize BY <1>6
  <2> QED BY <1>5, <1>6, <2>1
<1> HIDE DEF half
<1>8. Cardinality(W) <= half /\ Cardinality(W) # MaxDirSize BY <1>3, <1>4, <1>5, <1>6, <1>7
<1>9. ~(Cardinality(W) - 1 > half) BY <1>4, <1>7, <1>8
<1> QED BY <1>1, <1>4, <1>8, <1>9 DEF SizeMore, SizeLessOr0, half

\* An entry of what is not a directory goes, with the count of its inode.
LEMMA LeaveGood ==
  ASSUME NEW v \in Volume, NEW w \in Volume, Good(v),
         NEW d \in Alive(v), NEW p \in Places, <<d, p>> \in Entries(v),
         NEW i \in v.imap, i = InumOf(v)[<<d, p>>], i \notin Alive(v),
         w.imap = v.imap, w.bmap = v.bmap, Replaced(v, w, d, p, FreeSlot),
         \A j \in Inodes :
           /\ w.inodes[j].type = v.inodes[j].type
           /\ w.inodes[j].nlink = IF j = i THEN LinkLess(v.inodes[j].nlink) ELSE v.inodes[j].nlink
           /\ w.inodes[j].size = IF j = d THEN (IF v.inodes[j].size = 0 THEN 0 ELSE v.inodes[j].size - 1)
                                 ELSE v.inodes[j].size
  PROVE  /\ Good(w) /\ Alive(w) = Alive(v) /\ Entries(w) = Entries(v) \ {<<d, p>>}
         /\ \A x \in Entries(w) : NameOf(w)[x] = NameOf(v)[x] /\ InumOf(w)[x] = InumOf(v)[x]
         /\ w.inodes[i].nlink = v.inodes[i].nlink - 1
<1> DEFINE E == Entries(v)
           F == Entries(w)
           z == <<d, p>>
<1>1. /\ Pointers(v.imap, v.bmap, v.inodes) /\ Contents(v)
      /\ Linked(v.imap, Alive(v), E, NameOf(v), InumOf(v))
      /\ Counted(v.imap, Alive(v), E, InumOf(v), v.inodes)
  BY DEF Good
<1>2. d \in Inodes /\ d \in v.imap /\ i \in Inodes /\ v.imap \subseteq Inodes
      /\ Alive(v) \subseteq Inodes BY AliveInodes
<1>3. Alive(w) = Alive(v) BY <1>2 DEF Alive, IsDir
<1>4. Pointers(w.imap, w.bmap, w.inodes) BY <1>1 DEF Replaced, Pointers
<1>5. /\ z \in E /\ F = E \ {z} /\ InumOf(v)[z] = i /\ z[1] = d
      /\ \A x \in F : NameOf(w)[x] = NameOf(v)[x] /\ InumOf(w)[x] = InumOf(v)[x]
  BY <1>1, <1>3, EntriesLeave
<1>6. /\ v.inodes[d].size \in Nat /\ v.inodes[d].size # 0
      /\ v.inodes[i].nlink \in Nat /\ v.inodes[i].nlink # 0
  <2> HIDE DEF E, F, z
  <2> QED BY <1>5, CountsPositive DEF E
<1>7. w.inodes[i].nlink = v.inodes[i].nlink - 1 BY <1>2, <1>6 DEF LinkLess
<1>8. \A j \in v.imap : w.inodes[j].nlink =
        IF j = i THEN v.inodes[j].nlink - 1 ELSE v.inodes[j].nlink
  BY <1>2, <1>7
<1>9. \A j \in Alive(v) : w.inodes[j].size =
        IF j = d THEN v.inodes[j].size - 1 ELSE v.inodes[j].size
  BY <1>2, <1>6
<1>10. IsFiniteSet(E) BY EntriesFinite
<1>11. Counted(v.imap, Alive(v), F, InumOf(w), w.inodes)
  <2>1. CountsLeave(v.imap, Alive(v), E, InumOf(v), F, InumOf(w), v.inodes, w.inodes, z, i, d)
    <3> HIDE DEF E, F, z
    <3> QED BY <1>1, <1>5, <1>8, <1>9, <1>10 DEF CountsLeave
  <2> HIDE DEF E, F, z
  <2> QED BY <2>1, CountedLeave
<1>12. Linked(v.imap, Alive(v), F, NameOf(w), InumOf(w))
  <2>1. LinksLeave(v.imap, Alive(v), E, NameOf(v), InumOf(v), F, NameOf(w), InumOf(w), z)
    <3> HIDE DEF E, F, z
    <3> QED BY <1>1, <1>5 DEF LinksLeave
  <2> HIDE DEF E, F, z
  <2> QED BY <2>1, LinkedLeave
<1>13. Contents(w)
  <2>1. v.inodes[d].blk[BlkIx(p)] # 0 BY <1>1, PointersFirst, EntryIff
  <2> QED BY <1>1, <2>1, DirectoryChange
<1>14. Good(w) BY <1>3, <1>4, <1>11, <1>12, <1>13 DEF Good
<1> QED BY <1>3, <1>5, <1>7, <1>14

\* A directory that holds . and .. only goes, with its entry and its blocks.
LEMMA EntriesRmdir ==
  ASSUME NEW v \in Volume, NEW w \in Volume, Pointers(v.imap, v.bmap, v.inodes), Prefixes(w),
         NEW d \in Alive(v), NEW p \in Places, <<d, p>> \in Entries(v), NEW i, i # d,
         Alive(w) = Alive(v) \ {i},
         \A j \in Inodes : j # i => w.inodes[j].blk = v.inodes[j].blk,
         SlotSet(v, w, d, p, FreeSlot)
  PROVE  /\ Entries(w) = {x \in Entries(v) : x # <<d, p>> /\ x[1] # i}
         /\ \A x \in Entries(w) : NameOf(w)[x] = NameOf(v)[x] /\ InumOf(w)[x] = InumOf(v)[x]
<1> DEFINE u == [v EXCEPT !.blocks = w.blocks]
<1>1. /\ u \in Volume /\ u.imap = v.imap /\ u.inodes = v.inodes /\ u.blocks = w.blocks
  BY DEF Volume
<1> HIDE DEF u
<1>2. Alive(u) = Alive(v) BY <1>1 DEF Alive, IsDir
<1>3. Replaced(v, u, d, p, FreeSlot) BY <1>1 DEF Replaced, SlotSet
<1>4. /\ Entries(u) = Entries(v) \ {<<d, p>>}
      /\ \A x \in Entries(u) : NameOf(u)[x] = NameOf(v)[x] /\ InumOf(u)[x] = InumOf(v)[x]
  BY <1>1, <1>2, <1>3, EntriesLeave
<1>5. Prefixes(u) BY <1>1, PointersFirst DEF Prefixes
<1>6. ASSUME NEW x \in Alive(w), NEW q
      PROVE  /\ <<x, q>> \in Entries(w) <=> <<x, q>> \in Entries(u)
             /\ Slot(w, x, q) = Slot(u, x, q)
  <2>1. x \in Alive(u) /\ x \in Inodes /\ x # i BY <1>2, AliveInodes
  <2>2. w.inodes[x].blk = u.inodes[x].blk BY <1>1, <2>1
  <2>3. Slot(w, x, q) = Slot(u, x, q) BY <1>1, <2>2, SlotAt
  <2>4. <<x, q>> \in Entries(u) <=> q \in Places /\ u.inodes[x].blk[BlkIx(q)] # 0
                                    /\ Slot(u, x, q).name # NoName
    BY <1>1, <1>5, <2>1, EntryIff
  <2>5. <<x, q>> \in Entries(w) <=> q \in Places /\ w.inodes[x].blk[BlkIx(q)] # 0
                                    /\ Slot(w, x, q).name # NoName
    BY EntryIff
  <2> QED BY <2>2, <2>3, <2>4, <2>5
<1>7. ASSUME NEW x PROVE x \in Entries(w) <=> x \in Entries(u) /\ x[1] # i
  <2>1. x \in Entries(w) => x = <<x[1], x[2]>> /\ x[1] \in Alive(w) /\ x[1] # i BY EntryPairs
  <2>2. x \in Entries(u) => x = <<x[1], x[2]>> /\ x[1] \in Alive(v) BY <1>2, EntryPairs
  <2> QED BY <1>6, <2>1, <2>2
<1>8. Entries(w) = {x \in Entries(v) : x # <<d, p>> /\ x[1] # i} BY <1>4, <1>7
<1>9. \A x \in Entries(w) : Slot(w, x[1], x[2]) = Slot(u, x[1], x[2])
  BY <1>6, EntryPairs
<1>10. \A x \in Entries(w) : NameOf(w)[x] = NameOf(u)[x] /\ InumOf(w)[x] = InumOf(u)[x]
  BY <1>7, <1>9 DEF NameOf, InumOf
<1> QED BY <1>4, <1>7, <1>8, <1>10

\* Of a directory whose size is 2 and that has a . and a .., these are all.
LEMMA OnlyDots ==
  ASSUME NEW v \in Volume, Good(v), NEW i \in Alive(v), v.inodes[i].size = 2,
         NEW x \in Entries(v), x[1] = i, NameOf(v)[x] = Dot,
         NEW y \in Entries(v), y[1] = i, NameOf(v)[y] = DotDot
  PROVE  x # y /\ \A z \in Entries(v) : z[1] = i => z = x \/ z = y
<1> DEFINE W == Within(Entries(v), i)
<1>1. x # y BY NamesAssumption
<1>2. IsFiniteSet(W) BY EntriesFinite, FS_Subset DEF Within
<1>3. Cardinality(W) = 2 BY DEF Good, Counted, Within
<1>4. x \in W /\ y \in W /\ \A z \in Entries(v) : z[1] = i => z \in W BY DEF Within
<1> HIDE DEF W
<1>5. IsFiniteSet(W \ {x}) /\ Cardinality(W \ {x}) = 1 BY <1>2, <1>3, <1>4, FS_RemoveElement
<1>6. IsFiniteSet((W \ {x}) \ {y}) /\ Cardinality((W \ {x}) \ {y}) = 0
  <2>1. y \in W \ {x} BY <1>1, <1>4
  <2> DEFINE V == W \ {x}
  <2>2. y \in V /\ IsFiniteSet(V) /\ Cardinality(V) = 1 BY <1>5, <2>1
  <2> HIDE DEF V
  <2>3. IsFiniteSet(V \ {y}) /\ Cardinality(V \ {y}) = 0 BY <2>2, FS_RemoveElement
  <2> QED BY <2>3 DEF V
<1>7. (W \ {x}) \ {y} = {} BY <1>6, FS_EmptySet
<1> QED BY <1>1, <1>4, <1>7

LEMMA RmdirGood ==
  ASSUME NEW v \in Volume, NEW w \in Volume, Good(v),
         NEW d \in Alive(v), NEW p \in Places, <<d, p>> \in Entries(v),
         NameOf(v)[<<d, p>>] \in Leaf,
         NEW i \in Alive(v), i = InumOf(v)[<<d, p>>], v.inodes[i].size = 2,
         NEW x \in Entries(v), x[1] = i, NameOf(v)[x] = Dot,
         NEW y \in Entries(v), y[1] = i, NameOf(v)[y] = DotDot,
         w.imap = v.imap \ {i}, w.bmap = v.bmap \ {v.inodes[i].blk[k] : k \in Index},
         \A k \in Index : w.inodes[i].blk[k] = 0,
         \A j \in Inodes : j # i =>
           /\ w.inodes[j].blk = v.inodes[j].blk /\ w.inodes[j].type = v.inodes[j].type
           /\ w.inodes[j].nlink = IF j = d THEN LinkLess(v.inodes[j].nlink) ELSE v.inodes[j].nlink
           /\ w.inodes[j].size = IF j = d THEN (IF v.inodes[j].size = 0 THEN 0 ELSE v.inodes[j].size - 1)
                                 ELSE v.inodes[j].size,
         SlotSet(v, w, d, p, FreeSlot)
  PROVE  /\ Good(w) /\ Alive(w) = Alive(v) \ {i} /\ i # d
         /\ Entries(w) = {z \in Entries(v) : z # <<d, p>> /\ z[1] # i}
         /\ \A z \in Entries(w) : NameOf(w)[z] = NameOf(v)[z] /\ InumOf(w)[z] = InumOf(v)[z]
<1> DEFINE E == Entries(v)
           F == {z \in E : z # <<d, p>> /\ z[1] # i}
           e == <<d, p>>
<1>1. /\ Pointers(v.imap, v.bmap, v.inodes) /\ Contents(v)
      /\ Linked(v.imap, Alive(v), E, NameOf(v), InumOf(v))
      /\ Counted(v.imap, Alive(v), E, InumOf(v), v.inodes)
  BY DEF Good
<1>2. d \in Inodes /\ d \in v.imap /\ i \in Inodes /\ i \in v.imap /\ v.imap \subseteq Inodes
      /\ Alive(v) \subseteq Inodes
  BY AliveInodes
<1>3. x # y /\ \A z \in E : z[1] = i => z = x \/ z = y BY OnlyDots
<1>4. e \in E /\ e[1] = d /\ InumOf(v)[e] = i OBVIOUS
<1>5. i # d /\ InumOf(v)[y] = d /\ InumOf(v)[x] = i
  <2>1. \E c \in E : c[1] = InumOf(v)[y] /\ NameOf(v)[c] \in Leaf /\ InumOf(v)[c] = i
    <3>1. i # Root BY <1>1 DEF Linked
    <3> QED BY <1>1, <3>1 DEF Linked
  <2>2. \A c \in E : NameOf(v)[c] \in Leaf /\ InumOf(v)[c] = i => c = e
    BY <1>1 DEF Linked
  <2>3. InumOf(v)[y] = d BY <1>4, <2>1, <2>2
  <2>4. InumOf(v)[x] = i BY <1>1 DEF Linked
  <2>5. i # d
    <3>1. Dot \notin Leaf /\ DotDot \notin Leaf BY NamesAssumption
    <3> QED BY <1>3, <1>4, <3>1
  <2> QED BY <2>3, <2>4, <2>5
<1>6. Pointers(w.imap, w.bmap, w.inodes)
  <2>1. \A j \in Inodes, k \in Index :
          w.inodes[j].blk[k] = IF j = i THEN 0 ELSE v.inodes[j].blk[k]
    OBVIOUS
  <2>2. w.bmap = v.bmap \ {v.inodes[i].blk[k] : k \in Index} OBVIOUS
  <2>3. Pointers(v.imap \ {i}, w.bmap, w.inodes) BY <1>1, <1>2, <2>1, <2>2, PointersFreed
  <2> QED BY <2>3
<1>7. Alive(w) = Alive(v) \ {i} BY <1>2 DEF Alive, IsDir
<1>8. /\ Entries(w) = F
      /\ \A z \in Entries(w) : NameOf(w)[z] = NameOf(v)[z] /\ InumOf(w)[z] = InumOf(v)[z]
  <2>1. Prefixes(w) BY <1>6, PointersFirst
  <2> QED BY <1>1, <1>5, <1>7, <2>1, EntriesRmdir
<1>9. \A j \in v.imap \ {i} : w.inodes[j].nlink =
        IF j = d THEN v.inodes[j].nlink - 1 ELSE v.inodes[j].nlink
  <2>1. v.inodes[d].nlink \in Nat /\ v.inodes[d].nlink # 0 BY <1>5, CountsPositive
  <2> QED BY <1>2, <2>1 DEF LinkLess
<1>10. \A j \in Alive(v) \ {i} : w.inodes[j].size =
         IF j = d THEN v.inodes[j].size - 1 ELSE v.inodes[j].size
  <2>1. v.inodes[d].size \in Nat /\ v.inodes[d].size # 0 BY <1>4, CountsPositive
  <2> QED BY <1>2, <2>1
<1>11. Counted(w.imap, Alive(w), F, InumOf(w), w.inodes)
  <2>1. IsFiniteSet(E) BY EntriesFinite
  <2>2. CountsRmdir(v.imap, Alive(v), E, InumOf(v), F, InumOf(w), v.inodes, w.inodes, e, y, i, d)
    <3>1. \A z \in F : InumOf(w)[z] = InumOf(v)[z] BY <1>8
    <3>2. \A z \in E : z[1] = i /\ z # y => InumOf(v)[z] = i BY <1>3, <1>5
    <3>3. F = {z \in E : z # e /\ z[1] # i} OBVIOUS
    <3> HIDE DEF E, F, e
    <3> QED BY <1>1, <1>4, <1>5, <1>9, <1>10, <2>1, <3>1, <3>2, <3>3 DEF CountsRmdir, E
  <2> HIDE DEF E, F, e
  <2> QED BY <1>7, <2>2, CountedRmdir
<1>12. Linked(w.imap, Alive(w), F, NameOf(w), InumOf(w))
  <2>1. LinksRmdir(v.imap, Alive(v), E, NameOf(v), InumOf(v), F, NameOf(w), InumOf(w), e, i)
    <3>1. \A z \in F : NameOf(w)[z] = NameOf(v)[z] /\ InumOf(w)[z] = InumOf(v)[z] BY <1>8
    <3>2. \A z \in E : z[1] = i => NameOf(v)[z] \in {Dot, DotDot} BY <1>3
    <3>3. F = {z \in E : z # e /\ z[1] # i} /\ NameOf(v)[e] \in Leaf OBVIOUS
    <3> HIDE DEF E, F, e
    <3> QED BY <1>1, <1>4, <3>1, <3>2, <3>3 DEF LinksRmdir
  <2> HIDE DEF E, F, e
  <2> QED BY <1>7, <2>1, LinkedRmdir
<1>13. Contents(w)
  <2> DEFINE u == [v EXCEPT !.blocks = w.blocks]
  <2>1. u \in Volume /\ u.imap = v.imap /\ u.inodes = v.inodes /\ u.blocks = w.blocks
    BY DEF Volume
  <2> HIDE DEF u
  <2>2. Replaced(v, u, d, p, FreeSlot) BY <2>1 DEF Replaced, SlotSet
  <2>3. v.inodes[d].blk[BlkIx(p)] # 0 BY <1>1, PointersFirst, EntryIff
  <2>4. Contents(u) BY <1>1, <2>1, <2>2, <2>3, DirectoryChange
  <2> SUFFICES ASSUME NEW j \in w.imap PROVE Content(w.inodes[j], w.blocks) BY DEF Contents
  <2>5. j \in v.imap /\ j \in Inodes /\ j # i BY <1>2
  <2>6. Content(v.inodes[j], w.blocks) BY <2>1, <2>4, <2>5 DEF Contents
  <2>7. CASE j \in Alive(v) BY <2>5, <2>6, <2>7, AliveInodes DEF Content
  <2>8. CASE j \notin Alive(v)
    <3>1. j # d BY <2>8
    <3> QED BY <2>5, <2>6, <3>1 DEF Content
  <2> QED BY <2>7, <2>8
<1>14. Good(w) BY <1>6, <1>8, <1>11, <1>12, <1>13 DEF Good
<1> QED BY <1>5, <1>7, <1>8, <1>14

-----------------------------------------------------------------------------
(* Metadata, and blocks for a file or a directory. *)

Clean(v) == Good(v) /\ Marked(v) /\ Behind(v)

\* What flush_metadata does not touch.
Alike(v, w) == w.imap = v.imap /\ w.bmap = v.bmap /\ w.inodes = v.inodes /\ w.blocks = v.blocks
SameNames(v, w) ==
  Entries(w) = Entries(v) /\ NameOf(w) = NameOf(v) /\ InumOf(w) = InumOf(v)

\* What is not a directory, of the inodes S, reads as it did.
SameBytes(v, w, S) == \A i \in S : v.inodes[i].type # "dir" =>
  /\ w.inodes[i].type # "dir" /\ w.inodes[i].size = v.inodes[i].size
  /\ v.inodes[i].size # 0 => w.blocks[w.inodes[i].blk[0]] = v.blocks[v.inodes[i].blk[0]]

Others(v, i) == v.imap \ {i}

LEMMA BytesRead ==
  ASSUME NEW v, NEW w, NEW S, SameBytes(v, w, S), NEW i \in S, ~IsDir(v, i)
  PROVE  Read(w, i) = Read(v, i)
BY DEF SameBytes, Read, IsDir

LEMMA BytesThen ==
  ASSUME NEW v, NEW u, NEW w, NEW S, NEW R, S \subseteq R, SameBytes(v, u, S), SameBytes(u, w, R)
  PROVE  SameBytes(v, w, S)
BY DEF SameBytes

LEMMA BytesStay ==
  ASSUME NEW v, NEW w, NEW S, w.blocks = v.blocks,
         \A i \in S : v.inodes[i].type # "dir" => w.inodes[i] = v.inodes[i]
  PROVE  SameBytes(v, w, S)
BY DEF SameBytes

\* One slot of a directory is another.
LEMMA SlotBytes ==
  ASSUME NEW v \in Volume, Good(v), NEW w, NEW d \in Alive(v), NEW p \in Places, NEW e,
         v.inodes[d].blk[BlkIx(p)] # 0, Replaced(v, w, d, p, e),
         \A j \in v.imap : j # d => /\ w.inodes[j].type = v.inodes[j].type
                                    /\ w.inodes[j].size = v.inodes[j].size
  PROVE  SameBytes(v, w, v.imap)
<1>1. Pointers(v.imap, v.bmap, v.inodes) /\ Contents(v) /\ 0 \in Index BY VolumeFacts DEF Good
<1>2. d \in Inodes /\ v.inodes[d].type = "dir" BY AliveInodes
<1>3. \A x \in Inodes, k \in Index : x # d /\ v.inodes[x].blk[k] # 0 =>
        w.blocks[v.inodes[x].blk[k]] = v.blocks[v.inodes[x].blk[k]]
  BY <1>1, <1>2, OneSlot
<1> SUFFICES ASSUME NEW j \in v.imap, v.inodes[j].type # "dir"
             PROVE  /\ w.inodes[j].type # "dir" /\ w.inodes[j].size = v.inodes[j].size
                    /\ v.inodes[j].size # 0 =>
                         w.blocks[w.inodes[j].blk[0]] = v.blocks[v.inodes[j].blk[0]]
  BY DEF SameBytes
<1>4. j \in Inodes /\ j # d BY <1>2, VolumeFacts
<1>5. v.inodes[j].size # 0 => v.inodes[j].blk[0] # 0 BY <1>1 DEF Contents, Content
<1>6. w.inodes[j].blk = v.inodes[j].blk BY <1>4 DEF Replaced
<1> QED BY <1>1, <1>3, <1>4, <1>5, <1>6

LEMMA InodeBlkNat == \A i \in Inodes : InodeBlk(i) \in Nat
<1>1. InodesPerBlk \in Nat /\ InodesPerBlk > 0 BY SizesAssumption
<1> QED BY <1>1 DEF InodeBlk, Inodes

LEMMA AlikeGood ==
  ASSUME NEW v, NEW w \in Volume, Good(v), Alike(v, w)
  PROVE  Good(w) /\ SameNames(v, w) /\ Alive(w) = Alive(v)
<1>1. \A i : IsDir(w, i) <=> IsDir(v, i) BY DEF Alike, IsDir
<1>2. Alive(w) = Alive(v) BY <1>1 DEF Alike, Alive
<1>3. \A d, p : Slot(w, d, p) = Slot(v, d, p) BY SlotAt DEF Alike
<1>4. \A d : Positions(w, d) = Positions(v, d) BY DEF Alike, Positions, DirBlks
<1>5. \A d : Used(w, d) = Used(v, d) BY <1>3, <1>4 DEF Used
<1>6. Entries(w) = Entries(v) BY <1>2, <1>5 DEF Entries
<1>7. NameOf(w) = NameOf(v) /\ InumOf(w) = InumOf(v) BY <1>3, <1>6 DEF NameOf, InumOf
<1>8. Contents(w) BY DEF Alike, Good, Contents
<1> QED BY <1>2, <1>6, <1>7, <1>8 DEF Good, Alike, SameNames

\* A change that marks what it changes.
LEMMA MarkedStep ==
  ASSUME NEW v, NEW w, Marked(v), w.meta = v.meta, v.dirty \subseteq w.dirty,
         w.imap # v.imap => 0 \in w.dirty, w.bmap # v.bmap => 1 \in w.dirty,
         \A i \in Inodes : w.inodes[i] # v.inodes[i] => InodeBlk(i) \in w.dirty
  PROVE  Marked(w)
BY DEF Marked

\* After flush_metadata the image has everything.
LEMMA FlushClean ==
  ASSUME NEW v \in Volume, Good(v), Marked(v), NEW w, w = FlushMetadata(v)
  PROVE  /\ w \in Volume /\ Clean(w) /\ Alike(v, w) /\ SameNames(v, w) /\ Alive(w) = Alive(v)
<1>1. /\ w.imap = v.imap /\ w.bmap = v.bmap /\ w.inodes = v.inodes /\ w.blocks = v.blocks
      /\ w.dirty = {}
      /\ w.meta = [imap |-> IF 0 \in v.dirty THEN v.imap ELSE v.meta.imap,
                   bmap |-> IF 1 \in v.dirty THEN v.bmap ELSE v.meta.bmap,
                   inodes |-> [i \in Inodes |-> IF InodeBlk(i) \in v.dirty THEN v.inodes[i]
                                                ELSE v.meta.inodes[i]]]
      /\ w = [imap |-> w.imap, bmap |-> w.bmap, inodes |-> w.inodes, dirty |-> w.dirty,
              meta |-> w.meta, blocks |-> w.blocks]
  BY DEF FlushMetadata, Volume
<1>2. v.inodes \in [Inodes -> Inode] /\ v.imap \in SUBSET Inodes /\ v.bmap \in SUBSET Blks
      /\ v.blocks \in [Blks -> Block]
  BY DEF Volume
<1>3. w.meta.imap = v.imap /\ w.meta.bmap = v.bmap BY <1>1 DEF Marked
<1>4. w.meta.inodes = v.inodes
  <2>1. \A i \in Inodes : w.meta.inodes[i] = v.inodes[i] BY <1>1 DEF Marked
  <2>2. w.meta.inodes = [i \in Inodes |-> w.meta.inodes[i]] BY <1>1
  <2> QED BY <1>2, <2>1, <2>2
<1>5. w.meta = [imap |-> v.imap, bmap |-> v.bmap, inodes |-> v.inodes]
  BY <1>1, <1>3, <1>4
<1>6. w.meta \in Metadata BY <1>2, <1>5 DEF Metadata, Inode, Index, Blks
<1>7. w \in Volume BY <1>1, <1>2, <1>6 DEF Volume
<1>8. Alike(v, w) BY <1>1 DEF Alike
<1>9. Good(w) /\ SameNames(v, w) /\ Alive(w) = Alive(v) BY <1>7, <1>8, AlikeGood
<1>10. Marked(w) BY <1>1, <1>3, <1>4 DEF Marked
<1>11. Behind(w) BY <1>1, <1>3, <1>4, <1>9 DEF Behind, Good
<1> QED BY <1>7, <1>8, <1>9, <1>10, <1>11 DEF Clean

\* What a block more for the inode i, or none, leaves as it was.
Grown(v, w, i) ==
  /\ w.imap = v.imap /\ SameNames(v, w) /\ Alive(w) = Alive(v)
  /\ \A j \in Inodes :
       /\ w.inodes[j].type = v.inodes[j].type /\ w.inodes[j].nlink = v.inodes[j].nlink
       /\ w.inodes[j].size = v.inodes[j].size
       /\ j # i => w.inodes[j] = v.inodes[j]
  /\ \A j \in Inodes, l \in Index : v.inodes[j].blk[l] # 0 =>
       /\ w.inodes[j].blk[l] = v.inodes[j].blk[l]
       /\ w.blocks[v.inodes[j].blk[l]] = v.blocks[v.inodes[j].blk[l]]

LEMMA GrownBytes ==
  ASSUME NEW v \in Volume, Good(v), NEW w, NEW i, Grown(v, w, i)
  PROVE  SameBytes(v, w, v.imap)
<1> SUFFICES ASSUME NEW j \in v.imap, v.inodes[j].type # "dir"
             PROVE  /\ w.inodes[j].type # "dir" /\ w.inodes[j].size = v.inodes[j].size
                    /\ v.inodes[j].size # 0 =>
                         w.blocks[w.inodes[j].blk[0]] = v.blocks[v.inodes[j].blk[0]]
  BY DEF SameBytes
<1>1. j \in Inodes /\ 0 \in Index BY VolumeFacts
<1>2. v.inodes[j].size # 0 => v.inodes[j].blk[0] # 0 BY DEF Good, Contents, Content
<1> QED BY <1>1, <1>2 DEF Grown

\* get_file_blkno gives the block asked for, or changes nothing.
LEMMA WithBlkGood ==
  ASSUME NEW v \in Volume, Good(v), Marked(v), NEW i \in v.imap, NEW k \in Nat,
         i \notin Alive(v) => k = 0,
         \A l \in Index : l < k => v.inodes[i].blk[l] # 0,
         NEW r, r = WithBlk(v, i, k), NEW w, w = r.vol
  PROVE  /\ w \in Volume /\ Good(w) /\ Marked(w) /\ Grown(v, w, i)
         /\ Behind(v) /\ i \in Alive(v) => Behind(w)
         /\ r.ok \in BOOLEAN /\ (~r.ok => w = v)
         /\ r.ok => /\ k \in Index /\ w.inodes[i].blk[k] # 0
                    /\ v.inodes[i].blk[k] = 0 => w.blocks[w.inodes[i].blk[k]] = Zeros
<1>1. MaxBlks \in Nat /\ NBlocks \in Nat /\ (k < MaxBlks <=> k \in Index)
  BY SizesAssumption DEF Index
<1>2. i \in Inodes BY VolumeFacts
<1>3. CASE w = v
  <2>1. Grown(v, w, i) BY <1>3 DEF Grown, SameNames
  <2>2. r.ok \in BOOLEAN /\ (r.ok => k \in Index /\ w.inodes[i].blk[k] # 0)
    <3>1. CASE k < MaxBlks /\ v.inodes[i].blk[k] # 0 BY <1>1, <1>3, <3>1 DEF WithBlk, Done
    <3>2. CASE ~(k < MaxBlks /\ v.inodes[i].blk[k] # 0) /\ (k >= MaxBlks \/ FreeBlks(v) = {})
      BY <1>1, <3>2 DEF WithBlk, Fail
    <3>3. CASE ~(k < MaxBlks /\ v.inodes[i].blk[k] # 0) /\ ~(k >= MaxBlks \/ FreeBlks(v) = {})
      <4>1. Least(FreeBlks(v)) \in FreeBlks(v)
        <5>1. FreeBlks(v) \subseteq Nat BY DEF FreeBlks
        <5> QED BY <3>3, <5>1, LeastIn
      <4>2. w.bmap = v.bmap \cup {Least(FreeBlks(v))} BY <3>3 DEF WithBlk, Done, MarkInode, Volume
      <4> QED BY <1>3, <4>1, <4>2 DEF FreeBlks
    <3> QED BY <3>1, <3>2, <3>3
  <2> QED BY <1>3, <2>1, <2>2
<1>4. CASE w # v
  <2> DEFINE b == Least(FreeBlks(v))
  <2>1. k \in Index /\ v.inodes[i].blk[k] = 0 /\ FreeBlks(v) # {} /\ r.ok
    BY <1>1, <1>4 DEF WithBlk, Done, Fail
  <2>2. w = MarkInode([v EXCEPT !.bmap = @ \cup {b}, !.dirty = @ \cup {1},
                                !.inodes[i].blk[k] = b, !.blocks[b] = Zeros], i)
    BY <1>1, <2>1 DEF WithBlk, Done
  <2>3. b \in Blks \ v.bmap
    <3>1. FreeBlks(v) \subseteq Nat BY DEF FreeBlks
    <3> QED BY <2>1, <3>1, LeastIn DEF FreeBlks, Blks
  <2> HIDE DEF b
  <2>4. /\ w.imap = v.imap /\ w.bmap = v.bmap \cup {b}
        /\ w.inodes = [v.inodes EXCEPT ![i].blk[k] = b]
        /\ w.blocks = [v.blocks EXCEPT ![b] = Zeros]
        /\ w.dirty = v.dirty \cup {1} \cup {InodeBlk(i)} /\ w.meta = v.meta
        /\ w = [imap |-> w.imap, bmap |-> w.bmap, inodes |-> w.inodes, dirty |-> w.dirty,
                meta |-> w.meta, blocks |-> w.blocks]
    BY <2>2 DEF MarkInode, Volume
  <2>5. /\ \A j \in Inodes : j # i => w.inodes[j] = v.inodes[j]
        /\ w.inodes[i] = [v.inodes[i] EXCEPT !.blk[k] = b]
        /\ w.inodes \in [Inodes -> Inode]
    <3>1. v.inodes \in [Inodes -> Inode] /\ v.inodes[i] \in Inode BY <1>2 DEF Volume
    <3>2. [v.inodes[i] EXCEPT !.blk[k] = b] \in Inode BY <2>1, <2>3, <3>1, SMTT(30) DEF Inode, Blks
    <3> QED BY <1>2, <2>4, <3>1, <3>2
  <2>6. \A j \in Inodes, l \in Index :
          w.inodes[j].blk[l] = IF j = i /\ l = k THEN b ELSE v.inodes[j].blk[l]
    BY <1>2, <2>1, <2>5, VolumeFacts DEF Inode
  <2>7. \A j \in Inodes : /\ w.inodes[j].type = v.inodes[j].type
                          /\ w.inodes[j].nlink = v.inodes[j].nlink
                          /\ w.inodes[j].size = v.inodes[j].size
    BY <1>2, <2>5, VolumeFacts DEF Inode
  <2>8. \A c \in Blks : w.blocks[c] = IF c = b THEN Zeros ELSE v.blocks[c]
    BY <2>4 DEF Volume
  <2>9. w \in Volume
    <3>1. Zeros \in Block
      <4>1. FreeSlot \in Entry BY DEF FreeSlot, Entry
      <4> QED BY <4>1 DEF Zeros, Block
    <3>2. w.blocks \in [Blks -> Block] BY <2>3, <2>4, <3>1 DEF Volume
    <3>3. w.dirty \subseteq Nat BY <1>2, <2>4, InodeBlkNat DEF Volume
    <3>4. w.imap \in SUBSET Inodes /\ w.bmap \in SUBSET Blks /\ w.meta \in Metadata
      BY <2>3, <2>4 DEF Volume
    <3> QED BY <2>4, <2>5, <3>2, <3>3, <3>4 DEF Volume
  <2>10. Good(w) /\ SameNames(v, w)
    BY <2>1, <2>3, <2>4, <2>9, GrowGood DEF SameNames
  <2>11. Alive(w) = Alive(v) BY <2>4, <2>7, VolumeFacts DEF Alive, IsDir
  <2>12. Pointers(v.imap, v.bmap, v.inodes) BY DEF Good
  <2>13. \A j \in Inodes, l \in Index : v.inodes[j].blk[l] # 0 =>
           /\ w.inodes[j].blk[l] = v.inodes[j].blk[l]
           /\ w.blocks[v.inodes[j].blk[l]] = v.blocks[v.inodes[j].blk[l]]
    BY <2>1, <2>3, <2>6, <2>8, <2>12, VolumeFacts DEF Pointers
  <2>14. Grown(v, w, i) BY <2>4, <2>5, <2>7, <2>10, <2>11, <2>13 DEF Grown
  <2>15. Marked(w) BY <2>4, <2>5, MarkedStep
  <2>16. ASSUME Behind(v), i \in Alive(v) PROVE Behind(w)
    <3>1. v.inodes[i].type = "dir" BY <2>16, AliveInodes
    <3>2. ASSUME NEW j \in Inodes, NEW l \in Index, w.meta.inodes[j].blk[l] # w.inodes[j].blk[l]
          PROVE  /\ w.meta.inodes[j].blk[l] = 0 /\ w.inodes[j].type = "dir"
                 /\ w.blocks[w.inodes[j].blk[l]] = Zeros
      <4>1. CASE j = i /\ l = k
        <5>1. w.meta.inodes[j].blk[l] = 0 BY <2>1, <2>4, <2>16, <4>1 DEF Behind
        <5> QED BY <2>3, <2>6, <2>7, <2>8, <3>1, <4>1, <5>1
      <4>2. CASE ~(j = i /\ l = k)
        <5>1. w.inodes[j].blk[l] = v.inodes[j].blk[l] BY <2>6, <4>2
        <5>2. /\ v.meta.inodes[j].blk[l] = 0 /\ v.inodes[j].type = "dir"
              /\ v.blocks[v.inodes[j].blk[l]] = Zeros
          BY <2>4, <2>16, <3>2, <5>1 DEF Behind
        <5>3. v.inodes[j].blk[l] # 0 BY <2>4, <3>2, <5>1, <5>2
        <5> QED BY <2>4, <2>7, <2>13, <5>1, <5>2, <5>3
      <4> QED BY <4>1, <4>2
    <3> QED BY <2>4, <2>7, <2>16, <3>2 DEF Behind
  <2>17. w.inodes[i].blk[k] # 0 /\ w.blocks[w.inodes[i].blk[k]] = Zeros
    BY <1>2, <2>1, <2>3, <2>6, <2>8 DEF Blks
  <2> QED BY <2>1, <2>9, <2>10, <2>14, <2>15, <2>16, <2>17
<1> QED BY <1>3, <1>4

-----------------------------------------------------------------------------
(* Names of a directory. *)

\* An entry is found by its name, and it is the only one.
LEMMA FoundIs ==
  ASSUME NEW v \in Volume, Good(v), NEW d \in Alive(v), NEW n \in Names
  PROVE  /\ \A p : p \in Found(v, d, n) <=> <<d, p>> \in Entries(v) /\ NameOf(v)[<<d, p>>] = n
         /\ Found(v, d, n) # {} => \E p \in Places :
              /\ p = Least(Found(v, d, n)) /\ Found(v, d, n) = {p}
              /\ <<d, p>> \in Entries(v) /\ NameOf(v)[<<d, p>>] = n
              /\ InumOf(v)[<<d, p>>] = Target(v, d, n)
<1>1. n # NoName BY NamesAssumption DEF Names
<1>2. Prefixes(v) /\ d \in Inodes BY PointersFirst, AliveInodes DEF Good
<1>3. Positions(v, d) \subseteq Places BY <1>2, PositionsAre DEF Prefixes
<1>4. \A p : p \in Used(v, d) <=> <<d, p>> \in Entries(v) BY <1>2, EntryIff
<1>5. \A p : <<d, p>> \in Entries(v) =>
        /\ NameOf(v)[<<d, p>>] = Slot(v, d, p).name /\ InumOf(v)[<<d, p>>] = Slot(v, d, p).inum
  BY DEF NameOf, InumOf
<1>6. ASSUME NEW p
      PROVE  p \in Found(v, d, n) <=> <<d, p>> \in Entries(v) /\ NameOf(v)[<<d, p>>] = n
  <2>1. p \in Found(v, d, n) <=> p \in Used(v, d) /\ Slot(v, d, p).name = n
    BY <1>1 DEF Found, Used
  <2> QED BY <1>4, <1>5, <2>1
<1>7. \A p, q \in Found(v, d, n) : p = q
  <2> SUFFICES ASSUME NEW p \in Found(v, d, n), NEW q \in Found(v, d, n) PROVE p = q OBVIOUS
  <2>1. <<d, p>> \in Entries(v) /\ <<d, q>> \in Entries(v)
        /\ NameOf(v)[<<d, p>>] = NameOf(v)[<<d, q>>]
    BY <1>6
  <2>2. <<d, p>>[1] = <<d, q>>[1] OBVIOUS
  <2>3. <<d, p>> = <<d, q>> BY <2>1, <2>2 DEF Good, Linked
  <2> QED BY <2>3
<1>8. ASSUME Found(v, d, n) # {}
      PROVE  \E p \in Places : /\ p = Least(Found(v, d, n)) /\ Found(v, d, n) = {p}
                               /\ <<d, p>> \in Entries(v) /\ NameOf(v)[<<d, p>>] = n
                               /\ InumOf(v)[<<d, p>>] = Target(v, d, n)
  <2>1. Found(v, d, n) \subseteq Places BY <1>3 DEF Found
  <2>2. Least(Found(v, d, n)) \in Found(v, d, n) BY <1>8, <2>1, LeastIn, PlacesArePairs
  <2>3. PICK p : p = Least(Found(v, d, n)) OBVIOUS
  <2>4. p \in Places /\ Found(v, d, n) = {p} BY <1>7, <2>1, <2>2, <2>3
  <2>5. <<d, p>> \in Entries(v) /\ NameOf(v)[<<d, p>>] = n BY <1>6, <2>4
  <2>6. InumOf(v)[<<d, p>>] = Target(v, d, n) BY <1>5, <2>3, <2>5 DEF Target
  <2> QED BY <2>3, <2>4, <2>5, <2>6
<1> QED BY <1>6, <1>8

\* A name that is found is an entry, and the only one; a name that is not found is none.
LEMMA FoundAt ==
  ASSUME NEW v \in Volume, Good(v), NEW d \in Alive(v), NEW n \in Names
  PROVE  /\ Found(v, d, n) # {} => \E p \in Places :
              /\ <<d, p>> \in Entries(v) /\ NameOf(v)[<<d, p>>] = n
              /\ InumOf(v)[<<d, p>>] = Target(v, d, n)
         /\ \A x \in Entries(v) : x[1] = d /\ NameOf(v)[x] = n =>
              Found(v, d, n) # {} /\ InumOf(v)[x] = Target(v, d, n)
<1>1. Found(v, d, n) # {} => \E p \in Places :
        /\ <<d, p>> \in Entries(v) /\ NameOf(v)[<<d, p>>] = n
        /\ InumOf(v)[<<d, p>>] = Target(v, d, n)
  <2> SUFFICES ASSUME Found(v, d, n) # {}
               PROVE  \E p \in Places :
                        /\ <<d, p>> \in Entries(v) /\ NameOf(v)[<<d, p>>] = n
                        /\ InumOf(v)[<<d, p>>] = Target(v, d, n)
    OBVIOUS
  <2>1. PICK p \in Places : /\ p = Least(Found(v, d, n)) /\ Found(v, d, n) = {p}
                            /\ <<d, p>> \in Entries(v) /\ NameOf(v)[<<d, p>>] = n
                            /\ InumOf(v)[<<d, p>>] = Target(v, d, n)
    BY FoundIs, Zenon
  <2> QED BY <2>1
<1>2. ASSUME NEW x \in Entries(v), x[1] = d, NameOf(v)[x] = n
      PROVE  Found(v, d, n) # {} /\ InumOf(v)[x] = Target(v, d, n)
  <2>1. <<d, x[2]>> = x BY <1>2, EntryPairs
  <2>2. x[2] \in Found(v, d, n)
    <3>1. <<d, x[2]>> \in Entries(v) /\ NameOf(v)[<<d, x[2]>>] = n BY <1>2, <2>1, Zenon
    <3> QED BY <3>1, FoundIs, Zenon
  <2>3. Found(v, d, n) # {} BY <2>2
  <2>4. PICK p \in Places : /\ <<d, p>> \in Entries(v) /\ NameOf(v)[<<d, p>>] = n
                            /\ InumOf(v)[<<d, p>>] = Target(v, d, n)
    BY <1>1, <2>3
  <2>5. <<d, p>> = x
    <3>1. \A y, z \in Entries(v) : y[1] = z[1] /\ NameOf(v)[y] = NameOf(v)[z] => y = z
      BY DEF Good, Linked
    <3>2. <<d, p>>[1] = d OBVIOUS
    <3> QED BY <1>2, <2>4, <3>1, <3>2
  <2> QED BY <2>3, <2>4, <2>5
<1> QED BY <1>1, <1>2

\* A position that is free is one of the directory's blocks.
LEMMA FreeIs ==
  ASSUME NEW v \in Volume, Good(v), NEW d \in Alive(v)
  PROVE  /\ \A p : p \in FreePositions(v, d) <=>
              p \in Places /\ v.inodes[d].blk[BlkIx(p)] # 0 /\ Slot(v, d, p).name = NoName
         /\ FreePositions(v, d) # {} =>
              Least(FreePositions(v, d)) \in FreePositions(v, d)
<1>1. Prefixes(v) /\ d \in Inodes BY PointersFirst, AliveInodes DEF Good
<1>2. Positions(v, d) \subseteq Places
      /\ \A p \in Places : p \in Positions(v, d) <=> v.inodes[d].blk[BlkIx(p)] # 0
  BY <1>1, PositionsAre DEF Prefixes
<1>3. \A p : p \in FreePositions(v, d) <=>
        p \in Places /\ v.inodes[d].blk[BlkIx(p)] # 0 /\ Slot(v, d, p).name = NoName
  BY <1>2 DEF FreePositions, Found
<1>4. FreePositions(v, d) \subseteq Nat BY <1>3, PlacesArePairs
<1> QED BY <1>3, <1>4, LeastIn

\* get_dir_free_entry_block finds room for an entry, or changes nothing.
LEMMA WithFreeEntryGood ==
  ASSUME NEW v \in Volume, Clean(v), NEW d \in Alive(v),
         NEW r, r = WithFreeEntry(v, d), NEW w, w = r.vol
  PROVE  /\ w \in Volume /\ Clean(w) /\ Grown(v, w, d)
         /\ r.ok \in BOOLEAN /\ (~r.ok => w = v)
         /\ r.ok => FreePositions(w, d) # {}
         /\ FreePositions(v, d) # {} => r.ok /\ w = v
<1>1. CASE FreePositions(v, d) # {}
  <2>1. r.ok /\ w = v BY <1>1 DEF WithFreeEntry, Done
  <2> QED BY <1>1, <2>1 DEF Grown, SameNames
<1>2. CASE FreePositions(v, d) = {}
  <2> DEFINE k == DirBlks(v, d)
  <2>1. r = WithBlk(v, d, k) BY <1>2 DEF WithFreeEntry
  <2>2. Prefixes(v) /\ d \in Inodes /\ d \in v.imap BY PointersFirst, AliveInodes DEF Clean, Good
  <2>3. k \in Nat /\ k <= MaxBlks /\ \A l \in Index : l < k <=> v.inodes[d].blk[l] # 0
    BY <2>2, CountBlks DEF Prefixes
  <2>4. Good(v) /\ Marked(v) /\ Behind(v) BY DEF Clean
  <2> HIDE DEF k
  <2>5. /\ w \in Volume /\ Good(w) /\ Marked(w) /\ Grown(v, w, d) /\ Behind(w)
        /\ r.ok \in BOOLEAN /\ (~r.ok => w = v)
        /\ r.ok => /\ k \in Index /\ w.inodes[d].blk[k] # 0
                   /\ v.inodes[d].blk[k] = 0 => w.blocks[w.inodes[d].blk[k]] = Zeros
    BY <2>1, <2>2, <2>3, <2>4, WithBlkGood
  <2>6. ASSUME r.ok PROVE FreePositions(w, d) # {}
    <3>1. k \in Index /\ w.inodes[d].blk[k] # 0 /\ w.blocks[w.inodes[d].blk[k]] = Zeros
      <4>1. \A l \in Index : l \in Nat BY PlacesArePairs
      <4> QED BY <2>3, <2>5, <2>6, <4>1
    <3>2. 0 \in Slots BY SizesAssumption DEF Slots
    <3>3. PICK p \in Places : BlkIx(p) = k /\ SlotIx(p) = 0 BY <3>1, <3>2, PlacesArePairs
    <3>4. Blank(w, d, BlkIx(p)) /\ w.inodes[d].blk[BlkIx(p)] # 0 BY <3>1, <3>3 DEF Blank
    <3>5. Slot(w, d, p).name = NoName BY <3>4, BlankSlot DEF FreeSlot
    <3>6. d \in Alive(w) BY <2>5 DEF Grown
    <3>7. p \in FreePositions(w, d) BY <2>5, <3>4, <3>5, <3>6, FreeIs
    <3> QED BY <3>7
  <2> QED BY <1>2, <2>5, <2>6 DEF Clean
<1> QED BY <1>1, <1>2

\* The parts of a volume that one assignment of the code changes, and the rest.
WithNode(v, i, m) == [v EXCEPT !.inodes[i] = m]

LEMMA NodeSet ==
  ASSUME NEW v \in Volume, NEW i \in Inodes, NEW m \in Inode, NEW w, w = WithNode(v, i, m)
  PROVE  /\ w \in Volume /\ w.inodes[i] = m /\ \A j \in Inodes : j # i => w.inodes[j] = v.inodes[j]
         /\ w.imap = v.imap /\ w.bmap = v.bmap /\ w.dirty = v.dirty /\ w.meta = v.meta
         /\ w.blocks = v.blocks
BY DEF Volume, WithNode

LEMMA InodeMarked ==
  ASSUME NEW v \in Volume, NEW i \in Inodes, NEW w, w = MarkInode(v, i)
  PROVE  /\ w \in Volume /\ Alike(v, w) /\ w.dirty = v.dirty \cup {InodeBlk(i)}
         /\ w.meta = v.meta
BY InodeBlkNat DEF Volume, MarkInode, Alike

LEMMA SlotChanged ==
  ASSUME NEW v \in Volume, NEW d \in Inodes, NEW p \in Places, NEW e \in Entry,
         v.inodes[d].blk[BlkIx(p)] # 0, NEW w, w = SetSlot(v, d, p, e)
  PROVE  /\ w \in Volume /\ Replaced(v, w, d, p, e)
         /\ w.imap = v.imap /\ w.bmap = v.bmap /\ w.inodes = v.inodes
         /\ w.dirty = v.dirty /\ w.meta = v.meta
<1> DEFINE b == v.inodes[d].blk[BlkIx(p)]
<1>1. BlkIx(p) \in Index /\ SlotIx(p) \in Slots /\ b \in Blks BY PlacesArePairs, VolumeFacts
<1>2. w = [v EXCEPT !.blocks[b].slots[SlotIx(p)] = e] BY DEF SetSlot, BlkIx, SlotIx
<1> HIDE DEF b
<1>3. v.blocks \in [Blks -> Block] /\ v.blocks[b] \in Block BY <1>1 DEF Volume
<1>4. [v.blocks[b] EXCEPT !.slots[SlotIx(p)] = e] \in Block BY <1>1, <1>3 DEF Block
<1>5. /\ w.blocks = [v.blocks EXCEPT ![b] = [v.blocks[b] EXCEPT !.slots[SlotIx(p)] = e]]
      /\ w.imap = v.imap /\ w.bmap = v.bmap /\ w.inodes = v.inodes
      /\ w.dirty = v.dirty /\ w.meta = v.meta
  BY <1>2 DEF Volume
<1>6. w \in Volume
  <2>1. w.blocks \in [Blks -> Block] BY <1>1, <1>3, <1>4, <1>5
  <2> QED BY <1>2, <1>5, <2>1 DEF Volume
<1>7. \A c \in Blks : w.blocks[c] = IF c = b THEN [v.blocks[c] EXCEPT !.slots[SlotIx(p)] = e]
                                    ELSE v.blocks[c]
  BY <1>1, <1>3, <1>5
<1> QED BY <1>5, <1>6, <1>7 DEF Replaced, SlotSet, b

LEMMA LinkTypes ==
  \A x \in 0 .. MaxNlink : LinkMore(x) \in 0 .. MaxNlink /\ LinkLess(x) \in 0 .. MaxNlink
<1>1. MaxNlink \in Nat BY SizesAssumption
<1> QED BY <1>1 DEF LinkMore, LinkLess

\* The volume v with the entry n for the inode i at the position p of d.
Entered(v, w, d, p, n, i) ==
  /\ w.imap = v.imap /\ Alive(w) = Alive(v)
  /\ <<d, p>> \notin Entries(v) /\ Entries(w) = Entries(v) \cup {<<d, p>>}
  /\ NameOf(w)[<<d, p>>] = n /\ InumOf(w)[<<d, p>>] = i
  /\ \A x \in Entries(v) : NameOf(w)[x] = NameOf(v)[x] /\ InumOf(w)[x] = InumOf(v)[x]
  /\ \A j \in Inodes :
       /\ w.inodes[j].type = v.inodes[j].type /\ w.inodes[j].blk = v.inodes[j].blk
       /\ w.inodes[j].size = IF j = d THEN v.inodes[j].size + 1 ELSE v.inodes[j].size
       /\ (j # i => w.inodes[j].nlink = v.inodes[j].nlink)

LEMMA AddEntryClean ==
  ASSUME NEW v \in Volume, Good(v), Marked(v), NEW d \in Alive(v), NEW i \in v.imap,
         NEW n \in Names, FreePositions(v, d) # {}, MayEnter(v, d, n, i),
         NEW w, w = AddEntry(v, d, i, n)
  PROVE  /\ w \in Volume /\ Clean(w) /\ w.bmap = v.bmap /\ SameBytes(v, w, v.imap)
         /\ \E p \in Places : Entered(v, w, d, p, n, i)
<1>1. PICK p : p = Least(FreePositions(v, d)) OBVIOUS
<1>2. p \in Places /\ v.inodes[d].blk[BlkIx(p)] # 0 /\ Slot(v, d, p).name = NoName
  BY <1>1, FreeIs
<1>3. BlkIx(p) \in Index /\ SlotIx(p) \in Slots BY <1>2, PlacesArePairs
<1>4. d \in Inodes /\ d \in v.imap /\ i \in Inodes BY AliveInodes
<1> DEFINE e == [name |-> n, inum |-> i]
           b == v.inodes[d].blk[BlkIx(p)]
           s == SetSlot(v, d, p, e)
           c == MarkInode([s EXCEPT !.inodes[i].nlink = LinkMore(@)], i)
           u == MarkInode([c EXCEPT !.inodes[d].size = SizeMore(@)], d)
<1>5. w = FlushMetadata(u) BY <1>1 DEF AddEntry
<1>6. e \in Entry BY <1>4 DEF Entry
<1>7. /\ s \in Volume /\ Replaced(v, s, d, p, e) /\ s.imap = v.imap /\ s.bmap = v.bmap
      /\ s.inodes = v.inodes /\ s.dirty = v.dirty /\ s.meta = v.meta
  BY <1>2, <1>4, <1>6, SlotChanged
<1> HIDE DEF s
<1>8. s.inodes[i] \in Inode /\ LinkMore(s.inodes[i].nlink) \in 0 .. MaxNlink
  BY <1>4, <1>7, VolumeFacts, LinkTypes DEF Inode
<1>9. [s.inodes[i] EXCEPT !.nlink = LinkMore(@)] \in Inode BY <1>8 DEF Inode
<1>10. /\ c \in Volume /\ c.inodes[i] = [s.inodes[i] EXCEPT !.nlink = LinkMore(@)]
       /\ \A j \in Inodes : j # i => c.inodes[j] = v.inodes[j]
       /\ c.imap = v.imap /\ c.bmap = v.bmap /\ c.meta = v.meta /\ c.blocks = s.blocks
       /\ c.dirty = v.dirty \cup {InodeBlk(i)}
  <2> DEFINE x == [s.inodes[i] EXCEPT !.nlink = LinkMore(@)]
             m == [s EXCEPT !.inodes[i] = x]
  <2>1. c = MarkInode(m, i) /\ x \in Inode BY <1>9
  <2> HIDE DEF x, c
  <2>2. m = WithNode(s, i, x) BY DEF WithNode
  <2> HIDE DEF m
  <2>3. /\ m \in Volume /\ m.inodes[i] = x
        /\ \A j \in Inodes : j # i => m.inodes[j] = s.inodes[j]
        /\ m.imap = s.imap /\ m.bmap = s.bmap /\ m.dirty = s.dirty
        /\ m.meta = s.meta /\ m.blocks = s.blocks
    BY <1>4, <1>7, <2>1, <2>2, NodeSet
  <2>4. /\ c \in Volume /\ Alike(m, c) /\ c.dirty = m.dirty \cup {InodeBlk(i)}
        /\ c.meta = m.meta
    BY <1>4, <1>7, <2>1, <2>3, InodeMarked
  <2> QED BY <1>4, <1>7, <2>3, <2>4 DEF Alike, x
<1> HIDE DEF c
<1>11. c.inodes[d] \in Inode /\ [c.inodes[d] EXCEPT !.size = @ + 1] \in Inode
       /\ [c.inodes[d] EXCEPT !.size = SizeMore(@)] = [c.inodes[d] EXCEPT !.size = @ + 1]
  <2>1. c.inodes[d] \in Inode /\ v.inodes[d] \in Inode BY <1>4, <1>10, VolumeFacts
  <2>2. c.inodes[d].size = v.inodes[d].size BY <1>4, <1>7, <1>10, <2>1 DEF Inode
  <2>3. SizeMore(c.inodes[d].size) = c.inodes[d].size + 1 BY <2>2, SizeSteps
  <2> QED BY <2>1, <2>3 DEF Inode
<1>12. /\ u \in Volume /\ u.inodes[d] = [c.inodes[d] EXCEPT !.size = @ + 1]
       /\ \A j \in Inodes : j # d => u.inodes[j] = c.inodes[j]
       /\ u.imap = v.imap /\ u.bmap = v.bmap /\ u.meta = v.meta /\ u.blocks = s.blocks
       /\ u.dirty = v.dirty \cup {InodeBlk(i)} \cup {InodeBlk(d)}
  <2> DEFINE x == [c.inodes[d] EXCEPT !.size = @ + 1]
             m == [c EXCEPT !.inodes[d] = x]
  <2>1. u = MarkInode(m, d) /\ x \in Inode
    <3>1. m = [c EXCEPT !.inodes[d] = [c.inodes[d] EXCEPT !.size = SizeMore(@)]] BY <1>11
    <3> QED BY <1>11, <3>1
  <2> HIDE DEF x, u
  <2>2. m = WithNode(c, d, x) BY DEF WithNode
  <2> HIDE DEF m
  <2>3. /\ m \in Volume /\ m.inodes[d] = x
        /\ \A j \in Inodes : j # d => m.inodes[j] = c.inodes[j]
        /\ m.imap = c.imap /\ m.bmap = c.bmap /\ m.dirty = c.dirty
        /\ m.meta = c.meta /\ m.blocks = c.blocks
    BY <1>4, <1>10, <2>1, <2>2, NodeSet
  <2>4. /\ u \in Volume /\ Alike(m, u) /\ u.dirty = m.dirty \cup {InodeBlk(d)}
        /\ u.meta = m.meta
    BY <1>4, <1>10, <2>1, <2>3, InodeMarked
  <2> QED BY <1>4, <1>10, <2>3, <2>4 DEF Alike, x
<1> HIDE DEF u
<1>13. \A j \in Inodes :
         /\ u.inodes[j].type = v.inodes[j].type /\ u.inodes[j].blk = v.inodes[j].blk
         /\ u.inodes[j].nlink = IF j = i THEN LinkMore(v.inodes[j].nlink) ELSE v.inodes[j].nlink
         /\ u.inodes[j].size = IF j = d THEN v.inodes[j].size + 1 ELSE v.inodes[j].size
         /\ (j # i /\ j # d => u.inodes[j] = v.inodes[j])
  <2> SUFFICES ASSUME NEW j \in Inodes
               PROVE /\ u.inodes[j].type = v.inodes[j].type /\ u.inodes[j].blk = v.inodes[j].blk
                     /\ u.inodes[j].nlink = IF j = i THEN LinkMore(v.inodes[j].nlink)
                                            ELSE v.inodes[j].nlink
                     /\ u.inodes[j].size = IF j = d THEN v.inodes[j].size + 1 ELSE v.inodes[j].size
                     /\ (j # i /\ j # d => u.inodes[j] = v.inodes[j])
    OBVIOUS
  <2>1. v.inodes[j] \in Inode BY VolumeFacts
  <2>2. /\ c.inodes[j].type = v.inodes[j].type /\ c.inodes[j].blk = v.inodes[j].blk
        /\ c.inodes[j].nlink = IF j = i THEN LinkMore(v.inodes[j].nlink) ELSE v.inodes[j].nlink
        /\ c.inodes[j].size = v.inodes[j].size
    BY <1>7, <1>10, <2>1 DEF Inode
  <2>3. c.inodes[j] \in Inode BY <1>10, VolumeFacts
  <2> QED BY <1>10, <1>12, <2>2, <2>3 DEF Inode
<1>14. Replaced(v, u, d, p, e) /\ OneMore(v, u, d, i)
  BY <1>7, <1>12, <1>13 DEF Replaced, SlotSet, OneMore
<1>15. /\ Good(u) /\ Alive(u) = Alive(v)
       /\ <<d, p>> \notin Entries(v) /\ Entries(u) = Entries(v) \cup {<<d, p>>}
       /\ NameOf(u)[<<d, p>>] = n /\ InumOf(u)[<<d, p>>] = i
       /\ \A x \in Entries(v) : NameOf(u)[x] = NameOf(v)[x] /\ InumOf(u)[x] = InumOf(v)[x]
       /\ u.inodes[i].nlink = v.inodes[i].nlink + 1
  BY <1>2, <1>12, <1>14, EnterGood
<1>16. Marked(u)
  <2>1. \A j \in Inodes : u.inodes[j] # v.inodes[j] => InodeBlk(j) \in u.dirty
    BY <1>12, <1>13
  <2> QED BY <1>12, <2>1, MarkedStep
<1>17. /\ w \in Volume /\ Clean(w) /\ Alike(u, w) /\ SameNames(u, w) /\ Alive(w) = Alive(u)
  BY <1>5, <1>12, <1>15, <1>16, FlushClean
<1>18. Entered(v, w, d, p, n, i)
  BY <1>12, <1>13, <1>15, <1>17 DEF Entered, Alike, SameNames
<1>19. SameBytes(v, w, v.imap)
  <2>1. SameBytes(v, u, v.imap) BY <1>2, <1>13, <1>14, VolumeFacts, SlotBytes
  <2>2. SameBytes(u, w, v.imap) BY <1>17, BytesStay DEF Alike
  <2> QED BY <2>1, <2>2, BytesThen
<1> QED BY <1>2, <1>12, <1>17, <1>18, <1>19 DEF Alike

-----------------------------------------------------------------------------
(* Entries and blocks that are given back. *)

\* The entry's slot is free and the directory's size follows.
LEMMA DropEntryIs ==
  ASSUME NEW v \in Volume, Good(v), NEW d \in Alive(v), NEW n \in Names, Found(v, d, n) # {},
         NEW w, w = Dropped(v, d, n)
  PROVE  /\ w \in Volume /\ w.imap = v.imap /\ w.bmap = v.bmap /\ w.meta = v.meta
         /\ w.dirty = v.dirty \cup {InodeBlk(d)}
         /\ w.inodes[d] = [v.inodes[d] EXCEPT !.size = IF @ = 0 THEN 0 ELSE @ - 1]
         /\ \A j \in Inodes : j # d => w.inodes[j] = v.inodes[j]
         /\ \E p \in Places :
              /\ p = Least(Found(v, d, n)) /\ Found(v, d, n) = {p}
              /\ <<d, p>> \in Entries(v) /\ NameOf(v)[<<d, p>>] = n
              /\ InumOf(v)[<<d, p>>] = Target(v, d, n)
              /\ v.inodes[d].blk[BlkIx(p)] # 0 /\ Replaced(v, w, d, p, FreeSlot)
<1>1. PICK p \in Places : /\ p = Least(Found(v, d, n)) /\ Found(v, d, n) = {p}
                          /\ <<d, p>> \in Entries(v) /\ NameOf(v)[<<d, p>>] = n
                          /\ InumOf(v)[<<d, p>>] = Target(v, d, n)
  BY FoundIs
<1>2. d \in Inodes /\ FreeSlot \in Entry /\ Prefixes(v)
  BY AliveInodes, PointersFirst DEF FreeSlot, Entry, Good
<1>3. v.inodes[d].blk[BlkIx(p)] # 0 BY <1>1, <1>2, EntryIff
<1> DEFINE s == SetSlot(v, d, p, FreeSlot)
           x == [s.inodes[d] EXCEPT !.size = IF @ = 0 THEN 0 ELSE @ - 1]
           m == [s EXCEPT !.inodes[d] = x]
<1>4. w = MarkInode(m, d)
  <2>1. s.inodes[d].size = v.inodes[d].size BY DEF SetSlot
  <2>2. SizeLessOr0(v.inodes[d].size) = IF v.inodes[d].size = 0 THEN 0 ELSE v.inodes[d].size - 1
    BY SizeSteps
  <2>3. w = MarkInode([s EXCEPT !.inodes[d].size = SizeLessOr0(v.inodes[d].size)], d)
    BY <1>1 DEF Dropped, DropEntry
  <2>4. [s EXCEPT !.inodes[d].size = SizeLessOr0(v.inodes[d].size)]
        = [s EXCEPT !.inodes[d] = [@ EXCEPT !.size = SizeLessOr0(v.inodes[d].size)]]
    OBVIOUS
  <2>5. x = [s.inodes[d] EXCEPT !.size = SizeLessOr0(v.inodes[d].size)] BY <2>1, <2>2
  <2> QED BY <2>3, <2>4, <2>5
<1>5. /\ s \in Volume /\ Replaced(v, s, d, p, FreeSlot)
      /\ s.imap = v.imap /\ s.bmap = v.bmap /\ s.inodes = v.inodes
      /\ s.dirty = v.dirty /\ s.meta = v.meta
  BY <1>2, <1>3, SlotChanged
<1> HIDE DEF s
<1>6. x \in Inode
  <2>1. s.inodes[d] \in Inode BY <1>2, <1>5, VolumeFacts
  <2> QED BY <2>1 DEF Inode
<1> HIDE DEF x
<1>7. m = WithNode(s, d, x) BY DEF WithNode
<1> HIDE DEF m
<1>8. /\ m \in Volume /\ m.inodes[d] = x
      /\ \A j \in Inodes : j # d => m.inodes[j] = s.inodes[j]
      /\ m.imap = s.imap /\ m.bmap = s.bmap /\ m.dirty = s.dirty
      /\ m.meta = s.meta /\ m.blocks = s.blocks
  BY <1>2, <1>5, <1>6, <1>7, NodeSet
<1>9. w \in Volume /\ Alike(m, w) /\ w.dirty = m.dirty \cup {InodeBlk(d)} /\ w.meta = m.meta
  BY <1>2, <1>4, <1>8, InodeMarked
<1>10. /\ w.inodes[d] = [v.inodes[d] EXCEPT !.size = IF @ = 0 THEN 0 ELSE @ - 1]
       /\ \A j \in Inodes : j # d => w.inodes[j] = v.inodes[j]
  BY <1>5, <1>8, <1>9 DEF Alike, x
<1>11. \A j \in Inodes : w.inodes[j].blk = v.inodes[j].blk
  <2>1. v.inodes[d] \in Inode BY <1>2, VolumeFacts
  <2> QED BY <1>10, <2>1 DEF Inode
<1>12. Replaced(v, w, d, p, FreeSlot)
  BY <1>5, <1>8, <1>9, <1>11 DEF Replaced, SlotSet, Alike
<1> QED BY <1>1, <1>3, <1>5, <1>8, <1>9, <1>10, <1>12 DEF Alike

\* do_truncate frees all blocks, but of a directory of size 0.
LEMMA TruncatedIs ==
  ASSUME NEW v \in Volume, NEW i \in Inodes,
         v.inodes[i].size # 0 \/ \A k \in Index : k # 0 => v.inodes[i].blk[k] = 0,
         NEW w, w = Truncated(v, i)
  PROVE  /\ w \in Volume /\ w.imap = v.imap /\ w.meta = v.meta /\ w.blocks = v.blocks
         /\ w.bmap = v.bmap \ {v.inodes[i].blk[k] : k \in Index}
         /\ v.dirty \subseteq w.dirty /\ (w.bmap # v.bmap => 1 \in w.dirty)
         /\ w.inodes[i].size = 0 /\ \A k \in Index : w.inodes[i].blk[k] = 0
         /\ w.inodes[i].type = v.inodes[i].type /\ w.inodes[i].nlink = v.inodes[i].nlink
         /\ \A j \in Inodes : j # i => w.inodes[j] = v.inodes[j]
<1> DEFINE used == {k \in 0 .. MaxBlks - 1 : v.inodes[i].blk[k] # 0}
           freed == IF v.inodes[i].size # 0 THEN used
                    ELSE {k \in used : \A j \in used : j <= k}
           B == {v.inodes[i].blk[k] : k \in freed}
           r == ReturnBlks(v, B)
<1>1. Index = 0 .. MaxBlks - 1 /\ Index \subseteq Nat BY PlacesArePairs DEF Index
<1>2. freed = used
  <2>1. CASE v.inodes[i].size # 0 BY <2>1
  <2>2. CASE \A k \in Index : k # 0 => v.inodes[i].blk[k] = 0
    <3>1. \A k \in used : k = 0 BY <1>1, <2>2
    <3>2. \A k \in used : \A j \in used : j <= k BY <3>1
    <3> QED BY <3>2
  <2> QED BY <2>1, <2>2
<1>3. w = [r EXCEPT !.inodes[i].blk = [k \in 0 .. MaxBlks - 1 |-> IF k \in freed THEN 0 ELSE @[k]],
                    !.inodes[i].size = 0]
  BY DEF Truncated
<1>4. \A k \in Index : k \in freed <=> v.inodes[i].blk[k] # 0 BY <1>1, <1>2
<1>5. B \subseteq Blks BY <1>1, <1>4, VolumeFacts
<1>6. v.bmap \ B = v.bmap \ {v.inodes[i].blk[k] : k \in Index}
  <2>1. 0 \notin v.bmap BY VolumeFacts DEF Blks
  <2>2. ASSUME NEW b \in v.bmap PROVE b \in B <=> b \in {v.inodes[i].blk[k] : k \in Index}
    <3>1. b \in B => b \in {v.inodes[i].blk[k] : k \in Index} BY <1>1, <1>2
    <3>2. ASSUME NEW k \in Index, b = v.inodes[i].blk[k] PROVE b \in B
      <4>1. k \in freed BY <1>4, <2>1, <2>2, <3>2
      <4> QED BY <3>2, <4>1
    <3> QED BY <3>1, <3>2
  <2> QED BY <2>2
<1> HIDE DEF freed, B
<1>7. /\ r \in Volume /\ r.imap = v.imap /\ r.meta = v.meta /\ r.blocks = v.blocks
      /\ r.inodes = v.inodes /\ r.bmap = v.bmap \ B
      /\ v.dirty \subseteq r.dirty /\ (r.bmap # v.bmap => 1 \in r.dirty)
  <2> DEFINE M == v.bmap \ B
             D == IF B = {} THEN v.dirty ELSE v.dirty \cup {1}
  <2>0. r = [v EXCEPT !.bmap = M, !.dirty = D] BY DEF ReturnBlks
  <2> HIDE DEF M, D, r
  <2>1. /\ r.imap = v.imap /\ r.meta = v.meta /\ r.blocks = v.blocks /\ r.inodes = v.inodes
        /\ r.bmap = v.bmap \ B
        /\ r.dirty = IF B = {} THEN v.dirty ELSE v.dirty \cup {1}
        /\ r = [imap |-> r.imap, bmap |-> r.bmap, inodes |-> r.inodes, dirty |-> r.dirty,
                meta |-> r.meta, blocks |-> r.blocks]
    BY <2>0 DEF Volume, M, D
  <2>2. r.dirty \subseteq Nat /\ r.bmap \in SUBSET Blks BY <2>1 DEF Volume
  <2>3. r \in Volume BY <2>1, <2>2 DEF Volume
  <2>4. B = {} => r.bmap = v.bmap BY <2>1
  <2> QED BY <2>1, <2>3, <2>4
<1> HIDE DEF r
<1> DEFINE x == [v.inodes[i] EXCEPT !.blk = [k \in 0 .. MaxBlks - 1 |-> IF k \in freed THEN 0 ELSE @[k]],
                                    !.size = 0]
<1>8. v.inodes[i] \in Inode /\ v.inodes[i].blk \in [Index -> 0 .. NBlocks] BY VolumeFacts
<1>9. /\ x \in Inode /\ x.size = 0 /\ x.type = v.inodes[i].type /\ x.nlink = v.inodes[i].nlink
      /\ \A k \in Index : x.blk[k] = 0
  <2>1. x.blk = [k \in Index |-> IF k \in freed THEN 0 ELSE v.inodes[i].blk[k]]
    BY <1>1, <1>8 DEF Inode
  <2>2. NBlocks \in Nat BY SizesAssumption
  <2>3. x.blk \in [Index -> 0 .. NBlocks] BY <1>8, <2>1, <2>2
  <2>4. \A k \in Index : x.blk[k] = 0 BY <1>4, <2>1
  <2> QED BY <1>1, <1>8, <2>3, <2>4 DEF Inode
<1>10. w = WithNode(r, i, x) BY <1>3, <1>7, <1>8 DEF WithNode, Volume, Inode
<1> HIDE DEF x
<1>11. /\ w \in Volume /\ w.inodes[i] = x
       /\ \A j \in Inodes : j # i => w.inodes[j] = r.inodes[j]
       /\ w.imap = r.imap /\ w.bmap = r.bmap /\ w.dirty = r.dirty
       /\ w.meta = r.meta /\ w.blocks = r.blocks
  BY <1>7, <1>9, <1>10, NodeSet
<1> QED BY <1>6, <1>7, <1>9, <1>11

LEMMA TruncatedGood ==
  ASSUME NEW v \in Volume, Good(v), NEW i \in v.imap, i \notin Alive(v), NEW w, w = Truncated(v, i)
  PROVE  /\ w \in Volume /\ Good(w) /\ SameNames(v, w) /\ Alive(w) = Alive(v)
         /\ w.imap = v.imap /\ w.meta = v.meta /\ w.blocks = v.blocks
         /\ v.dirty \subseteq w.dirty /\ (w.bmap # v.bmap => 1 \in w.dirty)
         /\ w.inodes[i].size = 0 /\ \A k \in Index : w.inodes[i].blk[k] = 0
         /\ w.inodes[i].type = v.inodes[i].type /\ w.inodes[i].nlink = v.inodes[i].nlink
         /\ \A j \in Inodes : j # i => w.inodes[j] = v.inodes[j]
<1>1. i \in Inodes /\ v.inodes[i].type # "dir" BY AliveInodes
<1>2. \A k \in Index : k # 0 => v.inodes[i].blk[k] = 0 BY <1>1 DEF Good, Contents, Content
<1>3. /\ w \in Volume /\ w.imap = v.imap /\ w.meta = v.meta /\ w.blocks = v.blocks
      /\ w.bmap = v.bmap \ {v.inodes[i].blk[k] : k \in Index}
      /\ v.dirty \subseteq w.dirty /\ (w.bmap # v.bmap => 1 \in w.dirty)
      /\ w.inodes[i].size = 0 /\ \A k \in Index : w.inodes[i].blk[k] = 0
      /\ w.inodes[i].type = v.inodes[i].type /\ w.inodes[i].nlink = v.inodes[i].nlink
      /\ \A j \in Inodes : j # i => w.inodes[j] = v.inodes[j]
  BY <1>1, <1>2, TruncatedIs
<1>4. Good(w) /\ SameNames(v, w) BY <1>3, TruncateGood DEF SameNames
<1>5. Alive(w) = Alive(v) BY <1>1, <1>3, VolumeFacts DEF Alive, IsDir
<1> QED BY <1>3, <1>4, <1>5

-----------------------------------------------------------------------------
(* The calls. *)

\* No call changes the type of an inode that stays allocated, or takes . or ..
\* from a directory that stays.
KeepsDots(v, w) ==
  /\ \A i \in v.imap : w.inodes[i].type = v.inodes[i].type
  /\ \A x \in Entries(v) : NameOf(v)[x] \in {Dot, DotDot} /\ x[1] \in Alive(w) =>
       x \in Entries(w) /\ NameOf(w)[x] = NameOf(v)[x]

LEMMA InodeReturned ==
  ASSUME NEW v \in Volume, NEW i, NEW w, w = ReturnInode(v, i)
  PROVE  /\ w \in Volume /\ w.imap = v.imap \ {i} /\ w.bmap = v.bmap /\ w.inodes = v.inodes
         /\ w.blocks = v.blocks /\ w.meta = v.meta /\ w.dirty = v.dirty \cup {0}
<1> DEFINE I == v.imap \ {i}
           D == v.dirty \cup {0}
<1>1. w = [v EXCEPT !.imap = I, !.dirty = D] BY DEF ReturnInode
<1>2. I \in SUBSET Inodes /\ D \in SUBSET Nat BY DEF Volume
<1> HIDE DEF I, D
<1>3. /\ w \in Volume /\ w.imap = I /\ w.bmap = v.bmap /\ w.inodes = v.inodes
      /\ w.blocks = v.blocks /\ w.meta = v.meta /\ w.dirty = D
  BY <1>1, <1>2 DEF Volume
<1> QED BY <1>3 DEF I, D

\* An inode whose count is 0 has no entry.
LEMMA NoneLeft ==
  ASSUME NEW v \in Volume, Good(v), NEW i \in v.imap, v.inodes[i].nlink = 0
  PROVE  \A x \in Entries(v) : InumOf(v)[x] # i
BY CountsPositive

\* The entry z of v is gone, and with it no directory; its inode stays only when
\* it has another entry.
Unlinked(v, w, z, n) ==
  /\ z \in Entries(v) /\ NameOf(v)[z] = n /\ InumOf(v)[z] \notin Alive(v)
  /\ w.imap \subseteq v.imap /\ v.imap \ {InumOf(v)[z]} \subseteq w.imap
  /\ InumOf(v)[z] \in w.imap => \E x \in Entries(w) : InumOf(w)[x] = InumOf(v)[z]
  /\ Alive(w) = Alive(v) /\ Entries(w) = Entries(v) \ {z}
  /\ \A x \in Entries(w) : NameOf(w)[x] = NameOf(v)[x] /\ InumOf(w)[x] = InumOf(v)[x]
  /\ \A j \in Inodes : w.inodes[j].type = v.inodes[j].type

LEMMA UnlinkClean ==
  ASSUME NEW v \in Volume, Clean(v), NEW d \in Alive(v), NEW n \in Leaf,
         NEW r, r = UnlinkCall(v, d, n), NEW w, w = r.vol
  PROVE  /\ w \in Volume /\ Clean(w) /\ SameBytes(v, w, v.imap \cap w.imap)
         /\ w = v \/ \E p \in Places : Unlinked(v, w, <<d, p>>, n)
<1> DEFINE i == Target(v, d, n)
           dropped == Dropped(v, d, n)
           m == [dropped EXCEPT !.inodes[i].nlink = LinkLess(@)]
           less == MarkInode(m, i)
<1>1. CASE Found(v, d, n) = {} \/ IsDir(v, i)
  <2>1. w = v BY <1>1 DEF UnlinkCall, Fail
  <2> QED BY <2>1, BytesStay
<1>2. CASE Found(v, d, n) # {} /\ ~IsDir(v, i)
  <2>1. w = FlushMetadata(IF less.inodes[i].nlink = 0 THEN ReturnInode(Truncated(less, i), i)
                          ELSE less)
    BY <1>2 DEF UnlinkCall, Done
  <2>2. Good(v) /\ Marked(v) /\ n \in Names /\ d \in Inodes BY AliveInodes DEF Clean, Names
  <2>3. /\ dropped \in Volume /\ dropped.imap = v.imap /\ dropped.bmap = v.bmap
        /\ dropped.meta = v.meta /\ dropped.dirty = v.dirty \cup {InodeBlk(d)}
        /\ dropped.inodes[d] = [v.inodes[d] EXCEPT !.size = IF @ = 0 THEN 0 ELSE @ - 1]
        /\ \A j \in Inodes : j # d => dropped.inodes[j] = v.inodes[j]
    BY <1>2, <2>2, DropEntryIs
  <2>4. PICK p \in Places : /\ <<d, p>> \in Entries(v) /\ NameOf(v)[<<d, p>>] = n
                            /\ InumOf(v)[<<d, p>>] = i /\ Replaced(v, dropped, d, p, FreeSlot)
                            /\ v.inodes[d].blk[BlkIx(p)] # 0
    <3> HIDE DEF dropped
    <3>1. dropped = Dropped(v, d, n) BY DEF dropped
    <3>2. PICK q \in Places : /\ q = Least(Found(v, d, n)) /\ Found(v, d, n) = {q}
                              /\ <<d, q>> \in Entries(v) /\ NameOf(v)[<<d, q>>] = n
                              /\ InumOf(v)[<<d, q>>] = Target(v, d, n)
                              /\ v.inodes[d].blk[BlkIx(q)] # 0 /\ Replaced(v, dropped, d, q, FreeSlot)
      BY <1>2, <2>2, <3>1, DropEntryIs
    <3> QED BY <3>2
  <2> HIDE DEF dropped, i
  <2>5. i \in v.imap /\ i \in Inodes /\ i \notin Alive(v) /\ i # d
    BY <1>2, <2>2, <2>4, CountsPositive, AliveInodes DEF Alive
  <2> DEFINE x == [dropped.inodes[i] EXCEPT !.nlink = LinkLess(@)]
  <2>6. x \in Inode
    <3>1. dropped.inodes[i] \in Inode BY <2>3, <2>5, VolumeFacts
    <3>2. LinkLess(dropped.inodes[i].nlink) \in 0 .. MaxNlink BY <3>1, LinkTypes DEF Inode
    <3> QED BY <3>1, <3>2 DEF Inode
  <2> HIDE DEF x
  <2>7. m = WithNode(dropped, i, x) BY DEF WithNode, x
  <2> HIDE DEF m
  <2>8. /\ m \in Volume /\ m.inodes[i] = x
        /\ \A j \in Inodes : j # i => m.inodes[j] = dropped.inodes[j]
        /\ m.imap = dropped.imap /\ m.bmap = dropped.bmap /\ m.dirty = dropped.dirty
        /\ m.meta = dropped.meta /\ m.blocks = dropped.blocks
    BY <2>3, <2>5, <2>6, <2>7, NodeSet
  <2>9. /\ less \in Volume /\ Alike(m, less) /\ less.dirty = m.dirty \cup {InodeBlk(i)}
        /\ less.meta = m.meta
    BY <2>5, <2>8, InodeMarked
  <2> HIDE DEF less
  <2>10. \A j \in Inodes :
           /\ less.inodes[j].type = v.inodes[j].type /\ less.inodes[j].blk = v.inodes[j].blk
           /\ less.inodes[j].nlink = IF j = i THEN LinkLess(v.inodes[j].nlink) ELSE v.inodes[j].nlink
           /\ less.inodes[j].size = IF j = d THEN (IF v.inodes[j].size = 0 THEN 0 ELSE v.inodes[j].size - 1)
                                    ELSE v.inodes[j].size
           /\ (j # i /\ j # d => less.inodes[j] = v.inodes[j])
    <3> SUFFICES ASSUME NEW j \in Inodes
          PROVE  /\ less.inodes[j].type = v.inodes[j].type /\ less.inodes[j].blk = v.inodes[j].blk
                 /\ less.inodes[j].nlink = IF j = i THEN LinkLess(v.inodes[j].nlink) ELSE v.inodes[j].nlink
                 /\ less.inodes[j].size = IF j = d THEN (IF v.inodes[j].size = 0 THEN 0 ELSE v.inodes[j].size - 1)
                                          ELSE v.inodes[j].size
                 /\ (j # i /\ j # d => less.inodes[j] = v.inodes[j])
      OBVIOUS
    <3>1. v.inodes[j] \in Inode BY VolumeFacts
    <3>2. less.inodes[j] = m.inodes[j] BY <2>9 DEF Alike
    <3>3. CASE j = i
      <4>1. less.inodes[j] = [v.inodes[j] EXCEPT !.nlink = LinkLess(@)] BY <2>3, <2>5, <2>8, <3>2, <3>3 DEF x
      <4> QED BY <2>5, <3>1, <3>3, <4>1 DEF Inode
    <3>4. CASE j = d
      <4>1. less.inodes[j] = [v.inodes[j] EXCEPT !.size = IF @ = 0 THEN 0 ELSE @ - 1]
        BY <2>3, <2>5, <2>8, <3>2, <3>4
      <4> QED BY <2>5, <3>1, <3>4, <4>1 DEF Inode
    <3>5. CASE j # i /\ j # d BY <2>3, <2>8, <3>2, <3>5
    <3> QED BY <3>3, <3>4, <3>5
  <2>11. Replaced(v, less, d, p, FreeSlot)
    BY <2>4, <2>8, <2>9, <2>10 DEF Replaced, SlotSet, Alike
  <2>12. less.imap = v.imap /\ less.bmap = v.bmap /\ less.meta = v.meta
         /\ less.dirty = v.dirty \cup {InodeBlk(d)} \cup {InodeBlk(i)}
    BY <2>3, <2>8, <2>9 DEF Alike
  <2>13. /\ Good(less) /\ Alive(less) = Alive(v) /\ Entries(less) = Entries(v) \ {<<d, p>>}
         /\ \A y \in Entries(less) : NameOf(less)[y] = NameOf(v)[y] /\ InumOf(less)[y] = InumOf(v)[y]
    BY <2>2, <2>4, <2>5, <2>9, <2>10, <2>11, <2>12, LeaveGood
  <2>14. Marked(less) BY <2>2, <2>10, <2>12, MarkedStep
  <2>17. SameBytes(v, less, v.imap)
    <3>1. \A j \in v.imap : j # d => /\ less.inodes[j].type = v.inodes[j].type
                                     /\ less.inodes[j].size = v.inodes[j].size
      BY <2>10, VolumeFacts
    <3> QED BY <2>2, <2>4, <2>11, <3>1, SlotBytes
  <2>18. \A S : S \subseteq v.imap => SameBytes(v, less, S) BY <2>17 DEF SameBytes
  <2>15. CASE less.inodes[i].nlink # 0
    <3>1. w = FlushMetadata(less) BY <2>1, <2>15
    <3>2. w \in Volume /\ Clean(w) /\ Alike(less, w) /\ SameNames(less, w) /\ Alive(w) = Alive(less)
      BY <2>9, <2>13, <2>14, <3>1, FlushClean
    <3>3. \E y \in Entries(less) : InumOf(less)[y] = i
      <4>1. less.inodes[i].nlink = Cardinality({y \in Entries(less) : InumOf(less)[y] = i})
        BY <2>5, <2>12, <2>13 DEF Good, Counted
      <4>2. {y \in Entries(less) : InumOf(less)[y] = i} # {} BY <2>15, <4>1, FS_EmptySet
      <4> QED BY <4>2
    <3>4. Unlinked(v, w, <<d, p>>, n)
      BY <2>4, <2>5, <2>10, <2>12, <2>13, <3>2, <3>3 DEF Unlinked, Alike, SameNames
    <3>5. SameBytes(less, w, v.imap \cap w.imap) BY <3>2, BytesStay DEF Alike
    <3>6. SameBytes(v, w, v.imap \cap w.imap) BY <2>18, <3>5, BytesThen
    <3> QED BY <3>2, <3>4, <3>6
  <2>16. CASE less.inodes[i].nlink = 0
    <3> DEFINE t == Truncated(less, i)
               g == ReturnInode(t, i)
    <3>1. w = FlushMetadata(g) BY <2>1, <2>16
    <3>2. i \in less.imap /\ i \notin Alive(less) BY <2>5, <2>12, <2>13
    <3>3. /\ t \in Volume /\ Good(t) /\ SameNames(less, t) /\ Alive(t) = Alive(less)
          /\ t.imap = less.imap /\ t.meta = less.meta /\ t.blocks = less.blocks
          /\ less.dirty \subseteq t.dirty /\ (t.bmap # less.bmap => 1 \in t.dirty)
          /\ \A k \in Index : t.inodes[i].blk[k] = 0
          /\ t.inodes[i].type = less.inodes[i].type /\ t.inodes[i].nlink = less.inodes[i].nlink
          /\ \A j \in Inodes : j # i => t.inodes[j] = less.inodes[j]
      BY <2>9, <2>13, <3>2, TruncatedGood
    <3> HIDE DEF t
    <3>4. /\ g \in Volume /\ g.imap = t.imap \ {i} /\ g.bmap = t.bmap /\ g.inodes = t.inodes
          /\ g.blocks = t.blocks /\ g.meta = t.meta /\ g.dirty = t.dirty \cup {0}
      BY <3>3, InodeReturned
    <3> HIDE DEF g
    <3>5. \A y \in Entries(t) : InumOf(t)[y] # i BY <2>16, <3>2, <3>3, NoneLeft
    <3>6. Good(g) /\ SameNames(t, g) BY <3>2, <3>3, <3>4, <3>5, ReturnGood DEF SameNames
    <3>7. Marked(g)
      <4>1. Marked(t)
        <5>1. \A j \in Inodes : t.inodes[j] # less.inodes[j] => InodeBlk(j) \in t.dirty
          BY <2>12, <3>3
        <5> QED BY <2>14, <3>3, <5>1, MarkedStep
      <4> QED BY <3>4, <4>1, MarkedStep
    <3>8. Alive(g) = Alive(v)
      <4>1. Alive(t) = Alive(v) BY <2>13, <3>3
      <4>2. \A j : IsDir(g, j) <=> IsDir(t, j) BY <3>4 DEF IsDir
      <4> QED BY <2>5, <3>4, <4>1, <4>2 DEF Alive
    <3>9. w \in Volume /\ Clean(w) /\ Alike(g, w) /\ SameNames(g, w) /\ Alive(w) = Alive(g)
      BY <3>1, <3>4, <3>6, <3>7, FlushClean
    <3>10. \A j \in Inodes : w.inodes[j].type = v.inodes[j].type
      BY <2>10, <3>3, <3>4, <3>9 DEF Alike
    <3>11. w.imap = v.imap \ {i} BY <2>12, <3>3, <3>4, <3>9 DEF Alike
    <3>12. Entries(w) = Entries(less) /\ NameOf(w) = NameOf(less) /\ InumOf(w) = InumOf(less)
      BY <3>3, <3>6, <3>9 DEF SameNames
    <3>13. Unlinked(v, w, <<d, p>>, n)
      BY <2>4, <2>5, <2>13, <3>8, <3>9, <3>10, <3>11, <3>12 DEF Unlinked
    <3>14. \A j \in v.imap \cap w.imap : w.inodes[j] = less.inodes[j]
      BY <3>3, <3>4, <3>9, <3>11, VolumeFacts DEF Alike
    <3>15. SameBytes(less, w, v.imap \cap w.imap)
      BY <3>3, <3>4, <3>9, <3>14, BytesStay DEF Alike
    <3>16. SameBytes(v, w, v.imap \cap w.imap) BY <2>18, <3>15, BytesThen
    <3> QED BY <3>9, <3>13, <3>16
  <2> QED BY <2>15, <2>16
<1> QED BY <1>1, <1>2

\* The entry z of v is gone, with the empty directory it named.
Removed(v, w, z, n) ==
  /\ z \in Entries(v) /\ NameOf(v)[z] = n /\ InumOf(v)[z] \in Alive(v) /\ InumOf(v)[z] # z[1]
  /\ w.imap = v.imap \ {InumOf(v)[z]} /\ Alive(w) = Alive(v) \ {InumOf(v)[z]}
  /\ Entries(w) = {x \in Entries(v) : x # z /\ x[1] # InumOf(v)[z]}
  /\ \A x \in Entries(w) : NameOf(w)[x] = NameOf(v)[x] /\ InumOf(w)[x] = InumOf(v)[x]
  /\ \A x \in Entries(v) : x[1] = InumOf(v)[z] => NameOf(v)[x] \in {Dot, DotDot}
  /\ \A j \in Inodes : w.inodes[j].type = v.inodes[j].type

LEMMA RmdirClean ==
  ASSUME NEW v \in Volume, Clean(v), Whole(v), NEW d \in Alive(v), NEW n \in Leaf,
         NEW r, r = RmdirCall(v, d, n), NEW w, w = r.vol
  PROVE  /\ w \in Volume /\ Clean(w) /\ SameBytes(v, w, v.imap \cap w.imap)
         /\ w = v \/ \E p \in Places : Removed(v, w, <<d, p>>, n)
<1> DEFINE i == Target(v, d, n)
           dropped == Dropped(v, d, n)
           gone == [dropped EXCEPT !.inodes[d].nlink = LinkLess(@)]
           t == Truncated(gone, i)
           m == MarkInode(t, i)
           g == ReturnInode(m, i)
<1>1. CASE Found(v, d, n) = {} \/ ~IsDir(v, i) \/ ~IsDirEmpty(v, i)
  <2>1. w = v BY <1>1 DEF RmdirCall, Fail
  <2> QED BY <2>1, BytesStay
<1>2. CASE Found(v, d, n) # {} /\ IsDir(v, i) /\ IsDirEmpty(v, i)
  <2>1. w = FlushMetadata(g) BY <1>2 DEF RmdirCall, Done
  <2>2. Good(v) /\ Marked(v) /\ n \in Names /\ d \in Inodes
        /\ Dot \in Names /\ DotDot \in Names /\ Dot \notin Leaf /\ DotDot \notin Leaf
    BY AliveInodes, NamesAssumption DEF Clean, Names
  <2>3. /\ dropped \in Volume /\ dropped.imap = v.imap /\ dropped.bmap = v.bmap
        /\ dropped.meta = v.meta /\ dropped.dirty = v.dirty \cup {InodeBlk(d)}
        /\ dropped.inodes[d] = [v.inodes[d] EXCEPT !.size = IF @ = 0 THEN 0 ELSE @ - 1]
        /\ \A j \in Inodes : j # d => dropped.inodes[j] = v.inodes[j]
    BY <1>2, <2>2, DropEntryIs
  <2>4. PICK p \in Places : /\ <<d, p>> \in Entries(v) /\ NameOf(v)[<<d, p>>] = n
                            /\ InumOf(v)[<<d, p>>] = i /\ Replaced(v, dropped, d, p, FreeSlot)
                            /\ v.inodes[d].blk[BlkIx(p)] # 0
    <3> HIDE DEF dropped
    <3>1. dropped = Dropped(v, d, n) BY DEF dropped
    <3>2. PICK q \in Places : /\ q = Least(Found(v, d, n)) /\ Found(v, d, n) = {q}
                              /\ <<d, q>> \in Entries(v) /\ NameOf(v)[<<d, q>>] = n
                              /\ InumOf(v)[<<d, q>>] = Target(v, d, n)
                              /\ v.inodes[d].blk[BlkIx(q)] # 0 /\ Replaced(v, dropped, d, q, FreeSlot)
      BY <1>2, <2>2, <3>1, DropEntryIs
    <3> QED BY <3>2
  <2> HIDE DEF dropped, i
  <2>5. i \in v.imap /\ i \in Inodes /\ i \in Alive(v)
    BY <1>2, <2>4, CountsPositive, <2>2, AliveInodes DEF Alive
  <2>6. PICK x \in Entries(v) : x[1] = i /\ NameOf(v)[x] = Dot
    <3>1. Found(v, i, Dot) # {} BY <2>5 DEF Whole
    <3>2. \E q \in Places : <<i, q>> \in Entries(v) /\ NameOf(v)[<<i, q>>] = Dot
      BY <2>2, <2>5, <3>1, FoundAt
    <3> QED BY <3>2
  <2>7. PICK y \in Entries(v) : y[1] = i /\ NameOf(v)[y] = DotDot
    <3>1. Found(v, i, DotDot) # {} BY <2>5 DEF Whole
    <3>2. \E q \in Places : <<i, q>> \in Entries(v) /\ NameOf(v)[<<i, q>>] = DotDot
      BY <2>2, <2>5, <3>1, FoundAt
    <3> QED BY <3>2
  <2>8. v.inodes[i].size = 2
    <3>1. Prefixes(v) BY <2>2, PointersFirst DEF Good
    <3>2. x = <<i, x[2]>> /\ x[2] \in Places BY <2>6, EntryPairs
    <3> DEFINE p2 == x[2]
    <3>6. <<i, p2>> \in Entries(v) BY <2>6, <3>2, Zenon
    <3>8. p2 \in Places /\ BlkIx(p2) \in Index BY <3>2, PlacesArePairs
    <3> HIDE DEF p2
    <3>3. v.inodes[i].blk[BlkIx(p2)] # 0 /\ BlkIx(p2) \in Index
      BY <2>5, <3>1, <3>6, <3>8, EntryIff
    <3>7. BlkIx(p2) \in Nat BY <3>3, PlacesArePairs
    <3>4. BlkIx(p2) = 0 \/ 0 < BlkIx(p2) BY <3>7
    <3>5. v.inodes[i].blk[0] # 0
      BY <2>5, <3>1, <3>3, <3>4, PlacesArePairs DEF Prefixes, Prefix
    <3> QED BY <1>2, <3>5 DEF IsDirEmpty
  <2>9. \A z \in Entries(v) : z[1] = i => NameOf(v)[z] \in {Dot, DotDot}
    BY <2>2, <2>5, <2>6, <2>7, <2>8, OnlyDots
  <2>10. i # d
    <3>1. <<d, p>>[1] = d OBVIOUS
    <3> QED BY <2>2, <2>4, <2>9, <3>1
  <2> DEFINE c == [dropped.inodes[d] EXCEPT !.nlink = LinkLess(@)]
  <2>11. c \in Inode
    <3>1. dropped.inodes[d] \in Inode BY <2>2, <2>3, VolumeFacts
    <3>2. LinkLess(dropped.inodes[d].nlink) \in 0 .. MaxNlink BY <3>1, LinkTypes DEF Inode
    <3> QED BY <3>1, <3>2 DEF Inode
  <2> HIDE DEF c
  <2>12. gone = WithNode(dropped, d, c) BY DEF WithNode, c
  <2> HIDE DEF gone
  <2>13. /\ gone \in Volume /\ gone.inodes[d] = c
         /\ \A j \in Inodes : j # d => gone.inodes[j] = dropped.inodes[j]
         /\ gone.imap = dropped.imap /\ gone.bmap = dropped.bmap /\ gone.dirty = dropped.dirty
         /\ gone.meta = dropped.meta /\ gone.blocks = dropped.blocks
    BY <2>2, <2>3, <2>11, <2>12, NodeSet
  <2>14. gone.inodes[i] = v.inodes[i] /\ gone.inodes[i].size # 0
    BY <2>3, <2>5, <2>8, <2>10, <2>13
  <2>15. /\ t \in Volume /\ t.imap = gone.imap /\ t.meta = gone.meta /\ t.blocks = gone.blocks
         /\ t.bmap = gone.bmap \ {gone.inodes[i].blk[k] : k \in Index}
         /\ gone.dirty \subseteq t.dirty /\ (t.bmap # gone.bmap => 1 \in t.dirty)
         /\ \A k \in Index : t.inodes[i].blk[k] = 0
         /\ t.inodes[i].type = gone.inodes[i].type
         /\ \A j \in Inodes : j # i => t.inodes[j] = gone.inodes[j]
    BY <2>5, <2>13, <2>14, TruncatedIs
  <2> HIDE DEF t
  <2>16. m \in Volume /\ Alike(t, m) /\ m.dirty = t.dirty \cup {InodeBlk(i)} /\ m.meta = t.meta
    BY <2>5, <2>15, InodeMarked
  <2> HIDE DEF m
  <2>17. /\ g \in Volume /\ g.imap = m.imap \ {i} /\ g.bmap = m.bmap /\ g.inodes = m.inodes
         /\ g.blocks = m.blocks /\ g.meta = m.meta /\ g.dirty = m.dirty \cup {0}
    BY <2>16, InodeReturned
  <2> HIDE DEF g
  <2>18. /\ g.imap = v.imap \ {i} /\ g.meta = v.meta
         /\ g.bmap = v.bmap \ {v.inodes[i].blk[k] : k \in Index}
         /\ \A k \in Index : g.inodes[i].blk[k] = 0
         /\ g.inodes[i].type = v.inodes[i].type
         /\ \A j \in Inodes : j # i /\ j # d => g.inodes[j] = v.inodes[j]
         /\ g.inodes[d] = c
    BY <2>2, <2>3, <2>10, <2>13, <2>14, <2>15, <2>16, <2>17 DEF Alike
  <2>19. \A j \in Inodes : j # i =>
           /\ g.inodes[j].blk = v.inodes[j].blk /\ g.inodes[j].type = v.inodes[j].type
           /\ g.inodes[j].nlink = IF j = d THEN LinkLess(v.inodes[j].nlink) ELSE v.inodes[j].nlink
           /\ g.inodes[j].size = IF j = d THEN (IF v.inodes[j].size = 0 THEN 0 ELSE v.inodes[j].size - 1)
                                 ELSE v.inodes[j].size
    <3>1. v.inodes[d] \in Inode BY <2>2, VolumeFacts
    <3>2. /\ c.blk = v.inodes[d].blk /\ c.type = v.inodes[d].type
          /\ c.nlink = LinkLess(v.inodes[d].nlink)
          /\ c.size = IF v.inodes[d].size = 0 THEN 0 ELSE v.inodes[d].size - 1
      BY <2>3, <3>1 DEF c, Inode
    <3> QED BY <2>18, <3>2
  <2>20. SlotSet(v, g, d, p, FreeSlot)
    BY <2>4, <2>13, <2>15, <2>16, <2>17 DEF Replaced, SlotSet, Alike
  <2>21. /\ Good(g) /\ Alive(g) = Alive(v) \ {i}
         /\ Entries(g) = {z \in Entries(v) : z # <<d, p>> /\ z[1] # i}
         /\ \A z \in Entries(g) : NameOf(g)[z] = NameOf(v)[z] /\ InumOf(g)[z] = InumOf(v)[z]
    BY <2>2, <2>4, <2>5, <2>6, <2>7, <2>8, <2>17, <2>18, <2>19, <2>20, RmdirGood
  <2>22. Marked(g)
    <3>1. v.dirty \subseteq g.dirty /\ {InodeBlk(i), InodeBlk(d), 0} \subseteq g.dirty
      BY <2>3, <2>13, <2>15, <2>16, <2>17
    <3>2. g.bmap # v.bmap => 1 \in g.dirty BY <2>3, <2>13, <2>15, <2>16, <2>17 DEF Alike
    <3> QED BY <2>2, <2>18, <3>1, <3>2, MarkedStep
  <2>23. w \in Volume /\ Clean(w) /\ Alike(g, w) /\ SameNames(g, w) /\ Alive(w) = Alive(g)
    BY <2>1, <2>17, <2>21, <2>22, FlushClean
  <2>24. Removed(v, w, <<d, p>>, n)
    <3>1. <<d, p>>[1] = d OBVIOUS
    <3>2. \A j \in Inodes : w.inodes[j].type = v.inodes[j].type
      BY <2>18, <2>19, <2>23 DEF Alike
    <3> QED BY <2>4, <2>5, <2>9, <2>10, <2>18, <2>21, <2>23, <3>1, <3>2 DEF Removed, Alike, SameNames
  <2>25. SameBytes(v, w, v.imap \cap w.imap)
    <3>1. \A j \in v.imap : j # d => /\ dropped.inodes[j].type = v.inodes[j].type
                                     /\ dropped.inodes[j].size = v.inodes[j].size
      BY <2>3, VolumeFacts
    <3>2. SameBytes(v, dropped, v.imap) BY <2>2, <2>4, <3>1, SlotBytes
    <3>3. SameBytes(v, dropped, v.imap \cap w.imap) BY <3>2 DEF SameBytes
    <3>4. dropped.inodes[d].type = "dir"
      <4>1. v.inodes[d].type = "dir" /\ v.inodes[d] \in Inode BY <2>2, AliveInodes, VolumeFacts
      <4> QED BY <2>3, <4>1 DEF Inode
    <3>5. \A j \in v.imap \cap w.imap :
            dropped.inodes[j].type # "dir" => w.inodes[j] = dropped.inodes[j]
      BY <2>3, <2>18, <2>23, <3>4, VolumeFacts DEF Alike
    <3>6. w.blocks = dropped.blocks BY <2>13, <2>15, <2>16, <2>17, <2>23 DEF Alike
    <3>7. SameBytes(dropped, w, v.imap \cap w.imap) BY <3>5, <3>6, BytesStay
    <3> QED BY <3>3, <3>7, BytesThen
  <2> QED BY <2>23, <2>24, <2>25
<1> QED BY <1>1, <1>2

-----------------------------------------------------------------------------
(* The calls that add a name. *)

NewType(t) == t \in {"dir", "file", "link"}

LEMMA InodeTaken ==
  ASSUME NEW v \in Volume, NEW i \in Inodes, NEW t, NewType(t),
         NEW w, w = InitNewInode(v, i, t)
  PROVE  /\ w \in Volume /\ w.imap = v.imap \cup {i} /\ w.bmap = v.bmap /\ w.blocks = v.blocks
         /\ w.meta = v.meta /\ w.dirty = v.dirty \cup {0, InodeBlk(i)}
         /\ w.inodes[i] = NewInode(t, v.inodes[i].blk)
         /\ \A j \in Inodes : j # i => w.inodes[j] = v.inodes[j]
<1> DEFINE I == v.imap \cup {i}
           D == v.dirty \cup {0}
           m == NewInode(t, v.inodes[i].blk)
           u == [v EXCEPT !.imap = I, !.dirty = D, !.inodes[i] = m]
<1>1. w = MarkInode(u, i) BY DEF InitNewInode
<1>2. I \in SUBSET Inodes /\ D \in SUBSET Nat BY DEF Volume
<1>3. m \in Inode
  <2>1. v.inodes[i].blk \in [Index -> 0 .. NBlocks] BY VolumeFacts
  <2>2. 0 \in 0 .. MaxNlink BY SizesAssumption
  <2> QED BY <2>1, <2>2 DEF NewType, NewInode, Inode
<1> HIDE DEF I, D, m
<1>4. /\ u \in Volume /\ u.imap = I /\ u.bmap = v.bmap /\ u.blocks = v.blocks /\ u.meta = v.meta
      /\ u.dirty = D /\ u.inodes = [v.inodes EXCEPT ![i] = m]
  BY <1>2, <1>3 DEF Volume
<1>5. u.inodes[i] = m /\ \A j \in Inodes : j # i => u.inodes[j] = v.inodes[j]
  BY <1>4 DEF Volume
<1> HIDE DEF u
<1>6. w \in Volume /\ Alike(u, w) /\ w.dirty = u.dirty \cup {InodeBlk(i)} /\ w.meta = u.meta
  BY <1>1, <1>4, InodeMarked
<1> QED BY <1>4, <1>5, <1>6 DEF Alike, I, D, m

\* What no call changes: what an inode is as long as it is allocated, and . and ..
\* as long as their directory is.
LEMMA NamesKept ==
  ASSUME NEW v, NEW w, SameNames(v, w),
         \A i \in v.imap : w.inodes[i].type = v.inodes[i].type
  PROVE  KeepsDots(v, w)
BY DEF SameNames, KeepsDots

\* The volume v with the entry n of d, at the position p, for the inode i it had.
Named(v, w, d, p, n, i) ==
  /\ w.imap = v.imap /\ Alive(w) = Alive(v)
  /\ <<d, p>> \notin Entries(v) /\ Entries(w) = Entries(v) \cup {<<d, p>>}
  /\ NameOf(w)[<<d, p>>] = n /\ InumOf(w)[<<d, p>>] = i
  /\ \A x \in Entries(v) : NameOf(w)[x] = NameOf(v)[x] /\ InumOf(w)[x] = InumOf(v)[x]
  /\ \A j \in Inodes : w.inodes[j].type = v.inodes[j].type

\* link: the name goes in, or nothing changes.
LEMMA MkLinkClean ==
  ASSUME NEW v \in Volume, Clean(v), NEW d \in Alive(v), NEW i \in v.imap, NEW n \in Names,
         Found(v, d, n) = {} => MayEnter(v, d, n, i),
         NEW r, r = MkLink(v, i, d, n), NEW w, w = r.vol
  PROVE  /\ w \in Volume /\ Clean(w) /\ r.ok \in BOOLEAN /\ SameBytes(v, w, v.imap)
         /\ (~r.ok => w = v)
         /\ (r.ok => \E p \in Places : Named(v, w, d, p, n, i))
         /\ Found(v, d, n) = {} /\ WithFreeEntry(v, d).ok => r.ok
<1> DEFINE room == WithFreeEntry(v, d)
           u == room.vol
<1>1. IsDir(v, d) BY DEF Alive
<1>2. /\ u \in Volume /\ Clean(u) /\ Grown(v, u, d)
      /\ room.ok \in BOOLEAN /\ (~room.ok => u = v)
      /\ (room.ok => FreePositions(u, d) # {})
      /\ (FreePositions(v, d) # {} => room.ok)
  BY WithFreeEntryGood
<1>3. CASE Found(v, d, n) # {} \/ ~room.ok
  <2>1. ~r.ok /\ r.ok \in BOOLEAN /\ w = v BY <1>1, <1>2, <1>3 DEF MkLink, Fail
  <2>2. ~(Found(v, d, n) = {} /\ WithFreeEntry(v, d).ok) BY <1>3
  <2> HIDE DEF room
  <2> QED BY <2>1, <2>2, BytesStay
<1>4. CASE Found(v, d, n) = {} /\ room.ok
  <2>1. r.ok /\ w = AddEntry(u, d, i, n) BY <1>1, <1>4 DEF MkLink, Done
  <2> HIDE DEF u, room
  <2>2. /\ u.imap = v.imap /\ Alive(u) = Alive(v) /\ SameNames(v, u)
        /\ \A j \in Inodes : u.inodes[j].type = v.inodes[j].type
    BY <1>2 DEF Grown
  <2>3. MayEnter(u, d, n, i) BY <1>4, <2>2 DEF MayEnter, SameNames
  <2>4. Good(u) /\ Marked(u) BY <1>2 DEF Clean
  <2>5. /\ w \in Volume /\ Clean(w) /\ w.bmap = u.bmap /\ SameBytes(u, w, u.imap)
        /\ \E p \in Places : Entered(u, w, d, p, n, i)
    BY <1>2, <1>4, <2>1, <2>2, <2>3, <2>4, AddEntryClean
  <2>6. PICK p \in Places : Entered(u, w, d, p, n, i) BY <2>5
  <2>7. Named(v, w, d, p, n, i) BY <2>2, <2>6 DEF Entered, Named, SameNames
  <2>8. SameBytes(v, u, v.imap) BY <1>2, GrownBytes DEF Clean
  <2>9. SameBytes(v, w, v.imap) BY <2>2, <2>5, <2>8, BytesThen
  <2> QED BY <2>1, <2>5, <2>7, <2>9
<1> QED BY <1>2, <1>3, <1>4

\* The volume v with the inode i, of type t, and its only name, the entry n of d.
Made(v, w, d, p, n, i, t) ==
  /\ w.imap = v.imap \cup {i} /\ Alive(w) = Alive(v) \cup IF t = "dir" THEN {i} ELSE {}
  /\ <<d, p>> \notin Entries(v) /\ Entries(w) = Entries(v) \cup {<<d, p>>}
  /\ NameOf(w)[<<d, p>>] = n /\ InumOf(w)[<<d, p>>] = i
  /\ \A x \in Entries(v) : NameOf(w)[x] = NameOf(v)[x] /\ InumOf(w)[x] = InumOf(v)[x]
  /\ \A j \in v.imap : w.inodes[j].type = v.inodes[j].type
  /\ w.inodes[i].type = t /\ w.inodes[i].size = 0 /\ \A k \in Index : w.inodes[i].blk[k] = 0

\* A directory is extended by one block.
LEMMA OneTaken ==
  ASSUME NEW v \in Volume, NEW d \in Inodes
  PROVE  \E b : WithFreeEntry(v, d).vol.bmap \subseteq v.bmap \cup {b}
<1> DEFINE k == DirBlks(v, d)
<1>1. CASE FreePositions(v, d) # {}
  BY <1>1 DEF WithFreeEntry, Done
<1>2. CASE FreePositions(v, d) = {}
  <2>1. WithFreeEntry(v, d) = WithBlk(v, d, k) BY <1>2 DEF WithFreeEntry
  <2> HIDE DEF k
  <2>2. CASE (k < MaxBlks /\ v.inodes[d].blk[k] # 0) \/ k >= MaxBlks \/ FreeBlks(v) = {}
    <3>1. WithBlk(v, d, k).vol = v BY <2>2 DEF WithBlk, Done, Fail
    <3> QED BY <2>1, <3>1
  <2>3. CASE ~((k < MaxBlks /\ v.inodes[d].blk[k] # 0) \/ k >= MaxBlks \/ FreeBlks(v) = {})
    <3> DEFINE b == Least(FreeBlks(v))
               B == v.bmap \cup {b}
               u == [v EXCEPT !.bmap = B, !.dirty = @ \cup {1},
                              !.inodes[d].blk[k] = b, !.blocks[b] = Zeros]
    <3>1. WithBlk(v, d, k).vol = MarkInode(u, d) BY <2>3 DEF WithBlk, Done
    <3> HIDE DEF b
    <3>2. MarkInode(u, d).bmap = B BY DEF Volume, MarkInode
    <3> QED BY <2>1, <3>1, <3>2
  <2> QED BY <2>2, <2>3
<1> QED BY <1>1, <1>2

LEMMA MkEntryClean ==
  ASSUME NEW v \in Volume, Clean(v), NEW d \in Alive(v), NEW n \in Leaf,
         NEW t \in {"dir", "file", "link"}, NEW r, r = MkEntry(v, d, n, t), NEW w, w = r.vol
  PROVE  /\ w \in Volume /\ Clean(w) /\ r.ok \in BOOLEAN /\ SameBytes(v, w, v.imap)
         /\ (~r.ok => w = v \/ Grown(v, w, d))
         /\ (r.ok => \E i \in Inodes \ v.imap, p \in Places : Made(v, w, d, p, n, i, t))
         /\ \E b : w.bmap \subseteq v.bmap \cup {b}
<1> DEFINE room == WithFreeEntry(v, d)
           u == room.vol
           i == Least(FreeInodes(v))
<1>1. d \in v.imap /\ n \in Names /\ n \notin {Dot, DotDot}
  BY AliveInodes, NamesAssumption DEF Names
<1>2. /\ u \in Volume /\ Clean(u) /\ Grown(v, u, d)
      /\ room.ok \in BOOLEAN /\ (~room.ok => u = v)
      /\ (room.ok => FreePositions(u, d) # {})
  BY WithFreeEntryGood
<1>6. \E b : u.bmap \subseteq v.bmap \cup {b}
  <2>1. d \in Inodes BY AliveInodes
  <2> QED BY <2>1, OneTaken
<1>3. CASE Found(v, d, n) # {}
  <2>1. ~r.ok /\ r.ok \in BOOLEAN /\ w = v BY <1>3 DEF MkEntry, Fail
  <2>2. w.bmap \subseteq v.bmap \cup {0} BY <2>1
  <2> QED BY <2>1, <2>2, BytesStay
<1>4. CASE Found(v, d, n) = {} /\ (~room.ok \/ FreeInodes(v) = {})
  <2>1. ~r.ok /\ r.ok \in BOOLEAN /\ w = u BY <1>4 DEF MkEntry, Fail
  <2> HIDE DEF room, u
  <2>2. SameBytes(v, w, v.imap) BY <1>2, <2>1, GrownBytes DEF Clean
  <2> QED BY <1>2, <1>6, <2>1, <2>2
<1>5. CASE Found(v, d, n) = {} /\ room.ok /\ FreeInodes(v) # {}
  <2>1. r.ok /\ w = AddEntry(InitNewInode(u, i, t), d, i, n) BY <1>5 DEF MkEntry, Done
  <2>2. i \in Inodes \ v.imap
    <3>1. FreeInodes(v) \subseteq Nat BY DEF FreeInodes, Inodes
    <3> QED BY <1>5, <3>1, LeastIn DEF FreeInodes
  <2>3. FreePositions(u, d) # {} BY <1>2, <1>5
  <2> HIDE DEF room, u, i
  <2>4. /\ u.imap = v.imap /\ Alive(u) = Alive(v) /\ SameNames(v, u)
        /\ \A j \in Inodes : u.inodes[j].type = v.inodes[j].type
    BY <1>2 DEF Grown
  <2>19. PICK a : a = InitNewInode(u, i, t) OBVIOUS
  <2>5. /\ a \in Volume /\ a.imap = u.imap \cup {i} /\ a.bmap = u.bmap /\ a.blocks = u.blocks
        /\ a.meta = u.meta /\ a.dirty = u.dirty \cup {0, InodeBlk(i)}
        /\ a.inodes[i] = NewInode(t, u.inodes[i].blk)
        /\ \A j \in Inodes : j # i => a.inodes[j] = u.inodes[j]
    <3>1. u \in Volume /\ NewType(t) /\ i \in Inodes BY <1>2, <2>2 DEF NewType
    <3>2. u \in Volume BY <3>1
    <3>3. i \in Inodes BY <3>1
    <3>4. NewType(t) BY <3>1
    <3> QED BY <2>19, <3>2, <3>3, <3>4, InodeTaken
  <2>6. Good(u) /\ Marked(u) BY <1>2 DEF Clean
  <2>7. Good(a) /\ SameNames(u, a) BY <1>2, <2>2, <2>4, <2>5, <2>6, TakeGood DEF SameNames
  <2>8. Marked(a) BY <2>5, <2>6, MarkedStep
  <2>9. a.inodes[i].type = t /\ a.inodes[i].size = 0 /\ a.inodes[i].blk = u.inodes[i].blk
    BY <2>5 DEF NewInode
  <2>10. \A k \in Index : a.inodes[i].blk[k] = 0
    BY <2>2, <2>4, <2>6, <2>9 DEF Good, Pointers
  <2>11. Alive(a) = Alive(v) \cup IF t = "dir" THEN {i} ELSE {}
    <3>1. \A j \in v.imap : j \in Alive(a) <=> j \in Alive(v)
      BY <2>2, <2>4, <2>5, VolumeFacts DEF Alive, IsDir
    <3>2. i \in Alive(a) <=> t = "dir" BY <2>5, <2>9 DEF Alive, IsDir
    <3>3. Alive(a) \subseteq v.imap \cup {i} /\ Alive(v) \subseteq v.imap
      BY <2>4, <2>5 DEF Alive
    <3> QED BY <3>1, <3>2, <3>3
  <2>12. d # i /\ d \in Inodes BY <1>1, <2>2, AliveInodes
  <2>13. FreePositions(a, d) = FreePositions(u, d)
    <3>1. a.inodes[d] = u.inodes[d] BY <2>5, <2>12
    <3> QED BY <2>5, <3>1 DEF FreePositions, Found, Positions, DirBlks, Slot
  <2>14. MayEnter(a, d, n, i)
    <3>1. \A x \in Entries(v) : x[1] = d => NameOf(v)[x] # n
      BY <1>1, <1>5, FoundAt DEF Clean
    <3>2. \A x \in Entries(v) : InumOf(v)[x] \in v.imap /\ x[1] \in Alive(v)
      BY DEF Clean, Good, Linked
    <3>3. i # Root BY <2>2 DEF Clean, Good, Linked, Alive
    <3> QED BY <1>1, <2>2, <2>4, <2>7, <3>1, <3>2, <3>3 DEF MayEnter, SameNames
  <2>15. d \in Alive(a) /\ i \in a.imap BY <2>5, <2>11
  <2>16. /\ w \in Volume /\ Clean(w) /\ w.bmap = a.bmap /\ SameBytes(a, w, a.imap)
         /\ \E p \in Places : Entered(a, w, d, p, n, i)
    <3>1. /\ a \in Volume /\ Good(a) /\ Marked(a) /\ d \in Alive(a) /\ i \in a.imap /\ n \in Names
          /\ FreePositions(a, d) # {} /\ MayEnter(a, d, n, i) /\ w = AddEntry(a, d, i, n)
      BY <1>1, <2>1, <2>3, <2>5, <2>7, <2>8, <2>13, <2>14, <2>15, <2>19
    <3> QED BY <3>1, AddEntryClean
  <2>17. PICK p \in Places : Entered(a, w, d, p, n, i) BY <2>16
  <2>18. Made(v, w, d, p, n, i, t)
    <3>1. /\ w.imap = v.imap \cup {i} /\ Alive(w) = Alive(a)
          /\ \A j \in Inodes : w.inodes[j].type = a.inodes[j].type /\ w.inodes[j].blk = a.inodes[j].blk
          /\ \A j \in Inodes : j # d => w.inodes[j].size = a.inodes[j].size
      BY <2>4, <2>5, <2>17 DEF Entered
    <3>2. /\ <<d, p>> \notin Entries(v) /\ Entries(w) = Entries(v) \cup {<<d, p>>}
          /\ NameOf(w)[<<d, p>>] = n /\ InumOf(w)[<<d, p>>] = i
          /\ \A x \in Entries(v) : NameOf(w)[x] = NameOf(v)[x] /\ InumOf(w)[x] = InumOf(v)[x]
      BY <2>4, <2>7, <2>17 DEF Entered, SameNames
    <3>3. \A j \in v.imap : w.inodes[j].type = v.inodes[j].type
      BY <2>2, <2>4, <2>5, <3>1, VolumeFacts
    <3>4. w.inodes[i].type = t /\ w.inodes[i].size = 0 /\ \A k \in Index : w.inodes[i].blk[k] = 0
      BY <2>2, <2>9, <2>10, <2>12, <3>1
    <3> QED BY <2>11, <3>1, <3>2, <3>3, <3>4 DEF Made
  <2>20. \E b : w.bmap \subseteq v.bmap \cup {b} BY <1>6, <2>5, <2>16
  <2>21. SameBytes(v, w, v.imap)
    <3>1. SameBytes(v, u, v.imap) BY <1>2, GrownBytes DEF Clean
    <3>2. \A j \in v.imap : a.inodes[j] = u.inodes[j] BY <2>2, <2>5, VolumeFacts
    <3>3. SameBytes(u, a, v.imap) BY <2>5, <3>2, BytesStay
    <3>4. SameBytes(v, a, v.imap) BY <3>1, <3>3, BytesThen
    <3>5. v.imap \subseteq a.imap BY <2>4, <2>5
    <3> QED BY <2>16, <3>4, <3>5, BytesThen
  <2> QED BY <2>1, <2>2, <2>16, <2>18, <2>20, <2>21
<1> QED BY <1>2, <1>3, <1>4, <1>5

\* A directory that has no block gets one, and it has room for an entry more.
LEMMA RoomFirst ==
  ASSUME NEW v \in Volume, Good(v), NEW d \in Alive(v), FreeBlks(v) # {},
         \A k \in Index : v.inodes[d].blk[k] = 0
  PROVE  WithFreeEntry(v, d).ok
<1>1. Prefix(v.inodes[d].blk) BY DEF Prefix
<1>2. DirBlks(v, d) = 0
  <2>1. DirBlks(v, d) \in Nat /\ \A k \in Index : k < DirBlks(v, d) <=> v.inodes[d].blk[k] # 0
    BY <1>1, CountBlks
  <2>2. 0 \in Index BY PlacesArePairs
  <2> QED BY <2>1, <2>2
<1>3. FreePositions(v, d) = {}
  <2>1. ASSUME NEW p \in FreePositions(v, d) PROVE p \in Places /\ v.inodes[d].blk[BlkIx(p)] # 0
    BY FreeIs
  <2> QED BY <2>1, PlacesArePairs
<1>4. MaxBlks > 0 /\ MaxBlks \in Nat /\ 0 \in Index BY SizesAssumption, PlacesArePairs
<1>5. WithBlk(v, d, 0).ok BY <1>4 DEF WithBlk, Done
<1> QED BY <1>2, <1>3, <1>5 DEF WithFreeEntry

LEMMA RoomNext ==
  ASSUME NEW v \in Volume, Good(v), NEW d \in Alive(v), NEW q \in Places, <<d, q>> \in Entries(v),
         \A x \in Entries(v) : x[1] = d => x = <<d, q>>
  PROVE  FreePositions(v, d) # {}
<1>1. Prefixes(v) BY PointersFirst DEF Good
<1>2. v.inodes[d].blk[BlkIx(q)] # 0 BY <1>1, EntryIff
<1>3. BlkIx(q) \in Index /\ SlotIx(q) \in Slots BY PlacesArePairs
<1>4. PICK s \in Slots : s # SlotIx(q)
  <2>1. 0 \in Slots /\ 1 \in Slots BY SizesAssumption DEF Slots
  <2> QED BY <2>1
<1>5. PICK p \in Places : BlkIx(p) = BlkIx(q) /\ SlotIx(p) = s BY <1>3, PlacesArePairs
<1>6. <<d, p>> # <<d, q>> BY <1>4, <1>5
<1>7. <<d, p>> \notin Entries(v)
  <2>1. <<d, p>>[1] = d OBVIOUS
  <2> QED BY <1>6, <2>1
<1>8. Slot(v, d, p).name = NoName BY <1>1, <1>2, <1>5, <1>7, EntryIff
<1> QED BY <1>2, <1>5, <1>8, FreeIs

\* Every directory has its . and .. after a call that keeps those there are.
LEMMA WholeKept ==
  ASSUME NEW v \in Volume, NEW w \in Volume, Good(v), Good(w), Whole(v), KeepsDots(v, w),
         \A d \in Alive(w) \ Alive(v) : Found(w, d, Dot) # {} /\ Found(w, d, DotDot) # {}
  PROVE  Whole(w)
<1>1. Dot \in Names /\ DotDot \in Names BY DEF Names
<1>2. ASSUME NEW d \in Alive(w) \cap Alive(v), NEW n \in {Dot, DotDot}
      PROVE  Found(w, d, n) # {}
  <2>1. Found(v, d, n) # {} /\ n \in Names BY <1>1 DEF Whole
  <2>2. PICK p \in Places : <<d, p>> \in Entries(v) /\ NameOf(v)[<<d, p>>] = n
    BY <2>1, FoundAt
  <2>3. <<d, p>>[1] = d OBVIOUS
  <2>4. <<d, p>> \in Entries(w) /\ NameOf(w)[<<d, p>>] = n BY <2>2, <2>3 DEF KeepsDots
  <2> QED BY <2>1, <2>3, <2>4, FoundAt
<1> QED BY <1>2 DEF Whole

\* Two blocks are free: one for a name, one for the . and .. it may need.
Roomy(v) == \E a, b \in FreeBlks(v) : a # b

\* The volume v with the inode i, of type t, which the entry n of d names, and in
\* which . and .. may be.
Created(v, w, d, p, n, i, t) ==
  /\ w.imap = v.imap \cup {i} /\ Alive(w) = Alive(v) \cup IF t = "dir" THEN {i} ELSE {}
  /\ <<d, p>> \in Entries(w) \ Entries(v) /\ NameOf(w)[<<d, p>>] = n /\ InumOf(w)[<<d, p>>] = i
  /\ Entries(v) \subseteq Entries(w)
  /\ \A x \in Entries(v) : NameOf(w)[x] = NameOf(v)[x] /\ InumOf(w)[x] = InumOf(v)[x]
  /\ \A x \in Entries(w) \ Entries(v) :
       x = <<d, p>> \/ (x[1] = i /\ NameOf(w)[x] \in {Dot, DotDot})
  /\ \A j \in v.imap : w.inodes[j].type = v.inodes[j].type
  /\ w.inodes[i].type = t

LEMMA CreatedKeeps ==
  ASSUME NEW v, NEW w, NEW d, NEW p, NEW n, NEW i, NEW t, Created(v, w, d, p, n, i, t)
  PROVE  KeepsDots(v, w)
BY DEF Created, KeepsDots

LEMMA MadeCreated ==
  ASSUME NEW v, NEW w, NEW d, NEW p, NEW n, NEW i, NEW t, Made(v, w, d, p, n, i, t)
  PROVE  Created(v, w, d, p, n, i, t)
BY DEF Created, Made

\* mknod
LEMMA MknodClean ==
  ASSUME NEW v \in Volume, Clean(v), NEW d \in Alive(v), NEW n \in Leaf,
         NEW w, w = MkEntry(v, d, n, "file").vol
  PROVE  /\ w \in Volume /\ Clean(w) /\ KeepsDots(v, w) /\ (Whole(v) => Whole(w))
         /\ SameBytes(v, w, v.imap)
         /\ \/ SameNames(v, w) /\ w.imap = v.imap /\ Alive(w) = Alive(v)
            \/ \E i \in Inodes \ v.imap, p \in Places : Created(v, w, d, p, n, i, "file")
<1> DEFINE r == MkEntry(v, d, n, "file")
<1>1. /\ w \in Volume /\ Clean(w) /\ r.ok \in BOOLEAN /\ SameBytes(v, w, v.imap)
      /\ (~r.ok => w = v \/ Grown(v, w, d))
      /\ (r.ok => \E i \in Inodes \ v.imap, p \in Places : Made(v, w, d, p, n, i, "file"))
  <2>1. "file" \in {"dir", "file", "link"} OBVIOUS
  <2> QED BY <2>1, MkEntryClean
<1> HIDE DEF r
<1>2. ASSUME KeepsDots(v, w), Alive(w) = Alive(v), Whole(v) PROVE Whole(w)
  BY <1>1, <1>2, WholeKept DEF Clean
<1>3. CASE ~r.ok
  <2>1. SameNames(v, w) /\ w.imap = v.imap /\ Alive(w) = Alive(v)
        /\ \A i \in Inodes : w.inodes[i].type = v.inodes[i].type
    BY <1>1, <1>3 DEF Grown, SameNames
  <2>2. KeepsDots(v, w) BY <2>1, VolumeFacts, NamesKept
  <2> QED BY <1>1, <1>2, <2>1, <2>2
<1>4. CASE r.ok
  <2>1. PICK i \in Inodes \ v.imap, p \in Places : Made(v, w, d, p, n, i, "file") BY <1>1, <1>4
  <2>2. Created(v, w, d, p, n, i, "file") BY <2>1, MadeCreated
  <2>3. Alive(w) = Alive(v) BY <2>2 DEF Created
  <2> QED BY <1>1, <1>2, <2>2, <2>3, CreatedKeeps
<1> QED BY <1>1, <1>3, <1>4

\* mkdir, whose second and third step may find no block
LEMMA MkdirClean ==
  ASSUME NEW v \in Volume, Clean(v), NEW d \in Alive(v), NEW n \in Leaf,
         NEW w, w = MkdirCall(v, d, n).vol
  PROVE  /\ w \in Volume /\ Clean(w) /\ KeepsDots(v, w) /\ SameBytes(v, w, v.imap)
         /\ Whole(v) /\ Roomy(v) => Whole(w)
         /\ \/ SameNames(v, w) /\ w.imap = v.imap /\ Alive(w) = Alive(v)
            \/ \E i \in Inodes \ v.imap, p \in Places : Created(v, w, d, p, n, i, "dir")
<1> DEFINE made == MkEntry(v, d, n, "dir")
           m == made.vol
           i == Target(m, d, n)
           dot == MkLink(m, i, i, Dot)
           o == dot.vol
           dots == MkLink(o, d, i, DotDot)
           y == dots.vol
<1>1. /\ Dot \in Names /\ DotDot \in Names /\ n \in Names /\ Dot # DotDot
      /\ n \notin {Dot, DotDot} /\ Dot \notin Leaf /\ DotDot \notin Leaf
  BY NamesAssumption DEF Names
<1>2. /\ m \in Volume /\ Clean(m) /\ made.ok \in BOOLEAN /\ SameBytes(v, m, v.imap)
      /\ (~made.ok => m = v \/ Grown(v, m, d))
      /\ (made.ok => \E j \in Inodes \ v.imap, p \in Places : Made(v, m, d, p, n, j, "dir"))
      /\ \E b : m.bmap \subseteq v.bmap \cup {b}
  <2>1. "dir" \in {"dir", "file", "link"} OBVIOUS
  <2> QED BY <2>1, MkEntryClean
<1>3. w = IF ~made.ok THEN m ELSE IF ~dot.ok THEN o ELSE y
  BY DEF MkdirCall
<1>4. CASE ~made.ok
  <2> HIDE DEF made
  <2>1. w = m BY <1>3, <1>4
  <2>2. SameNames(v, w) /\ w.imap = v.imap /\ Alive(w) = Alive(v)
        /\ \A j \in Inodes : w.inodes[j].type = v.inodes[j].type
    BY <1>2, <1>4, <2>1 DEF Grown, SameNames
  <2>3. KeepsDots(v, w) BY <2>2, VolumeFacts, NamesKept
  <2>4. Whole(v) => Whole(w) BY <1>2, <2>1, <2>2, <2>3, WholeKept DEF Clean
  <2> QED BY <1>2, <2>1, <2>2, <2>3, <2>4
<1>5. CASE made.ok
  <2> HIDE DEF made, y
  <2>1. PICK j \in Inodes \ v.imap, p \in Places : Made(v, m, d, p, n, j, "dir") BY <1>2, <1>5
  <2>2. d \in Alive(m) /\ Good(m) BY <1>2, <2>1 DEF Made, Clean
  <2>3. i = j
    <3>1. /\ <<d, p>> \in Entries(m) /\ NameOf(m)[<<d, p>>] = n /\ InumOf(m)[<<d, p>>] = j
          /\ <<d, p>>[1] = d
      BY <2>1 DEF Made
    <3> QED BY <1>1, <1>2, <2>2, <3>1, FoundAt
  <2> HIDE DEF m, i
  <2>4. /\ i \in Alive(m) /\ i \in m.imap /\ i \notin v.imap /\ d \in v.imap /\ i # d
        /\ i \notin Alive(v) /\ i # Root /\ Root \in Alive(m) /\ d \in m.imap
    BY <2>1, <2>3, AliveInodes DEF Made, Clean, Good, Linked
  <2>5. \A x \in Entries(m) : x[1] # i
    <3>1. <<d, p>>[1] = d OBVIOUS
    <3> QED BY <2>1, <2>4, <3>1, EntryPairs DEF Made
  <2>6. MayEnter(m, i, Dot, i) BY <1>1, <2>5 DEF MayEnter
  <2>7. /\ o \in Volume /\ Clean(o) /\ dot.ok \in BOOLEAN /\ SameBytes(m, o, m.imap)
        /\ (~dot.ok => o = m)
        /\ (dot.ok => \E q \in Places : Named(m, o, i, q, Dot, i))
        /\ (Found(m, i, Dot) = {} /\ WithFreeEntry(m, i).ok => dot.ok)
    BY <1>1, <1>2, <2>4, <2>6, MkLinkClean
  <2>8. Roomy(v) => dot.ok
    <3>1. Roomy(v) => FreeBlks(m) # {} BY <1>2 DEF Roomy, FreeBlks
    <3>2. \A k \in Index : m.inodes[i].blk[k] = 0 BY <2>1, <2>3 DEF Made
    <3>3. FreeBlks(m) # {} => WithFreeEntry(m, i).ok BY <1>2, <2>2, <2>4, <3>2, RoomFirst
    <3>4. Found(m, i, Dot) = {}
      <4>1. Found(m, i, Dot) # {} => \E q \in Places : <<i, q>> \in Entries(m)
        BY <1>1, <1>2, <2>2, <2>4, FoundAt
      <4>2. \A q : <<i, q>>[1] = i OBVIOUS
      <4> QED BY <2>5, <4>1, <4>2
    <3> QED BY <2>7, <3>1, <3>3, <3>4
  <2>9. Created(v, m, d, p, n, i, "dir") BY <2>1, <2>3, MadeCreated
  <2>10. CASE ~dot.ok
    <3> HIDE DEF dot
    <3>1. w = m BY <1>3, <1>5, <2>7, <2>10
    <3> QED BY <1>2, <2>1, <2>3, <2>8, <2>9, <2>10, <3>1, CreatedKeeps
  <2>11. CASE dot.ok
    <3> HIDE DEF dot
    <3>1. PICK q \in Places : Named(m, o, i, q, Dot, i) BY <2>7, <2>11
    <3>2. /\ i \in Alive(o) /\ i \in o.imap /\ d \in Alive(o) /\ d \in o.imap /\ Good(o)
      BY <2>2, <2>4, <2>7, <3>1 DEF Named, Clean
    <3>3. /\ <<d, p>> \in Entries(o) /\ NameOf(o)[<<d, p>>] = n /\ InumOf(o)[<<d, p>>] = i
          /\ <<i, q>> \in Entries(o) /\ NameOf(o)[<<i, q>>] = Dot
          /\ <<d, p>>[1] = d /\ <<i, q>>[1] = i
          /\ \A x \in Entries(o) : x[1] = i => x = <<i, q>>
      BY <2>1, <2>3, <2>5, <3>1 DEF Made, Named
    <3>4. MayEnter(o, i, DotDot, d) BY <1>1, <2>4, <3>2, <3>3 DEF MayEnter
    <3>5. /\ y \in Volume /\ Clean(y) /\ dots.ok \in BOOLEAN /\ SameBytes(o, y, o.imap)
          /\ (~dots.ok => y = o)
          /\ (dots.ok => \E z \in Places : Named(o, y, i, z, DotDot, d))
          /\ (Found(o, i, DotDot) = {} /\ WithFreeEntry(o, i).ok => dots.ok)
      <4> HIDE DEF o
      <4> QED BY <1>1, <2>7, <3>2, <3>4, MkLinkClean DEF y
    <3> HIDE DEF o
    <3>6. dots.ok
      <4>1. FreePositions(o, i) # {} BY <2>7, <3>2, <3>3, RoomNext
      <4>2. WithFreeEntry(o, i).ok BY <4>1 DEF WithFreeEntry, Done
      <4>3. Found(o, i, DotDot) # {} => \E z \in Places :
              <<i, z>> \in Entries(o) /\ NameOf(o)[<<i, z>>] = DotDot
        BY <1>1, <2>7, <3>2, FoundAt
      <4>4. \A z : <<i, z>>[1] = i OBVIOUS
      <4>5. Found(o, i, DotDot) = {} BY <1>1, <3>3, <4>3, <4>4
      <4> QED BY <3>5, <4>2, <4>5
    <3> HIDE DEF dots
    <3>7. w = y BY <1>3, <1>5, <2>11
    <3>8. PICK z \in Places : Named(o, y, i, z, DotDot, d) BY <3>5, <3>6
    <3>9. Created(v, y, d, p, n, i, "dir")
      <4>1. y.imap = v.imap \cup {i} /\ Alive(y) = Alive(v) \cup {i}
        BY <2>1, <2>3, <3>1, <3>8 DEF Made, Named
      <4>2. /\ Entries(y) = Entries(v) \cup {<<d, p>>, <<i, q>>, <<i, z>>}
            /\ <<d, p>> \in Entries(y) /\ <<d, p>> \notin Entries(v)
            /\ NameOf(y)[<<d, p>>] = n /\ InumOf(y)[<<d, p>>] = i
            /\ NameOf(y)[<<i, q>>] = Dot /\ NameOf(y)[<<i, z>>] = DotDot
        BY <2>1, <2>3, <3>1, <3>8 DEF Made, Named
      <4>3. \A x \in Entries(v) : NameOf(y)[x] = NameOf(v)[x] /\ InumOf(y)[x] = InumOf(v)[x]
        BY <2>1, <3>1, <3>8 DEF Made, Named
      <4>4. /\ \A k \in v.imap : y.inodes[k].type = v.inodes[k].type
            /\ y.inodes[i].type = "dir"
        BY <2>1, <2>3, <3>1, <3>8, VolumeFacts DEF Made, Named
      <4>5. <<i, q>>[1] = i /\ <<i, z>>[1] = i OBVIOUS
      <4> QED BY <4>1, <4>2, <4>3, <4>4, <4>5 DEF Created
    <3>10. Whole(v) => Whole(y)
      <4>1. KeepsDots(v, y) BY <3>9, CreatedKeeps
      <4>2. Found(y, i, Dot) # {} /\ Found(y, i, DotDot) # {} /\ Good(y)
        <5>1. i \in Alive(y) /\ Good(y) BY <3>2, <3>5, <3>8 DEF Named, Clean
        <5>2. /\ <<i, q>> \in Entries(y) /\ NameOf(y)[<<i, q>>] = Dot
              /\ <<i, z>> \in Entries(y) /\ NameOf(y)[<<i, z>>] = DotDot
              /\ <<i, q>>[1] = i /\ <<i, z>>[1] = i
          BY <3>3, <3>8 DEF Named
        <5> QED BY <1>1, <3>5, <5>1, <5>2, FoundAt
      <4>3. Alive(y) = Alive(v) \cup {i} BY <3>9 DEF Created
      <4> QED BY <3>5, <4>1, <4>2, <4>3, WholeKept DEF Clean
    <3>11. SameBytes(v, y, v.imap)
      <4>1. v.imap \subseteq m.imap /\ v.imap \subseteq o.imap BY <2>1, <3>1 DEF Made, Named
      <4>2. SameBytes(v, o, v.imap) BY <1>2, <2>7, <4>1, BytesThen
      <4> QED BY <3>5, <4>1, <4>2, BytesThen
    <3> QED BY <2>1, <2>3, <3>5, <3>7, <3>9, <3>10, <3>11, CreatedKeeps
  <2> QED BY <2>7, <2>10, <2>11
<1> QED BY <1>2, <1>4, <1>5

-----------------------------------------------------------------------------
(* The calls that change what a file or a link holds. *)

LEMMA TouchClean ==
  ASSUME NEW v \in Volume, Good(v), Marked(v), NEW i \in Inodes,
         NEW w, w = FlushMetadata(MarkInode(v, i))
  PROVE  w \in Volume /\ Clean(w) /\ Alike(v, w) /\ SameNames(v, w) /\ Alive(w) = Alive(v)
<1> DEFINE m == MarkInode(v, i)
<1>1. m \in Volume /\ Alike(v, m) /\ m.dirty = v.dirty \cup {InodeBlk(i)} /\ m.meta = v.meta
  BY InodeMarked
<1> HIDE DEF m
<1>2. Good(m) /\ SameNames(v, m) /\ Alive(m) = Alive(v) BY <1>1, AlikeGood
<1>3. Marked(m) BY <1>1, MarkedStep DEF Alike
<1>4. w = FlushMetadata(m) BY DEF m
<1>5. w \in Volume /\ Clean(w) /\ Alike(m, w) /\ SameNames(m, w) /\ Alive(w) = Alive(m)
  BY <1>1, <1>2, <1>3, <1>4, FlushClean
<1> QED BY <1>1, <1>2, <1>5 DEF Alike, SameNames

\* The volume v with the content c, of size s, in the first block of i.
WithContent(v, i, c, s) == [v EXCEPT !.blocks[v.inodes[i].blk[0]] = c, !.inodes[i].size = s]

LEMMA ContentClean ==
  ASSUME NEW v \in Volume, Good(v), Marked(v), NEW i \in v.imap, i \notin Alive(v),
         v.inodes[i].blk[0] # 0, NEW c \in Block, NEW s \in Nat,
         v.inodes[i].type = "link" => c.text \in LinkText,
         NEW w, w = FlushMetadata(MarkInode(WithContent(v, i, c, s), i))
  PROVE  /\ w \in Volume /\ Clean(w) /\ SameNames(v, w) /\ Alive(w) = Alive(v) /\ w.imap = v.imap
         /\ \A j \in Inodes : w.inodes[j].type = v.inodes[j].type
         /\ SameBytes(v, w, Others(v, i))
         /\ w.inodes[i].size = s /\ w.blocks[w.inodes[i].blk[0]] = c
<1> DEFINE b == v.inodes[i].blk[0]
           n == [v.inodes[i] EXCEPT !.size = s]
           u == [v EXCEPT !.blocks[b] = c, !.inodes[i] = n]
<1>1. i \in Inodes /\ 0 \in Index /\ b \in Blks /\ v.inodes[i] \in Inode BY VolumeFacts
<1>2. /\ n \in Inode /\ n.size = s /\ n.type = v.inodes[i].type /\ n.nlink = v.inodes[i].nlink
      /\ n.blk = v.inodes[i].blk
  BY <1>1 DEF Inode
<1>3. WithContent(v, i, c, s) = u BY <1>1 DEF WithContent
<1> HIDE DEF b, n
<1>4. /\ u \in Volume /\ u.imap = v.imap /\ u.bmap = v.bmap /\ u.meta = v.meta /\ u.dirty = v.dirty
      /\ u.blocks = [v.blocks EXCEPT ![b] = c]
      /\ u.inodes = [v.inodes EXCEPT ![i] = n]
  BY <1>1, <1>2 DEF Volume
<1>5. u.inodes[i] = n /\ \A j \in Inodes : j # i => u.inodes[j] = v.inodes[j]
  BY <1>1, <1>4 DEF Volume
<1> HIDE DEF u
<1>6. Good(u) /\ SameNames(v, u)
  <2>1. /\ u.blocks[v.inodes[i].blk[0]] = c
        /\ \A a \in Blks : a # v.inodes[i].blk[0] => u.blocks[a] = v.blocks[a]
    BY <1>1, <1>4 DEF b, Volume
  <2>2. /\ u.inodes[i].blk = v.inodes[i].blk /\ u.inodes[i].type = v.inodes[i].type
        /\ u.inodes[i].nlink = v.inodes[i].nlink
    BY <1>2, <1>5
  <2>3. u \in Volume /\ u.imap = v.imap /\ u.bmap = v.bmap BY <1>4
  <2> QED BY <1>5, <2>1, <2>2, <2>3, FillGood DEF SameNames
<1>7. \A j \in Inodes : u.inodes[j].type = v.inodes[j].type BY <1>2, <1>5
<1>8. Alive(u) = Alive(v) BY <1>4, <1>7, VolumeFacts DEF Alive, IsDir
<1> DEFINE m == MarkInode(u, i)
<1>9. m \in Volume /\ Alike(u, m) /\ m.dirty = u.dirty \cup {InodeBlk(i)} /\ m.meta = u.meta
  BY <1>1, <1>4, InodeMarked
<1>10. w = FlushMetadata(m) BY <1>3
<1> HIDE DEF m
<1>11. Good(m) /\ SameNames(u, m) /\ Alive(m) = Alive(u) BY <1>6, <1>9, AlikeGood
<1>12. Marked(m)
  <2>1. m.meta = v.meta /\ m.imap = v.imap /\ m.bmap = v.bmap /\ v.dirty \subseteq m.dirty
    BY <1>4, <1>9 DEF Alike
  <2>2. \A j \in Inodes : m.inodes[j] # v.inodes[j] => InodeBlk(j) \in m.dirty
    BY <1>5, <1>9 DEF Alike
  <2> QED BY <2>1, <2>2, MarkedStep
<1>13. w \in Volume /\ Clean(w) /\ Alike(m, w) /\ SameNames(m, w) /\ Alive(w) = Alive(m)
  BY <1>9, <1>10, <1>11, <1>12, FlushClean
<1>14. w.inodes = u.inodes /\ w.blocks = u.blocks BY <1>9, <1>13 DEF Alike
<1>15. SameBytes(v, w, Others(v, i))
  <2> SUFFICES ASSUME NEW j \in v.imap, j # i, v.inodes[j].size # 0, v.inodes[j].type # "dir"
               PROVE  u.blocks[v.inodes[j].blk[0]] = v.blocks[v.inodes[j].blk[0]]
    BY <1>5, <1>14, VolumeFacts DEF SameBytes, Others
  <2>1. j \in Inodes /\ v.inodes[j].blk[0] # 0 BY VolumeFacts DEF Good, Contents, Content
  <2>2. v.inodes[j].blk[0] # b BY <1>1, <2>1 DEF b, Good, Pointers
  <2>3. v.inodes[j].blk[0] \in Blks BY <1>1, <2>1, VolumeFacts
  <2> QED BY <1>1, <1>4, <2>2, <2>3 DEF Volume
<1>16. w.inodes[i].size = s /\ w.blocks[w.inodes[i].blk[0]] = c
  <2>1. w.inodes[i].blk[0] = b BY <1>2, <1>5, <1>14 DEF b
  <2> QED BY <1>1, <1>2, <1>4, <1>5, <1>14, <2>1 DEF Volume
<1> QED BY <1>4, <1>6, <1>7, <1>8, <1>9, <1>11, <1>13, <1>15, <1>16 DEF Alike, SameNames

LEMMA NoneBelow == \A l \in Index : ~(l < 0)
<1>1. \A l \in Nat : ~(l < 0) OBVIOUS
<1> QED BY <1>1, PlacesArePairs

\* write, of a file that is allocated
LEMMA WriteClean ==
  ASSUME NEW v \in Volume, Clean(v), NEW i \in v.imap, v.inodes[i].type = "file",
         NEW t \in Data, NEW w, w = DoWrite(v, i, t).vol
  PROVE  /\ w \in Volume /\ Clean(w) /\ SameNames(v, w) /\ Alive(w) = Alive(v) /\ w.imap = v.imap
         /\ \A j \in Inodes : w.inodes[j].type = v.inodes[j].type
         /\ SameBytes(v, w, Others(v, i))
         /\ Read(w, i) \in {Read(v, i), Bytes(t)}
<1> DEFINE room == WithBlk(v, i, 0)
           u == room.vol
           s == u.inodes[i].size + 1
<1>1. i \in Inodes /\ i \notin Alive(v) /\ Good(v) /\ Marked(v)
  BY VolumeFacts DEF Clean, Alive, IsDir
<1>2. /\ u \in Volume /\ Good(u) /\ Marked(u) /\ Grown(v, u, i)
      /\ room.ok \in BOOLEAN /\ (~room.ok => u = v)
      /\ (room.ok => u.inodes[i].blk[0] # 0)
  <2>1. \A l \in Index : ~(l < 0) BY NoneBelow
  <2> QED BY <1>1, <2>1, WithBlkGood
<1>3. CASE ~room.ok
  <2>1. w = FlushMetadata(MarkInode(v, i)) BY <1>3 DEF DoWrite, Fail
  <2>2. w \in Volume /\ Clean(w) /\ Alike(v, w) /\ SameNames(v, w) /\ Alive(w) = Alive(v)
    BY <1>1, <2>1, TouchClean
  <2>3. SameBytes(v, w, Others(v, i)) BY <2>2, BytesStay DEF Alike
  <2>4. Read(w, i) = Read(v, i) BY <2>2 DEF Alike, Read, IsDir
  <2> QED BY <2>2, <2>3, <2>4 DEF Alike
<1>4. CASE room.ok
  <2>1. w = FlushMetadata(MarkInode(WithContent(u, i, Bytes(t), s), i))
    BY <1>4 DEF DoWrite, Done, WithContent
  <2> HIDE DEF room, u, s
  <2>2. /\ u.imap = v.imap /\ SameNames(v, u) /\ Alive(u) = Alive(v)
        /\ \A j \in Inodes : u.inodes[j].type = v.inodes[j].type
    BY <1>2 DEF Grown
  <2>3. s \in Nat BY <1>1, <1>2, VolumeFacts DEF s, Inode
  <2>4. Bytes(t) \in Block BY DEF Bytes, Block, Entry
  <2>5. /\ w \in Volume /\ Clean(w) /\ SameNames(u, w) /\ Alive(w) = Alive(u) /\ w.imap = u.imap
        /\ \A j \in Inodes : w.inodes[j].type = u.inodes[j].type
        /\ SameBytes(u, w, Others(u, i))
        /\ w.inodes[i].size = s /\ w.blocks[w.inodes[i].blk[0]] = Bytes(t)
    BY <1>1, <1>2, <1>4, <2>1, <2>2, <2>3, <2>4, ContentClean
  <2>6. SameBytes(v, w, Others(v, i))
    <3>1. SameBytes(v, u, v.imap) BY <1>1, <1>2, GrownBytes
    <3>2. SameBytes(v, u, Others(v, i)) BY <3>1 DEF SameBytes, Others
    <3>3. Others(u, i) = Others(v, i) BY <2>2 DEF Others
    <3> QED BY <2>5, <3>2, <3>3, BytesThen
  <2>7. Read(w, i) = Bytes(t)
    <3>1. s # 0 BY <1>1, <1>2, VolumeFacts DEF s, Inode
    <3>2. ~IsDir(w, i) BY <1>1, <2>2, <2>5 DEF IsDir
    <3> QED BY <2>5, <3>1, <3>2 DEF Read
  <2> QED BY <2>2, <2>5, <2>6, <2>7 DEF SameNames
<1> QED BY <1>2, <1>3, <1>4

\* symlink
LEMMA SymlinkClean ==
  ASSUME NEW v \in Volume, Clean(v), NEW d \in Alive(v), NEW n \in Leaf, NEW x \in LinkText,
         NEW w, w = SymlinkCall(v, d, n, x).vol
  PROVE  /\ w \in Volume /\ Clean(w) /\ KeepsDots(v, w) /\ (Whole(v) => Whole(w))
         /\ SameBytes(v, w, v.imap)
         /\ \/ SameNames(v, w) /\ w.imap = v.imap /\ Alive(w) = Alive(v)
            \/ \E i \in Inodes \ v.imap, p \in Places : Created(v, w, d, p, n, i, "link")
<1> DEFINE made == MkEntry(v, d, n, "link")
           m == made.vol
           i == Target(m, d, n)
           room == WithBlk(m, i, 0)
           u == room.vol
           b == u.inodes[i].blk[0]
<1>1. /\ m \in Volume /\ Clean(m) /\ made.ok \in BOOLEAN /\ SameBytes(v, m, v.imap)
      /\ (~made.ok => m = v \/ Grown(v, m, d))
      /\ (made.ok => \E j \in Inodes \ v.imap, p \in Places : Made(v, m, d, p, n, j, "link"))
  <2>1. "link" \in {"dir", "file", "link"} OBVIOUS
  <2> QED BY <2>1, MkEntryClean
<1>2. ASSUME KeepsDots(v, w), Alive(w) = Alive(v), Whole(v), w \in Volume, Clean(w) PROVE Whole(w)
  BY <1>2, WholeKept DEF Clean
<1>3. CASE ~made.ok
  <2>1. w = m BY <1>3 DEF SymlinkCall
  <2> HIDE DEF made
  <2>2. SameNames(v, w) /\ w.imap = v.imap /\ Alive(w) = Alive(v)
        /\ \A j \in Inodes : w.inodes[j].type = v.inodes[j].type
    BY <1>1, <1>3, <2>1 DEF Grown, SameNames
  <2>3. KeepsDots(v, w) BY <2>2, VolumeFacts, NamesKept
  <2> QED BY <1>1, <1>2, <2>1, <2>2, <2>3
<1>4. CASE made.ok
  <2>1. w = FlushMetadata(MarkInode(IF room.ok THEN WithContent(u, i, Bytes(x), 1) ELSE u, i))
    BY <1>4 DEF SymlinkCall, Done, WithContent
  <2> HIDE DEF made
  <2>2. PICK j \in Inodes \ v.imap, p \in Places : Made(v, m, d, p, n, j, "link") BY <1>1, <1>4
  <2>3. d \in Alive(m) /\ Good(m) /\ Marked(m) BY <1>1, <2>2 DEF Made, Clean
  <2>4. i = j
    <3>1. /\ <<d, p>> \in Entries(m) /\ NameOf(m)[<<d, p>>] = n /\ InumOf(m)[<<d, p>>] = j
          /\ <<d, p>>[1] = d /\ n \in Names
      BY <2>2 DEF Made, Names
    <3> QED BY <1>1, <2>3, <3>1, FoundAt
  <2> HIDE DEF m, i
  <2>5. i \in m.imap /\ i \in Inodes /\ i \notin Alive(m) /\ m.inodes[i].type = "link"
    BY <2>2, <2>4 DEF Made, Alive, IsDir
  <2>6. /\ u \in Volume /\ Good(u) /\ Marked(u) /\ Grown(m, u, i)
        /\ room.ok \in BOOLEAN
        /\ (room.ok => u.inodes[i].blk[0] # 0)
    <3>1. \A l \in Index : ~(l < 0) BY NoneBelow
    <3> QED BY <1>1, <2>3, <2>5, <3>1, WithBlkGood
  <2>7. /\ u.imap = m.imap /\ SameNames(m, u) /\ Alive(u) = Alive(m)
        /\ \A k \in Inodes : u.inodes[k].type = m.inodes[k].type
    BY <2>6 DEF Grown
  <2> HIDE DEF room, u
  <2>8. /\ w \in Volume /\ Clean(w) /\ SameNames(u, w) /\ Alive(w) = Alive(u) /\ w.imap = u.imap
        /\ \A k \in Inodes : w.inodes[k].type = u.inodes[k].type
        /\ SameBytes(u, w, Others(u, i))
    <3>1. CASE ~room.ok
      <4>1. w = FlushMetadata(MarkInode(u, i)) BY <2>1, <3>1
      <4>2. w \in Volume /\ Clean(w) /\ Alike(u, w) /\ SameNames(u, w) /\ Alive(w) = Alive(u)
        BY <2>5, <2>6, <4>1, TouchClean
      <4>3. SameBytes(u, w, Others(u, i)) BY <4>2, BytesStay DEF Alike
      <4> QED BY <4>2, <4>3 DEF Alike
    <3>2. CASE room.ok
      <4>1. w = FlushMetadata(MarkInode(WithContent(u, i, Bytes(x), 1), i)) BY <2>1, <3>2
      <4>3. Bytes(x) \in Block /\ Bytes(x).text = x BY DEF Bytes, Block, Entry
      <4>4. u.inodes[i].type = "link" /\ i \in u.imap /\ i \notin Alive(u) BY <2>5, <2>7
      <4> HIDE DEF b
      <4> QED BY <2>6, <3>2, <4>1, <4>3, <4>4, ContentClean
    <3> QED BY <2>6, <3>1, <3>2
  <2>9. Created(v, w, d, p, n, i, "link")
    <3>1. /\ w.imap = m.imap /\ SameNames(m, w) /\ Alive(w) = Alive(m)
          /\ \A k \in Inodes : w.inodes[k].type = m.inodes[k].type
      BY <2>7, <2>8 DEF SameNames
    <3>2. Created(v, m, d, p, n, i, "link") BY <2>2, <2>4, MadeCreated
    <3> QED BY <2>5, <3>1, <3>2, VolumeFacts DEF Created, SameNames
  <2>10. Alive(w) = Alive(v) /\ KeepsDots(v, w)
    <3>1. KeepsDots(v, w) BY <2>9, CreatedKeeps
    <3>2. "link" # "dir" OBVIOUS
    <3> QED BY <2>9, <3>1, <3>2 DEF Created
  <2>11. SameBytes(v, w, v.imap)
    <3>1. v.imap \subseteq m.imap /\ v.imap \subseteq Others(u, i)
      BY <2>2, <2>4, <2>7 DEF Made, Others
    <3>2. SameBytes(m, u, m.imap) BY <1>1, <2>3, <2>6, GrownBytes
    <3>3. SameBytes(v, u, v.imap) BY <1>1, <3>1, <3>2, BytesThen
    <3> QED BY <2>8, <3>1, <3>3, BytesThen
  <2> QED BY <1>2, <2>2, <2>4, <2>8, <2>9, <2>10, <2>11
<1> QED BY <1>1, <1>3, <1>4

\* truncate, of a file that is allocated
LEMMA TruncateClean ==
  ASSUME NEW v \in Volume, Clean(v), NEW i \in v.imap, i \notin Alive(v),
         NEW w, w = FlushMetadata(MarkInode(Truncated(v, i), i))
  PROVE  /\ w \in Volume /\ Clean(w) /\ SameNames(v, w) /\ Alive(w) = Alive(v) /\ w.imap = v.imap
         /\ \A j \in Inodes : w.inodes[j].type = v.inodes[j].type
         /\ SameBytes(v, w, Others(v, i)) /\ Read(w, i) = Zeros
<1> DEFINE t == Truncated(v, i)
           m == MarkInode(t, i)
<1>1. i \in Inodes /\ Good(v) /\ Marked(v) BY VolumeFacts DEF Clean
<1>2. /\ t \in Volume /\ Good(t) /\ SameNames(v, t) /\ Alive(t) = Alive(v)
      /\ t.imap = v.imap /\ t.meta = v.meta /\ t.blocks = v.blocks
      /\ v.dirty \subseteq t.dirty /\ (t.bmap # v.bmap => 1 \in t.dirty)
      /\ t.inodes[i].type = v.inodes[i].type /\ t.inodes[i].size = 0
      /\ \A j \in Inodes : j # i => t.inodes[j] = v.inodes[j]
  BY <1>1, TruncatedGood
<1> HIDE DEF t
<1>3. m \in Volume /\ Alike(t, m) /\ m.dirty = t.dirty \cup {InodeBlk(i)} /\ m.meta = t.meta
  BY <1>1, <1>2, InodeMarked
<1>4. w = FlushMetadata(m) BY DEF t
<1> HIDE DEF m
<1>5. Good(m) /\ SameNames(t, m) /\ Alive(m) = Alive(t) BY <1>2, <1>3, AlikeGood
<1>6. Marked(m) BY <1>1, <1>2, <1>3, MarkedStep DEF Alike
<1>7. w \in Volume /\ Clean(w) /\ Alike(m, w) /\ SameNames(m, w) /\ Alive(w) = Alive(m)
  BY <1>3, <1>4, <1>5, <1>6, FlushClean
<1>8. \A j \in Inodes : w.inodes[j].type = v.inodes[j].type BY <1>2, <1>3, <1>7 DEF Alike
<1>9. \A j \in v.imap \ {i} : w.inodes[j] = v.inodes[j] BY <1>2, <1>3, <1>7, VolumeFacts DEF Alike
<1>10. SameBytes(v, w, Others(v, i)) BY <1>2, <1>3, <1>7, <1>9, BytesStay DEF Alike, Others
<1>11. Read(w, i) = Zeros BY <1>2, <1>3, <1>7 DEF Alike, Read
<1> QED BY <1>2, <1>3, <1>5, <1>7, <1>8, <1>10, <1>11 DEF Alike, SameNames

\* fs_init reads an image that lacks at most blocks without entries.
LEMMA RemountClean ==
  ASSUME NEW v \in Volume, Clean(v),
         NEW w, w = [v EXCEPT !.imap = v.meta.imap, !.bmap = v.meta.bmap,
                              !.inodes = v.meta.inodes, !.dirty = {}]
  PROVE  /\ w \in Volume /\ Clean(w) /\ SameNames(v, w) /\ Alive(w) = Alive(v) /\ w.imap = v.imap
         /\ \A j \in Inodes : w.inodes[j].type = v.inodes[j].type
         /\ SameBytes(v, w, v.imap)
<1>1. v.meta \in Metadata /\ Good(v) /\ Marked(v) /\ Behind(v) BY DEF Volume, Clean
<1>2. /\ v.meta.imap \in SUBSET Inodes /\ v.meta.bmap \in SUBSET Blks
      /\ v.meta.inodes \in [Inodes -> Inode]
  BY <1>1 DEF Metadata, Inode, Blks, Index
<1>3. /\ w \in Volume /\ w.imap = v.meta.imap /\ w.bmap = v.meta.bmap /\ w.inodes = v.meta.inodes
      /\ w.dirty = {} /\ w.meta = v.meta /\ w.blocks = v.blocks
  BY <1>2 DEF Volume
<1>4. /\ w.imap = v.imap
      /\ \A i \in Inodes : /\ w.inodes[i].type = v.inodes[i].type
                           /\ w.inodes[i].nlink = v.inodes[i].nlink
                           /\ w.inodes[i].size = v.inodes[i].size
      /\ \A i \in Inodes, k \in Index : w.inodes[i].blk[k] # v.inodes[i].blk[k] =>
           /\ w.inodes[i].blk[k] = 0 /\ v.inodes[i].type = "dir"
           /\ v.blocks[v.inodes[i].blk[k]] = Zeros
  BY <1>1, <1>3 DEF Behind
<1>5. Pointers(w.imap, w.bmap, w.inodes) BY <1>1, <1>3 DEF Behind
<1>6. Contents(w)
  <2> SUFFICES ASSUME NEW i \in w.imap PROVE Content(w.inodes[i], w.blocks) BY DEF Contents
  <2>1. i \in Inodes /\ Content(v.inodes[i], v.blocks) /\ 0 \in Index
    BY <1>1, <1>3, <1>4, VolumeFacts DEF Good, Contents
  <2>2. v.inodes[i].type # "dir" => \A k \in Index : w.inodes[i].blk[k] = v.inodes[i].blk[k]
    BY <1>4, <2>1
  <2> QED BY <1>3, <1>4, <2>1, <2>2 DEF Content
<1>7. \A i \in v.imap : Framed(v, w, i)
  <2> SUFFICES ASSUME NEW i \in v.imap, NEW k \in Index
               PROVE  \/ /\ w.inodes[i].blk[k] = v.inodes[i].blk[k]
                         /\ w.inodes[i].blk[k] # 0 =>
                              w.blocks[w.inodes[i].blk[k]].slots = v.blocks[w.inodes[i].blk[k]].slots
                      \/ Blank(v, i, k) /\ Blank(w, i, k)
    BY DEF Framed
  <2>1. i \in Inodes BY VolumeFacts
  <2>2. CASE w.inodes[i].blk[k] = v.inodes[i].blk[k] BY <1>3, <2>2
  <2>3. CASE w.inodes[i].blk[k] # v.inodes[i].blk[k] BY <1>4, <2>1, <2>3 DEF Blank
  <2> QED BY <2>2, <2>3
<1>8. Good(w) /\ SameNames(v, w)
  <2>1. \A i \in v.imap \cap w.imap :
          /\ w.inodes[i].type = v.inodes[i].type /\ w.inodes[i].nlink = v.inodes[i].nlink
          /\ i \in Alive(v) => w.inodes[i].size = v.inodes[i].size /\ Framed(v, w, i)
    BY <1>4, <1>7, VolumeFacts
  <2>2. w.imap \ v.imap = {} /\ v.imap \ w.imap = {} BY <1>4
  <2> QED BY <1>1, <1>3, <1>5, <1>6, <2>1, <2>2, GoodFrame, ZenonT(40) DEF SameNames
<1>9. Alive(w) = Alive(v) BY <1>4, VolumeFacts DEF Alive, IsDir
<1>10. Marked(w) BY <1>3 DEF Marked
<1>11. Behind(w) BY <1>3, <1>5 DEF Behind
<1>12. SameBytes(v, w, v.imap)
  <2> SUFFICES ASSUME NEW j \in v.imap, v.inodes[j].type # "dir"
               PROVE  w.inodes[j].blk[0] = v.inodes[j].blk[0]
    BY <1>3, <1>4, VolumeFacts DEF SameBytes
  <2> QED BY <1>4, VolumeFacts
<1> QED BY <1>3, <1>4, <1>8, <1>9, <1>10, <1>11, <1>12 DEF Clean

-----------------------------------------------------------------------------
(* Paths. *)

\* A path leads through directories that are allocated.
LEMMA DirsAlive ==
  ASSUME NEW v \in Volume, Good(v)
  PROVE  Dirs(v) \subseteq Alive(v)
<1>1. Alive(v) \in SUBSET Inodes /\ Root \in Alive(v) BY AliveInodes DEF Good, Linked
<1>2. Prefixes(v) BY PointersFirst DEF Good
<1>3. ASSUME NEW d \in Alive(v), NEW i \in Subdirs(v, d) PROVE i \in Alive(v)
  <2>1. PICK p \in Positions(v, d) : Slot(v, d, p).name # NoName /\ Slot(v, d, p).inum = i
    BY <1>3 DEF Subdirs
  <2>2. <<d, p>> \in Entries(v) BY <1>2, <2>1, EntryIff DEF Used
  <2>3. InumOf(v)[<<d, p>>] = i BY <2>1, <2>2 DEF InumOf
  <2>4. i \in v.imap BY <2>2, <2>3 DEF Good, Linked
  <2>5. IsDir(v, i) BY <1>3 DEF Subdirs
  <2> QED BY <2>4, <2>5 DEF Alive
<1>4. \A d \in Alive(v) : Subdirs(v, d) \subseteq Alive(v) BY <1>3
<1> SUFFICES ASSUME NEW i \in Dirs(v) PROVE i \in Alive(v) OBVIOUS
<1> QED BY <1>1, <1>4 DEF Dirs

\* ... and to a file or a directory.
LEMMA LeadsTo ==
  ASSUME NEW v \in Volume, Good(v), NEW d \in Alive(v), NEW n \in Leaf, NEW i,
         ~Loops(v, d, n), Resolve(v, d, n) = [found |-> TRUE, inum |-> i]
  PROVE  i \in v.imap /\ (i \notin Alive(v) => v.inodes[i].type = "file")
<1> DEFINE m == CHOOSE x \in LastName(v, d, n) : TRUE
           j == Target(v, d, m)
<1>1. LastName(v, d, n) # {} BY DEF Loops
<1>2. m \in LastName(v, d, n) BY <1>1
<1>3. m \in Leaf /\ m \in Names BY <1>2 DEF LastName, Chain, Names
<1>4. Found(v, d, m) # {} /\ i = IF v.inodes[j].type = "link" THEN d ELSE j
  <2>1. Resolve(v, d, n) = IF Loops(v, d, n) \/ Found(v, d, m) = {} THEN [found |-> FALSE, inum |-> Wild]
                           ELSE [found |-> TRUE, inum |-> IF v.inodes[j].type = "link" THEN d ELSE j]
    BY DEF Resolve
  <2> HIDE DEF m, j
  <2>2. CASE Found(v, d, m) = {}
    <3>1. Resolve(v, d, n).found = FALSE BY <2>1, <2>2
    <3> QED BY <3>1
  <2>3. CASE Found(v, d, m) # {}
    <3>1. Resolve(v, d, n).inum = IF v.inodes[j].type = "link" THEN d ELSE j BY <2>1, <2>3
    <3> QED BY <2>3, <3>1
  <2> QED BY <2>2, <2>3
<1> HIDE DEF m
<1>5. PICK p \in Places : <<d, p>> \in Entries(v) /\ InumOf(v)[<<d, p>>] = j
  BY <1>3, <1>4, FoundAt
<1>6. j \in v.imap BY <1>5 DEF Good, Linked
<1> HIDE DEF j
<1>7. j \in Inodes /\ v.inodes[j] \in Inode /\ v.inodes[j].type # "none"
  BY <1>6, VolumeFacts DEF Good, Contents, Content
<1>8. v.inodes[j].type \in {"dir", "file", "link"} BY <1>7 DEF Inode
<1>9. d \in v.imap BY AliveInodes
<1> QED BY <1>4, <1>6, <1>8, <1>9, AliveInodes
-----------------------------------------------------------------------------
(* Every step keeps the invariant. *)

LEMMA SameStep ==
  ASSUME NEW v \in Volume, NEW w \in Volume, Clean(v), Clean(w), Whole(v),
         SameNames(v, w), Alive(w) = Alive(v),
         \A j \in Inodes : w.inodes[j].type = v.inodes[j].type
  PROVE  KeepsDots(v, w) /\ Whole(w)
<1>1. KeepsDots(v, w) BY VolumeFacts, NamesKept
<1> QED BY <1>1, WholeKept DEF Clean

LEMMA UnlinkStep ==
  ASSUME NEW v \in Volume, NEW w \in Volume, Clean(v), Clean(w), Whole(v),
         NEW z, NEW n \in Leaf, Unlinked(v, w, z, n)
  PROVE  KeepsDots(v, w) /\ Whole(w)
<1>1. n \notin {Dot, DotDot} BY NamesAssumption
<1>2. \A i \in v.imap : w.inodes[i].type = v.inodes[i].type BY VolumeFacts DEF Unlinked
<1>3. KeepsDots(v, w) BY <1>1, <1>2 DEF Unlinked, KeepsDots
<1>4. Alive(w) = Alive(v) BY DEF Unlinked
<1> QED BY <1>3, <1>4, WholeKept DEF Clean

LEMMA RmdirStep ==
  ASSUME NEW v \in Volume, NEW w \in Volume, Clean(v), Clean(w), Whole(v),
         NEW z, NEW n \in Leaf, Removed(v, w, z, n)
  PROVE  KeepsDots(v, w) /\ Whole(w)
<1>1. n \notin {Dot, DotDot} BY NamesAssumption
<1>2. \A i \in v.imap : w.inodes[i].type = v.inodes[i].type BY VolumeFacts DEF Removed
<1>3. KeepsDots(v, w) BY <1>1, <1>2 DEF Removed, KeepsDots
<1>4. Alive(w) \subseteq Alive(v) BY DEF Removed
<1> QED BY <1>3, <1>4, WholeKept DEF Clean

\* link: the inode is that of a file, and its new name is a leaf.
LEMMA LinkStep ==
  ASSUME NEW v \in Volume, Clean(v), Whole(v), NEW i \in v.imap \ Alive(v),
         NEW e \in Alive(v), NEW m \in Leaf, NEW w, w = MkLink(v, i, e, m).vol
  PROVE  /\ w \in Volume /\ Clean(w) /\ KeepsDots(v, w) /\ Whole(w) /\ SameBytes(v, w, v.imap)
         /\ w = v \/ \E p \in Places : Named(v, w, e, p, m, i)
<1>1. m \in Names /\ m \notin {Dot, DotDot} BY NamesAssumption DEF Names
<1>2. Found(v, e, m) = {} => MayEnter(v, e, m, i) BY <1>1, FoundAt DEF MayEnter, Clean
<1>3. /\ w \in Volume /\ Clean(w) /\ SameBytes(v, w, v.imap)
      /\ w = v \/ \E p \in Places : Named(v, w, e, p, m, i)
  BY <1>1, <1>2, MkLinkClean
<1>4. CASE w = v
  <2>1. KeepsDots(v, w) BY <1>4 DEF KeepsDots
  <2> QED BY <1>3, <1>4, <2>1
<1>5. CASE \E p \in Places : Named(v, w, e, p, m, i)
  <2>1. PICK p \in Places : Named(v, w, e, p, m, i) BY <1>5
  <2>2. \A j \in v.imap : w.inodes[j].type = v.inodes[j].type BY <2>1, VolumeFacts DEF Named
  <2>3. KeepsDots(v, w) BY <2>1, <2>2 DEF Named, KeepsDots
  <2>4. Alive(w) = Alive(v) BY <2>1 DEF Named
  <2>5. Whole(w) BY <1>3, <2>3, <2>4, WholeKept DEF Clean
  <2> QED BY <1>3, <2>3, <2>5
<1> QED BY <1>3, <1>4, <1>5

\* What a call does to the names: nothing, a new inode or a new name of an old
\* one, or a name less.
Effect(v, w) ==
  \/ /\ SameNames(v, w) /\ w.imap = v.imap /\ Alive(w) = Alive(v)
     /\ \A j \in v.imap : w.inodes[j].type = v.inodes[j].type
  \/ \E d \in Alive(v), p \in Places, n \in Leaf, i \in Inodes \ v.imap, t \in {"dir", "file", "link"} :
       Created(v, w, d, p, n, i, t)
  \/ \E d \in Alive(v), p \in Places, n \in Leaf, i \in v.imap \ Alive(v) : Named(v, w, d, p, n, i)
  \/ \E d \in Alive(v), p \in Places, n \in Leaf :
       Unlinked(v, w, <<d, p>>, n) \/ Removed(v, w, <<d, p>>, n)

LEMMA NoEffect == ASSUME NEW v PROVE Effect(v, v)
BY DEF Effect, SameNames

LEMMA SameEffect ==
  ASSUME NEW v \in Volume, NEW w, SameNames(v, w), w.imap = v.imap, Alive(w) = Alive(v),
         \A j \in Inodes : w.inodes[j].type = v.inodes[j].type
  PROVE  Effect(v, w)
BY VolumeFacts DEF Effect

\* A mkdir is called only when it has the room.
MkdirFits == \A d \in Dirs(vol), n \in Leaf : Mkdir(d, n) => Roomy(vol)

\* The volume after a step is as good as before; only a mkdir that has not the
\* room can leave a directory without its . or its ..
LEMMA NextClean ==
  ASSUME vol \in Volume, Clean(vol), WholeDirs, Next
  PROVE  /\ vol' \in Volume /\ Clean(vol') /\ KeepsDots(vol, vol') /\ (MkdirFits => Whole(vol'))
         /\ Effect(vol, vol')
<1> DEFINE Goal == /\ vol' \in Volume /\ Clean(vol') /\ KeepsDots(vol, vol') /\ (MkdirFits => Whole(vol'))
                   /\ Effect(vol, vol')
<1>1. Whole(vol) /\ Good(vol) /\ Marked(vol) /\ Dirs(vol) \subseteq Alive(vol)
  BY DirsAlive DEF WholeDirs, Clean
<1>2. ASSUME NEW w, w \in Volume, Clean(w), SameNames(vol, w), Alive(w) = Alive(vol),
             w.imap = vol.imap, \A j \in Inodes : w.inodes[j].type = vol.inodes[j].type, vol' = w
      PROVE  Goal
  BY <1>1, <1>2, SameStep, SameEffect
<1>3. ASSUME NEW d \in Alive(vol), NEW n \in Leaf, NEW i, Leads(d, n, i)
      PROVE  i \in Inodes /\ i \in vol.imap /\ (i \notin Alive(vol) => vol.inodes[i].type = "file")
  BY <1>1, <1>3, LeadsTo, VolumeFacts DEF Leads
<1>4. ASSUME NEW i \in vol.imap, ~IsDir(vol, i) PROVE i \notin Alive(vol)
  BY <1>4 DEF Alive
<1>5. ASSUME NEW d \in Alive(vol), NEW n \in Leaf, Mknod(d, n) PROVE Goal
  <2>1. vol' = MkEntry(vol, d, n, "file").vol BY <1>5 DEF Mknod
  <2>2. /\ vol' \in Volume /\ Clean(vol') /\ KeepsDots(vol, vol') /\ Whole(vol')
        /\ \/ SameNames(vol, vol') /\ vol'.imap = vol.imap /\ Alive(vol') = Alive(vol)
           \/ \E i \in Inodes \ vol.imap, p \in Places : Created(vol, vol', d, p, n, i, "file")
    BY <1>1, <2>1, MknodClean
  <2>3. Effect(vol, vol') BY <2>2 DEF Effect, KeepsDots
  <2> QED BY <2>2, <2>3
<1>6. ASSUME NEW d \in Dirs(vol), NEW n \in Leaf, Mkdir(d, n) PROVE Goal
  <2>1. vol' = MkdirCall(vol, d, n).vol /\ d \in Alive(vol) BY <1>1, <1>6 DEF Mkdir
  <2>2. MkdirFits => Roomy(vol) BY <1>6 DEF MkdirFits
  <2>3. /\ vol' \in Volume /\ Clean(vol') /\ KeepsDots(vol, vol')
        /\ Whole(vol) /\ Roomy(vol) => Whole(vol')
        /\ \/ SameNames(vol, vol') /\ vol'.imap = vol.imap /\ Alive(vol') = Alive(vol)
           \/ \E i \in Inodes \ vol.imap, p \in Places : Created(vol, vol', d, p, n, i, "dir")
    BY <1>1, <2>1, MkdirClean
  <2>4. Effect(vol, vol') BY <2>1, <2>3 DEF Effect, KeepsDots
  <2> QED BY <1>1, <2>2, <2>3, <2>4
<1>7. ASSUME NEW d \in Alive(vol), NEW n \in Leaf, Rmdir(d, n) PROVE Goal
  <2>1. vol' = RmdirCall(vol, d, n).vol BY <1>7 DEF Rmdir
  <2>2. /\ vol' \in Volume /\ Clean(vol')
        /\ vol' = vol \/ \E p \in Places : Removed(vol, vol', <<d, p>>, n)
    BY <1>1, <2>1, RmdirClean
  <2>3. KeepsDots(vol, vol) BY DEF KeepsDots
  <2>4. Effect(vol, vol') BY <2>2, NoEffect DEF Effect
  <2> QED BY <1>1, <2>2, <2>3, <2>4, RmdirStep
<1>8. ASSUME NEW d \in Alive(vol), NEW n \in Leaf, Unlink(d, n) PROVE Goal
  <2>1. vol' = UnlinkCall(vol, d, n).vol BY <1>8 DEF Unlink
  <2>2. /\ vol' \in Volume /\ Clean(vol')
        /\ vol' = vol \/ \E p \in Places : Unlinked(vol, vol', <<d, p>>, n)
    BY <1>1, <2>1, UnlinkClean
  <2>3. KeepsDots(vol, vol) BY DEF KeepsDots
  <2>4. Effect(vol, vol') BY <2>2, NoEffect DEF Effect
  <2> QED BY <1>1, <2>2, <2>3, <2>4, UnlinkStep
<1>9. ASSUME NEW d \in Alive(vol), NEW n \in Leaf, NEW t \in Data, Write(d, n, t) PROVE Goal
  <2>1. PICK i \in Inodes : Leads(d, n, i) /\ ~IsDir(vol, i) /\ vol' = DoWrite(vol, i, t).vol
    BY <1>9 DEF Write
  <2>2. i \in vol.imap /\ vol.inodes[i].type = "file" BY <1>3, <1>4, <2>1
  <2> QED BY <1>2, <2>1, <2>2, WriteClean
<1>10. ASSUME NEW d \in Alive(vol), NEW n \in Leaf, Truncate(d, n) PROVE Goal
  <2>1. PICK i \in Inodes : /\ Leads(d, n, i) /\ ~IsDir(vol, i)
                            /\ vol' = FlushMetadata(MarkInode(Truncated(vol, i), i))
    BY <1>10 DEF Truncate
  <2>2. i \in vol.imap /\ i \notin Alive(vol) BY <1>3, <1>4, <2>1
  <2> QED BY <1>2, <2>1, <2>2, TruncateClean
<1>11. ASSUME NEW d \in Alive(vol), NEW n \in Leaf, SetAttr(d, n) PROVE Goal
  <2>1. PICK i \in Inodes : vol' = FlushMetadata(MarkInode(vol, i)) BY <1>11 DEF SetAttr
  <2> QED BY <1>1, <1>2, <2>1, TouchClean DEF Alike
<1>12. ASSUME NEW d \in Alive(vol), NEW n \in Leaf, NEW t \in LinkText, Symlink(d, n, t) PROVE Goal
  <2>1. vol' = SymlinkCall(vol, d, n, t).vol BY <1>12 DEF Symlink
  <2>2. /\ vol' \in Volume /\ Clean(vol') /\ KeepsDots(vol, vol') /\ Whole(vol')
        /\ \/ SameNames(vol, vol') /\ vol'.imap = vol.imap /\ Alive(vol') = Alive(vol)
           \/ \E i \in Inodes \ vol.imap, p \in Places : Created(vol, vol', d, p, n, i, "link")
    BY <1>1, <2>1, SymlinkClean
  <2>3. Effect(vol, vol') BY <2>2 DEF Effect, KeepsDots
  <2> QED BY <2>2, <2>3
<1>13. ASSUME NEW d \in Alive(vol), NEW n \in Leaf, NEW e \in Alive(vol), NEW m \in Leaf,
              Link(d, n, e, m)
       PROVE  Goal
  <2>1. PICK i \in Inodes : Leads(d, n, i) /\ ~IsDir(vol, i) /\ vol' = MkLink(vol, i, e, m).vol
    BY <1>13 DEF Link
  <2>2. i \in vol.imap \ Alive(vol) BY <1>3, <1>4, <2>1
  <2>3. /\ vol' \in Volume /\ Clean(vol') /\ KeepsDots(vol, vol') /\ Whole(vol')
        /\ vol' = vol \/ \E p \in Places : Named(vol, vol', e, p, m, i)
    BY <1>1, <2>1, <2>2, LinkStep
  <2>4. Effect(vol, vol') BY <2>2, <2>3, NoEffect DEF Effect
  <2> QED BY <2>3, <2>4
<1>14. ASSUME Remount PROVE Goal
  <2>1. vol' = [vol EXCEPT !.imap = vol.meta.imap, !.bmap = vol.meta.bmap,
                           !.inodes = vol.meta.inodes, !.dirty = {}]
    BY <1>14 DEF Remount, Remounted
  <2> QED BY <1>2, <2>1, RemountClean
<1> HIDE DEF Goal
<1>15. Goal
  BY <1>1, <1>5, <1>6, <1>7, <1>8, <1>9, <1>10, <1>11, <1>12, <1>13, <1>14 DEF Next
<1> QED BY <1>15 DEF Goal

\* The bytes after a step of the calls: those of a file or a link are what they
\* were, or what was written, or none.
LEMMA NextBytes ==
  ASSUME vol \in Volume, Clean(vol), WholeDirs, Next,
         NEW i \in vol.imap \cap vol'.imap, ~IsDir(vol, i)
  PROVE  Kept(i) \/ Overwritten(i) \/ Emptied(i)
<1> DEFINE Goal == Kept(i) \/ Overwritten(i) \/ Emptied(i)
<1>1. /\ Whole(vol) /\ Good(vol) /\ Marked(vol) /\ Dirs(vol) \subseteq Alive(vol)
      /\ i \in vol.imap /\ i \in Inodes
  BY DirsAlive, VolumeFacts DEF WholeDirs, Clean
<1>2. ASSUME SameBytes(vol, vol', vol.imap) PROVE Goal BY <1>1, <1>2, BytesRead DEF Kept
<1>3. ASSUME SameBytes(vol, vol', vol.imap \cap vol'.imap) PROVE Goal BY <1>3, BytesRead DEF Kept
<1>4. ASSUME NEW j, j # i, SameBytes(vol, vol', Others(vol, j)) PROVE Goal
  <2>1. i \in Others(vol, j) BY <1>1, <1>4 DEF Others
  <2> QED BY <1>4, <2>1, BytesRead DEF Kept
<1>5. ASSUME NEW d \in Alive(vol), NEW n \in Leaf, NEW j, Leads(d, n, j), ~IsDir(vol, j)
      PROVE  j \in vol.imap /\ j \notin Alive(vol) /\ vol.inodes[j].type = "file"
  <2>1. j \in vol.imap /\ (j \notin Alive(vol) => vol.inodes[j].type = "file")
    BY <1>1, <1>5, LeadsTo DEF Leads
  <2> QED BY <1>5, <2>1 DEF Alive
<1>6. ASSUME NEW d \in Dirs(vol), NEW n \in Leaf, Mknod(d, n) PROVE Goal
  <2>1. d \in Alive(vol) /\ vol' = MkEntry(vol, d, n, "file").vol BY <1>1, <1>6 DEF Mknod
  <2>2. SameBytes(vol, vol', vol.imap) BY <1>1, <2>1, MknodClean
  <2> QED BY <1>2, <2>2
<1>7. ASSUME NEW d \in Dirs(vol), NEW n \in Leaf, Mkdir(d, n) PROVE Goal
  <2>1. d \in Alive(vol) /\ vol' = MkdirCall(vol, d, n).vol BY <1>1, <1>7 DEF Mkdir
  <2>2. SameBytes(vol, vol', vol.imap) BY <1>1, <2>1, MkdirClean
  <2> QED BY <1>2, <2>2
<1>8. ASSUME NEW d \in Dirs(vol), NEW n \in Leaf, Rmdir(d, n) PROVE Goal
  <2>1. d \in Alive(vol) /\ vol' = RmdirCall(vol, d, n).vol BY <1>1, <1>8 DEF Rmdir
  <2>2. SameBytes(vol, vol', vol.imap \cap vol'.imap) BY <1>1, <2>1, RmdirClean
  <2> QED BY <1>3, <2>2
<1>9. ASSUME NEW d \in Dirs(vol), NEW n \in Leaf, Unlink(d, n) PROVE Goal
  <2>1. d \in Alive(vol) /\ vol' = UnlinkCall(vol, d, n).vol BY <1>1, <1>9 DEF Unlink
  <2>2. SameBytes(vol, vol', vol.imap \cap vol'.imap) BY <1>1, <2>1, UnlinkClean
  <2> QED BY <1>3, <2>2
<1>10. ASSUME NEW d \in Dirs(vol), NEW n \in Leaf, NEW t \in Data, Write(d, n, t) PROVE Goal
  <2>1. PICK j \in Inodes : Leads(d, n, j) /\ ~IsDir(vol, j) /\ vol' = DoWrite(vol, j, t).vol
    BY <1>10 DEF Write
  <2>2. j \in vol.imap /\ vol.inodes[j].type = "file" BY <1>1, <1>5, <2>1
  <2>3. SameBytes(vol, vol', Others(vol, j)) /\ Read(vol', j) \in {Read(vol, j), Bytes(t)}
    BY <1>1, <2>1, <2>2, WriteClean
  <2>4. CASE j = i
    <3>1. Read(vol', i) = Bytes(t) => Overwritten(i) BY <2>1, <2>4 DEF Overwritten
    <3> QED BY <2>3, <2>4, <3>1 DEF Kept
  <2> QED BY <1>4, <2>3, <2>4
<1>11. ASSUME NEW d \in Dirs(vol), NEW n \in Leaf, Truncate(d, n) PROVE Goal
  <2>1. PICK j \in Inodes : /\ Leads(d, n, j) /\ ~IsDir(vol, j)
                            /\ vol' = FlushMetadata(MarkInode(Truncated(vol, j), j))
    BY <1>11 DEF Truncate
  <2>2. j \in vol.imap /\ j \notin Alive(vol) BY <1>1, <1>5, <2>1
  <2>3. SameBytes(vol, vol', Others(vol, j)) /\ Read(vol', j) = Zeros
    BY <1>1, <2>1, <2>2, TruncateClean
  <2>4. CASE j = i BY <1>11, <2>1, <2>3, <2>4 DEF Emptied
  <2> QED BY <1>4, <2>3, <2>4
<1>12. ASSUME NEW d \in Dirs(vol), NEW n \in Leaf, SetAttr(d, n) PROVE Goal
  <2>1. PICK j \in Inodes : vol' = FlushMetadata(MarkInode(vol, j)) BY <1>12 DEF SetAttr
  <2>2. Alike(vol, vol') BY <1>1, <2>1, TouchClean
  <2>3. SameBytes(vol, vol', vol.imap) BY <2>2, BytesStay DEF Alike
  <2> QED BY <1>2, <2>3
<1>13. ASSUME NEW d \in Dirs(vol), NEW n \in Leaf, NEW t \in LinkText, Symlink(d, n, t) PROVE Goal
  <2>1. d \in Alive(vol) /\ vol' = SymlinkCall(vol, d, n, t).vol BY <1>1, <1>13 DEF Symlink
  <2>2. SameBytes(vol, vol', vol.imap) BY <1>1, <2>1, SymlinkClean
  <2> QED BY <1>2, <2>2
<1>14. ASSUME NEW d \in Dirs(vol), NEW n \in Leaf, NEW e \in Dirs(vol), NEW m \in Leaf,
              Link(d, n, e, m)
       PROVE  Goal
  <2>1. PICK j \in Inodes : Leads(d, n, j) /\ ~IsDir(vol, j) /\ vol' = MkLink(vol, j, e, m).vol
    BY <1>14 DEF Link
  <2>2. j \in vol.imap \ Alive(vol) /\ e \in Alive(vol) BY <1>1, <1>5, <2>1
  <2>3. SameBytes(vol, vol', vol.imap) BY <1>1, <2>1, <2>2, LinkStep
  <2> QED BY <1>2, <2>3
<1>15. ASSUME Remount PROVE Goal
  <2>1. vol' = [vol EXCEPT !.imap = vol.meta.imap, !.bmap = vol.meta.bmap,
                           !.inodes = vol.meta.inodes, !.dirty = {}]
    BY <1>15 DEF Remount, Remounted
  <2>2. SameBytes(vol, vol', vol.imap) BY <1>1, <2>1, RemountClean
  <2> QED BY <1>2, <2>2
<1> HIDE DEF Goal
<1>16. Goal BY <1>6, <1>7, <1>8, <1>9, <1>10, <1>11, <1>12, <1>13, <1>14, <1>15 DEF Next
<1> QED BY <1>16 DEF Goal
-----------------------------------------------------------------------------
(* The operators of FsCalls in the terms of this module. *)

LEMMA EntriesToAre == \A i : EntriesTo(i) = Into(Entries(vol), InumOf(vol), i)
<1> SUFFICES ASSUME NEW i PROVE EntriesTo(i) = Into(Entries(vol), InumOf(vol), i) OBVIOUS
<1>1. LiveDirs = Alive(vol) BY DEF LiveDirs, Alive
<1>2. \A d : EntriesOf(d) = Used(vol, d) BY DEF EntriesOf, Used
<1>3. ASSUME NEW x PROVE x \in EntriesTo(i) <=> x \in Into(Entries(vol), InumOf(vol), i)
  <2>1. x \in EntriesTo(i) <=> x \in Entries(vol) /\ Slot(vol, x[1], x[2]).inum = i
    BY <1>1, <1>2 DEF EntriesTo, Entries, Places
  <2>2. x \in Entries(vol) => InumOf(vol)[x] = Slot(vol, x[1], x[2]).inum BY DEF InumOf
  <2> QED BY <2>1, <2>2 DEF Into
<1> QED BY <1>3

LEMMA OpenEntries == EntriesTo(fh) = Into(Entries(vol), InumOf(vol), fh)
BY EntriesToAre

\* Every step of the calls and of the open file keeps the invariant.
LEMMA StepKeeps ==
  ASSUME IInv, WholeDirs, [CarefulStep \/ HandleStep]_handleVars
  PROVE  IInv' /\ ([MkdirFits]_vol => WholeDirs')
<1> USE DEF WholeDirs
<1>1. vol \in Volume /\ Clean(vol) /\ Whole(vol) /\ Good(vol) BY DEF IInv, Good, Clean
<1>2. ASSUME vol' \in Volume, Clean(vol'), fh' \in Inodes \cup {0}, Handle(vol', fh') PROVE IInv'
  BY <1>2 DEF IInv, Clean
<1>3. CASE CarefulStep
  <2>1. Next /\ fh' = fh /\ (fh # 0 => EntriesTo(fh)' # {}) BY <1>3 DEF CarefulStep, CallStep
  <2>2. vol' \in Volume /\ Clean(vol') /\ KeepsDots(vol, vol') /\ (MkdirFits => Whole(vol'))
    BY <1>1, <2>1, NextClean
  <2>3. ASSUME fh # 0 PROVE fh \in vol'.imap /\ vol'.inodes[fh].type = "file"
    <3>5. (EntriesTo(fh) = Into(Entries(vol), InumOf(vol), fh))' BY OpenEntries, PTL
    <3>1. EntriesTo(fh)' = Into(Entries(vol'), InumOf(vol'), fh') BY <3>5
    <3>2. PICK x \in Entries(vol') : InumOf(vol')[x] = fh BY <2>1, <2>3, <3>1 DEF Into
    <3>3. fh \in vol'.imap BY <2>2, <3>2 DEF Clean, Good, Linked
    <3>4. fh \in vol.imap /\ vol.inodes[fh].type = "file" BY <2>3 DEF IInv, Handle
    <3> QED BY <2>2, <3>3, <3>4 DEF KeepsDots
  <2>4. [MkdirFits]_vol => Whole(vol') BY <1>1, <2>2
  <2> QED BY <1>2, <2>1, <2>2, <2>3, <2>4 DEF Handle, IInv
<1>4. CASE HandleStep
  <2>1. CASE WriteHandle
    <3>1. PICK t \in Data : fh # 0 /\ vol' = DoWrite(vol, fh, t).vol /\ fh' = fh
      BY <2>1 DEF WriteHandle
    <3>2. fh \in vol.imap /\ vol.inodes[fh].type = "file" BY <3>1 DEF IInv, Handle
    <3>3. /\ vol' \in Volume /\ Clean(vol') /\ SameNames(vol, vol') /\ Alive(vol') = Alive(vol)
          /\ vol'.imap = vol.imap /\ \A j \in Inodes : vol'.inodes[j].type = vol.inodes[j].type
      BY <1>1, <3>1, <3>2, WriteClean
    <3>4. Whole(vol') BY <1>1, <3>3, SameStep
    <3> QED BY <1>1, <1>2, <3>1, <3>2, <3>3, <3>4, VolumeFacts DEF Handle, IInv
  <2>2. CASE Release
    <3>1. vol' = vol /\ fh' = 0 BY <2>2 DEF Release
    <3> QED BY <1>1, <1>2, <3>1 DEF Handle
  <2>3. CASE \E d \in Dirs(vol), n \in Leaf : Open(d, n)
    <3>1. PICK d \in Dirs(vol), n \in Leaf : Open(d, n) BY <2>3
    <3>2. PICK i \in Inodes : Leads(d, n, i) /\ ~IsDir(vol, i) /\ fh' = i /\ vol' = vol
      BY <3>1 DEF Open
    <3>3. d \in Alive(vol) BY <1>1, <3>1, DirsAlive
    <3>4. i \in vol.imap /\ (i \notin Alive(vol) => vol.inodes[i].type = "file")
      BY <1>1, <3>2, <3>3, LeadsTo DEF Leads
    <3>5. i \notin Alive(vol) BY <3>2 DEF Alive
    <3> QED BY <1>1, <1>2, <3>2, <3>4, <3>5 DEF Handle
  <2> QED BY <1>4, <2>1, <2>2, <2>3 DEF HandleStep
<1>5. CASE UNCHANGED handleVars
  <2>1. vol' = vol /\ fh' = fh BY <1>5 DEF handleVars
  <2> QED BY <1>1, <1>2, <2>1 DEF IInv
<1> QED BY <1>3, <1>4, <1>5

\* ... and after a step of the calls and of the open file.
LEMMA BytesStep ==
  ASSUME IInv, WholeDirs, [CarefulStep \/ HandleStep]_handleVars,
         NEW i \in vol.imap \cap vol'.imap, ~IsDir(vol, i)
  PROVE  Kept(i) \/ Overwritten(i) \/ Emptied(i)
<1>1. vol \in Volume /\ Clean(vol) /\ i \in vol.imap BY DEF IInv, Good, Clean
<1>2. CASE CarefulStep
  <2>1. Next BY <1>2 DEF CarefulStep, CallStep
  <2> QED BY <1>1, <2>1, NextBytes
<1>3. CASE WriteHandle
  <2>1. PICK t \in Data : fh # 0 /\ vol' = DoWrite(vol, fh, t).vol BY <1>3 DEF WriteHandle
  <2>2. fh \in vol.imap /\ vol.inodes[fh].type = "file" BY <2>1 DEF IInv, Handle
  <2>3. SameBytes(vol, vol', Others(vol, fh)) /\ Read(vol', fh) \in {Read(vol, fh), Bytes(t)}
    BY <1>1, <2>1, <2>2, WriteClean
  <2>4. CASE fh = i
    <3>1. Read(vol', i) = Bytes(t) => Overwritten(i) BY <2>1, <2>4 DEF Overwritten
    <3> QED BY <2>3, <2>4, <3>1 DEF Kept
  <2>5. CASE fh # i
    <3>1. i \in Others(vol, fh) BY <1>1, <2>5 DEF Others
    <3> QED BY <2>3, <3>1, BytesRead DEF Kept
  <2> QED BY <2>4, <2>5
<1>4. ASSUME vol' = vol PROVE Kept(i) BY <1>4 DEF Kept
<1>5. CASE Release BY <1>4, <1>5 DEF Release
<1>6. CASE \E d \in Dirs(vol), n \in Leaf : Open(d, n) BY <1>4, <1>6 DEF Open
<1>7. CASE UNCHANGED handleVars BY <1>4, <1>7 DEF handleVars
<1> QED BY <1>2, <1>3, <1>5, <1>6, <1>7 DEF HandleStep
-----------------------------------------------------------------------------
(* The volume mkfs makes. *)

LEMMA FirstPlaces ==
  /\ 0 \in Places /\ 1 \in Places /\ 0 \in Slots /\ 1 \in Slots /\ 0 \in Index
  /\ BlkIx(0) = 0 /\ SlotIx(0) = 0 /\ BlkIx(1) = 0 /\ SlotIx(1) = 1
<1>1. DirentsPerBlk \in Nat /\ DirentsPerBlk >= 2 /\ MaxBlks \in Nat /\ MaxBlks > 0
  BY SizesAssumption
<1>2. 0 \in Slots /\ 1 \in Slots BY <1>1 DEF Slots
<1>3. 0 = DirentsPerBlk * 0 + 0 /\ 1 = DirentsPerBlk * 0 + 1 BY <1>1
<1>4. BlkIx(0) = 0 /\ SlotIx(0) = 0 BY <1>2, <1>3, DivUnique
<1>5. BlkIx(1) = 0 /\ SlotIx(1) = 1 BY <1>2, <1>3, DivUnique
<1>6. \A p \in Nat : BlkIx(p) = 0 => p \in Places BY <1>1, Below DEF Places
<1> QED BY <1>2, <1>4, <1>5, <1>6, PlacesArePairs

LEMMA InitIs ==
  ASSUME HandlesInit
  PROVE  /\ vol \in Volume /\ vol.imap = {Root} /\ vol.bmap = {1} /\ vol.dirty = {}
         /\ vol.meta.imap = vol.imap /\ vol.meta.bmap = vol.bmap /\ vol.meta.inodes = vol.inodes
         /\ vol.inodes[Root].type = "dir" /\ vol.inodes[Root].nlink = 2 /\ vol.inodes[Root].size = 2
         /\ \A k \in Index : vol.inodes[Root].blk[k] = IF k = 0 THEN 1 ELSE 0
         /\ \A i \in Inodes : i # Root => \A k \in Index : vol.inodes[i].blk[k] = 0
         /\ \A k \in Slots : vol.blocks[1].slots[k] =
              IF k = 0 THEN [name |-> Dot, inum |-> Root]
              ELSE IF k = 1 THEN [name |-> DotDot, inum |-> Root] ELSE FreeSlot
         /\ fh = 0 /\ Root \in Inodes /\ 1 \in Blks
<1> DEFINE first == [k \in 0 .. MaxBlks - 1 |-> IF k = 0 THEN 1 ELSE 0]
           none == [k \in 0 .. MaxBlks - 1 |-> 0]
           root == [NewInode("dir", first) EXCEPT !.nlink = 2, !.size = 2]
           table == [i \in Inodes |-> IF i = Root THEN root ELSE NewInode("none", none)]
           entries == [k \in Slots |-> IF k = 0 THEN [name |-> Dot, inum |-> Root]
                                       ELSE IF k = 1 THEN [name |-> DotDot, inum |-> Root]
                                       ELSE FreeSlot]
           made == [imap |-> {Root}, bmap |-> {1}, inodes |-> table]
           blocks == [b \in 1 .. NBlocks |-> IF b = 1 THEN [Zeros EXCEPT !.slots = entries] ELSE Zeros]
<1>1. /\ vol = [imap |-> {Root}, bmap |-> {1}, inodes |-> table, dirty |-> {},
                meta |-> made, blocks |-> blocks]
      /\ fh = 0
  BY DEF HandlesInit, Init
<1>2. /\ Root \in Inodes /\ 1 \in Blks /\ NBlocks \in Nat /\ 0 \in 0 .. MaxNlink /\ 2 \in 0 .. MaxNlink
      /\ 0 \in 0 .. NBlocks /\ 1 \in 0 .. NBlocks
  <2>1. /\ NInodes \in Nat /\ NInodes > 0 /\ NBlocks \in Nat /\ NBlocks > 0
        /\ MaxNlink \in Nat /\ DirentsPerBlk \in Nat /\ DirentsPerBlk >= 2
        /\ NBlocks * DirentsPerBlk <= MaxNlink
    BY SizesAssumption, CountsAssumption
  <2>2. PICK e \in Nat : NBlocks = e + 1
    <3>1. NBlocks - 1 \in Nat /\ NBlocks = (NBlocks - 1) + 1 BY <2>1
    <3> QED BY <3>1
  <2>3. (e + 1) * DirentsPerBlk = e * DirentsPerBlk + DirentsPerBlk /\ e * DirentsPerBlk \in Nat
    BY <2>1
  <2>4. 2 <= MaxNlink BY <2>1, <2>2, <2>3
  <2> QED BY <2>1, <2>4 DEF Root, Inodes, Blks
<1>3. first \in [Index -> 0 .. NBlocks] /\ none \in [Index -> 0 .. NBlocks]
  BY <1>2 DEF Index
<1>4. \A k \in Index : first[k] = (IF k = 0 THEN 1 ELSE 0) /\ none[k] = 0 BY DEF Index
<1> HIDE DEF first, none
<1>5. /\ root \in Inode /\ root.type = "dir" /\ root.nlink = 2 /\ root.size = 2 /\ root.blk = first
      /\ NewInode("none", none) \in Inode /\ NewInode("none", none).blk = none
  BY <1>2, <1>3 DEF NewInode, Inode
<1> HIDE DEF root
<1>6. /\ table \in [Inodes -> Inode] /\ table[Root] = root
      /\ \A i \in Inodes : i # Root => table[i] = NewInode("none", none)
  BY <1>2, <1>5
<1> HIDE DEF table
<1>7. FreeSlot \in Entry /\ Dot \in Names /\ DotDot \in Names /\ NoName \in Leaf \cup {NoName}
  BY DEF FreeSlot, Entry, Names
<1>8. entries \in [Slots -> Entry] BY <1>2, <1>7 DEF Entry
<1>9. Zeros \in Block /\ Zeros.text = NoName BY <1>7 DEF Zeros, Block
<1> HIDE DEF entries
<1>10. [Zeros EXCEPT !.slots = entries] \in Block /\ [Zeros EXCEPT !.slots = entries].slots = entries
  BY <1>8, <1>9 DEF Block
<1>11. blocks \in [Blks -> Block] /\ blocks[1].slots = entries
  BY <1>2, <1>9, <1>10 DEF Blks
<1> HIDE DEF blocks
<1>12. made \in Metadata /\ made.imap = {Root} /\ made.bmap = {1} /\ made.inodes = table
  BY <1>2, <1>6 DEF Metadata, Inode, Index, Blks
<1> HIDE DEF made
<1>13. /\ vol \in Volume /\ vol.imap = {Root} /\ vol.bmap = {1} /\ vol.dirty = {}
       /\ vol.inodes = table /\ vol.meta = made /\ vol.blocks = blocks
  BY <1>1, <1>2, <1>6, <1>11, <1>12 DEF Volume
<1>14. \A k \in Slots : entries[k] = IF k = 0 THEN [name |-> Dot, inum |-> Root]
                                     ELSE IF k = 1 THEN [name |-> DotDot, inum |-> Root] ELSE FreeSlot
  BY DEF entries
<1> QED BY <1>1, <1>2, <1>4, <1>5, <1>6, <1>11, <1>12, <1>13, <1>14

LEMMA InitEntries ==
  ASSUME HandlesInit
  PROVE  /\ Alive(vol) = {Root} /\ Entries(vol) = {<<Root, 0>>, <<Root, 1>>}
         /\ NameOf(vol)[<<Root, 0>>] = Dot /\ NameOf(vol)[<<Root, 1>>] = DotDot
         /\ InumOf(vol)[<<Root, 0>>] = Root /\ InumOf(vol)[<<Root, 1>>] = Root
<1>1. Alive(vol) = {Root} /\ vol \in Volume BY InitIs DEF Alive, IsDir
<1>2. Prefixes(vol)
  <2>1. \A i \in Inodes, k \in Index : vol.inodes[i].blk[k] # 0 => i = Root /\ k = 0 BY InitIs
  <2> QED BY <2>1, InitIs, NoneBelow, Zenon DEF Prefixes, Prefix
<1>3. /\ Slot(vol, Root, 0) = [name |-> Dot, inum |-> Root]
      /\ Slot(vol, Root, 1) = [name |-> DotDot, inum |-> Root]
  BY InitIs, FirstPlaces, SlotAt
<1>4. Dot # NoName /\ DotDot # NoName BY NamesAssumption
<1>5. vol.inodes[Root].blk[0] = 1 BY InitIs, FirstPlaces
<1>6. <<Root, 0>> \in Entries(vol) /\ <<Root, 1>> \in Entries(vol)
  <2>1. Slot(vol, Root, 0).name # NoName /\ Slot(vol, Root, 1).name # NoName BY <1>3, <1>4
  <2> QED BY <1>1, <1>2, <1>5, <2>1, FirstPlaces, EntryIff
<1>7. ASSUME NEW x \in Entries(vol) PROVE x \in {<<Root, 0>>, <<Root, 1>>}
  <2>1. PICK p \in Places : x = <<Root, p>> BY <1>1, EntryPairs
  <2>2. <<Root, p>> \in Entries(vol) BY <2>1
  <2>3. vol.inodes[Root].blk[BlkIx(p)] # 0 /\ Slot(vol, Root, p).name # NoName
    BY <1>1, <1>2, <2>2, EntryIff
  <2>4. BlkIx(p) \in Index /\ SlotIx(p) \in Slots BY PlacesArePairs
  <2>5. BlkIx(p) = 0 BY <2>3, <2>4, InitIs
  <2>6. Slot(vol, Root, p) = vol.blocks[1].slots[SlotIx(p)] BY <1>5, <2>5, SlotAt
  <2>7. SlotIx(p) = 0 \/ SlotIx(p) = 1
    <3>1. ASSUME SlotIx(p) # 0, SlotIx(p) # 1 PROVE FALSE
      <4>1. Slot(vol, Root, p) = FreeSlot BY <2>4, <2>6, <3>1, InitIs
      <4> QED BY <2>3, <4>1 DEF FreeSlot
    <3> QED BY <3>1
  <2>8. p = 0 \/ p = 1 BY <2>5, <2>7, FirstPlaces, PlacesArePairs
  <2> QED BY <2>1, <2>8
<1>8. Entries(vol) = {<<Root, 0>>, <<Root, 1>>} BY <1>6, <1>7
<1>9. /\ NameOf(vol)[<<Root, 0>>] = Slot(vol, Root, 0).name
      /\ NameOf(vol)[<<Root, 1>>] = Slot(vol, Root, 1).name
      /\ InumOf(vol)[<<Root, 0>>] = Slot(vol, Root, 0).inum
      /\ InumOf(vol)[<<Root, 1>>] = Slot(vol, Root, 1).inum
  BY <1>6 DEF NameOf, InumOf
<1> QED BY <1>1, <1>3, <1>8, <1>9

LEMMA InitGood ==
  ASSUME HandlesInit
  PROVE  IInv /\ WholeDirs
<1> DEFINE E == Entries(vol)
           N == NameOf(vol)
           T == InumOf(vol)
<1>1. Pointers(vol.imap, vol.bmap, vol.inodes)
  <2>1. \A i \in Inodes, k \in Index : vol.inodes[i].blk[k] # 0 <=> i = Root /\ k = 0
    BY InitIs, FirstPlaces
  <2>2. \A i \in Inodes, k \in Index : i = Root /\ k = 0 => vol.inodes[i].blk[k] = 1 BY InitIs
  <2>3. \A b \in Blks : b \in vol.bmap <=> \E i \in Inodes, k \in Index : vol.inodes[i].blk[k] = b
    <3>1. \A b \in Blks : b # 0 BY DEF Blks
    <3>2. vol.bmap = {1} /\ Root \in Inodes /\ 0 \in Index BY InitIs, FirstPlaces
    <3> QED BY <2>1, <2>2, <3>1, <3>2
  <2>4. Root \in vol.imap BY InitIs
  <2>5. \A i \in Inodes, k, l \in Index : l < k /\ vol.inodes[i].blk[k] # 0 => vol.inodes[i].blk[l] # 0
    BY <2>1, NoneBelow, Zenon
  <2> QED BY <2>1, <2>3, <2>4, <2>5 DEF Pointers
<1>2. Contents(vol) BY InitIs DEF Contents, Content
<1>3. Linked(vol.imap, Alive(vol), E, N, T)
  <2>1. Dot # DotDot /\ Dot \notin Leaf /\ DotDot \notin Leaf /\ {Dot, DotDot} \subseteq Names
    BY NamesAssumption DEF Names
  <2>2. /\ <<Root, 0>>[1] = Root /\ <<Root, 1>>[1] = Root OBVIOUS
  <2>3. \A x \in E : x = <<Root, 0>> \/ x = <<Root, 1>> BY InitEntries
  <2>4. vol.imap = {Root} /\ Alive(vol) = {Root} BY InitIs, InitEntries
  <2>5. N[<<Root, 0>>] = Dot /\ N[<<Root, 1>>] = DotDot /\ T[<<Root, 0>>] = Root /\ T[<<Root, 1>>] = Root
    BY InitEntries
  <2>6. \A x \in E : x[1] = Root /\ T[x] = Root /\ N[x] \in {Dot, DotDot} BY <2>2, <2>3, <2>5
  <2>7. \A x, y \in E : x[1] = y[1] /\ N[x] = N[y] => x = y BY <2>1, <2>3, <2>5
  <2> HIDE DEF E, N, T
  <2> QED BY <2>1, <2>4, <2>6, <2>7 DEF Linked
<1>4. Counted(vol.imap, Alive(vol), E, T, vol.inodes)
  <2>1. E = {<<Root, 0>>, <<Root, 1>>} BY InitEntries
  <2>2. {x \in E : T[x] = Root} = E /\ {x \in E : x[1] = Root} = E
    <3>1. <<Root, 0>>[1] = Root /\ <<Root, 1>>[1] = Root OBVIOUS
    <3>2. \A x \in E : x[1] = Root /\ T[x] = Root BY <2>1, <3>1, InitEntries
    <3> QED BY <3>2
  <2>3. Cardinality(E) = 2
    <3>1. <<Root, 0>> # <<Root, 1>> OBVIOUS
    <3>2. E = {<<Root, 0>>} \cup {<<Root, 1>>} BY <2>1
    <3>3. IsFiniteSet({<<Root, 0>>}) /\ Cardinality({<<Root, 0>>}) = 1 BY FS_Singleton
    <3>4. <<Root, 1>> \notin {<<Root, 0>>} BY <3>1
    <3>5. Cardinality(E) = Cardinality({<<Root, 0>>}) + 1 BY <3>2, <3>3, <3>4, FS_AddElement, Zenon
    <3> QED BY <3>3, <3>5
  <2>4. vol.imap = {Root} /\ Alive(vol) = {Root} /\ vol.inodes[Root].nlink = 2 /\ vol.inodes[Root].size = 2
    BY InitIs, InitEntries
  <2> HIDE DEF E, T
  <2> QED BY <2>2, <2>3, <2>4 DEF Counted
<1>5. Good(vol) BY <1>1, <1>2, <1>3, <1>4, InitIs DEF Good
<1>6. Marked(vol) BY InitIs DEF Marked
<1>7. Behind(vol) BY <1>1, InitIs DEF Behind
<1>8. Whole(vol)
  <2>1. /\ <<Root, 0>>[1] = Root /\ <<Root, 1>>[1] = Root /\ Dot \in Names /\ DotDot \in Names
    BY DEF Names
  <2>2. vol \in Volume BY InitIs
  <2>3. Root \in Alive(vol) /\ <<Root, 0>> \in E /\ <<Root, 1>> \in E BY InitEntries
  <2> QED BY <1>5, <2>1, <2>2, <2>3, InitEntries, FoundAt DEF Whole
<1>9. fh = 0 BY InitIs
<1> QED BY <1>5, <1>6, <1>7, <1>8, <1>9 DEF IInv, Handle, WholeDirs
-----------------------------------------------------------------------------
(* What the invariant says of the properties. *)

LEMMA LiveDirsAre == LiveDirs = Alive(vol) /\ \A d : EntriesOf(d) = Used(vol, d)
BY DEF LiveDirs, Alive, EntriesOf, Used

LEMMA AllocationFollows ==
  ASSUME IInv
  PROVE  AllocationExact
<1>1. vol \in Volume /\ Pointers(vol.imap, vol.bmap, vol.inodes) BY DEF IInv, Good
<1>2. \A i, b : b \in Ptrs(vol, i) <=> b # 0 /\ \E k \in Index : vol.inodes[i].blk[k] = b
  BY DEF Ptrs, Index
<1>3. vol.bmap = UNION {Ptrs(vol, i) : i \in vol.imap}
  <2>1. ASSUME NEW b \in vol.bmap PROVE \E i \in vol.imap : b \in Ptrs(vol, i)
    <3>1. b \in Blks /\ b # 0 BY <1>1, <2>1, VolumeFacts DEF Blks
    <3>2. PICK i \in Inodes, k \in Index : vol.inodes[i].blk[k] = b BY <1>1, <2>1, <3>1 DEF Pointers
    <3>3. i \in vol.imap BY <1>1, <3>1, <3>2 DEF Pointers
    <3> QED BY <1>2, <3>1, <3>2, <3>3
  <2>2. ASSUME NEW i \in vol.imap, NEW b \in Ptrs(vol, i) PROVE b \in vol.bmap
    <3>1. PICK k \in Index : vol.inodes[i].blk[k] = b /\ b # 0 BY <1>2, <2>2
    <3>2. i \in Inodes /\ b \in Blks BY <1>1, <3>1, VolumeFacts
    <3> QED BY <1>1, <3>1, <3>2 DEF Pointers
  <2> QED BY <2>1, <2>2
<1>4. ASSUME NEW i \in vol.imap, NEW j \in vol.imap, i # j
      PROVE  Ptrs(vol, i) \cap Ptrs(vol, j) = {}
  <2>1. i \in Inodes /\ j \in Inodes BY <1>1, VolumeFacts
  <2>2. ASSUME NEW b, b \in Ptrs(vol, i), b \in Ptrs(vol, j) PROVE FALSE
    <3>1. PICK k \in Index : vol.inodes[i].blk[k] = b /\ b # 0 BY <1>2, <2>2
    <3>2. PICK l \in Index : vol.inodes[j].blk[l] = b BY <1>2, <2>2
    <3> QED BY <1>1, <1>4, <2>1, <3>1, <3>2 DEF Pointers
  <2> QED BY <2>2
<1>5. ASSUME NEW i \in FreeInodes(vol) PROVE Ptrs(vol, i) = {}
  <2>1. i \in Inodes /\ i \notin vol.imap BY <1>5 DEF FreeInodes
  <2>2. \A k \in Index : vol.inodes[i].blk[k] = 0 BY <1>1, <2>1 DEF Pointers
  <2> QED BY <1>2, <2>2
<1> QED BY <1>3, <1>4, <1>5 DEF AllocationExact, BlocksExact, FreeInodesEmpty

LEMMA CountsFollow ==
  ASSUME IInv
  PROVE  LinkCounts
<1> SUFFICES ASSUME NEW i \in vol.imap
             PROVE  vol.inodes[i].nlink = Cardinality(EntriesTo(i))
  BY DEF LinkCounts
<1>1. EntriesTo(i) = {x \in Entries(vol) : InumOf(vol)[x] = i} BY EntriesToAre DEF Into
<1>2. vol.inodes[i].nlink = Cardinality({x \in Entries(vol) : InumOf(vol)[x] = i})
  BY DEF IInv, Good, Counted
<1> QED BY <1>1, <1>2

LEMMA SizesFollow ==
  ASSUME IInv
  PROVE  DirSizeExact
<1> SUFFICES ASSUME NEW d \in Alive(vol)
             PROVE  vol.inodes[d].size = Cardinality(Used(vol, d))
  BY LiveDirsAre DEF DirSizeExact
<1>1. vol \in Volume /\ Prefixes(vol) BY PointersFirst DEF IInv, Good
<1> DEFINE U == Used(vol, d)
           W == {x \in Entries(vol) : x[1] = d}
<1>2. vol.inodes[d].size = Cardinality(W) BY DEF IInv, Good, Counted
<1>3. \A p : p \in U <=> <<d, p>> \in Entries(vol) BY <1>1, EntryIff
<1>4. U \subseteq Places
  <2>1. \A p : <<d, p>> \in Entries(vol) => p \in Places BY DEF Entries
  <2> QED BY <1>3, <2>1
<1>5. IsFiniteSet(U)
  <2>1. MaxBlks * DirentsPerBlk - 1 \in Int /\ 0 \in Int BY SizesAssumption
  <2>2. IsFiniteSet(Places) BY <2>1, FS_Interval DEF Places
  <2> QED BY <1>4, <2>2, FS_Subset
<1> HIDE DEF U
<1>6. W = {d} \X U
  <2>1. ASSUME NEW x PROVE x \in W <=> x \in {d} \X U
    <3>1. ASSUME x \in W PROVE x \in {d} \X U
      <4>1. x \in Entries(vol) /\ x = <<d, x[2]>>  BY <3>1, EntryPairs
      <4>2. x[2] \in U BY <1>3, <4>1, Zenon
      <4> QED BY <4>1, <4>2
    <3>2. ASSUME x \in {d} \X U PROVE x \in W
      <4>1. PICK p \in U : x = <<d, p>> BY <3>2
      <4>2. x[1] = d BY <4>1
      <4> QED BY <1>3, <4>1, <4>2
    <3> QED BY <3>1, <3>2
  <2> HIDE DEF W
  <2> QED BY <2>1
<1>7. IsFiniteSet({d}) /\ Cardinality({d}) = 1 BY FS_Singleton
<1>8. Cardinality(U) \in Nat BY <1>5, FS_CardinalityType
<1>9. Cardinality({d} \X U) = Cardinality({d}) * Cardinality(U) BY <1>5, <1>7, FS_Product
<1> HIDE DEF W
<1>10. Cardinality(W) = 1 * Cardinality(U) BY <1>6, <1>7, <1>9, Zenon
<1>11. Cardinality(W) = Cardinality(U) BY <1>8, <1>10
<1> QED BY <1>2, <1>11 DEF U, W

LEMMA DotsFollow ==
  ASSUME IInv, WholeDirs
  PROVE  DotEntries
<1>1. /\ vol \in Volume /\ Good(vol) /\ Whole(vol) /\ Dot \in Names /\ DotDot \in Names
      /\ Leaf \subseteq Names
  BY DEF IInv, Good, WholeDirs, Names
<1>2. Linked(vol.imap, Alive(vol), Entries(vol), NameOf(vol), InumOf(vol)) BY <1>1 DEF Good
<1> SUFFICES ASSUME NEW d \in Alive(vol)
             PROVE  /\ Found(vol, d, Dot) # {} /\ Target(vol, d, Dot) = d
                    /\ Found(vol, d, DotDot) # {}
                    /\ d # Root => \E n \in Leaf : LET up == Target(vol, d, DotDot) IN
                         up \in vol.imap /\ Found(vol, up, n) # {} /\ Target(vol, up, n) = d
  BY LiveDirsAre DEF DotEntries
<1>3. Found(vol, d, Dot) # {} /\ Found(vol, d, DotDot) # {} BY <1>1 DEF Whole
<1>4. PICK p \in Places : /\ <<d, p>> \in Entries(vol) /\ NameOf(vol)[<<d, p>>] = Dot
                          /\ InumOf(vol)[<<d, p>>] = Target(vol, d, Dot)
  BY <1>1, <1>3, FoundAt
<1>5. PICK q \in Places : /\ <<d, q>> \in Entries(vol) /\ NameOf(vol)[<<d, q>>] = DotDot
                          /\ InumOf(vol)[<<d, q>>] = Target(vol, d, DotDot)
  BY <1>1, <1>3, FoundAt
<1>6. <<d, p>>[1] = d /\ <<d, q>>[1] = d OBVIOUS
<1>7. Target(vol, d, Dot) = d BY <1>2, <1>4, <1>6 DEF Linked
<1>8. ASSUME d # Root
      PROVE  \E n \in Leaf : LET up == Target(vol, d, DotDot) IN
               up \in vol.imap /\ Found(vol, up, n) # {} /\ Target(vol, up, n) = d
  <2> DEFINE up == Target(vol, d, DotDot)
  <2>1. PICK y \in Entries(vol) : y[1] = up /\ NameOf(vol)[y] \in Leaf /\ InumOf(vol)[y] = d
    BY <1>2, <1>5, <1>6, <1>8 DEF Linked
  <2>2. up \in Alive(vol) /\ up \in vol.imap BY <1>2, <1>5 DEF Linked
  <2> HIDE DEF up
  <2>3. NameOf(vol)[y] \in Names BY <1>1, <2>1
  <2>4. Found(vol, up, NameOf(vol)[y]) # {} /\ Target(vol, up, NameOf(vol)[y]) = d
    BY <1>1, <2>1, <2>2, <2>3, FoundAt
  <2> QED BY <2>1, <2>2, <2>4 DEF up
<1> QED BY <1>3, <1>7, <1>8

LEMMA DirectoriesFollow ==
  ASSUME IInv, WholeDirs
  PROVE  DirectoriesExact
<1>1. EntriesLive
  <2> SUFFICES ASSUME NEW d \in Alive(vol), NEW p \in Used(vol, d)
               PROVE  Slot(vol, d, p).inum \in vol.imap
    BY LiveDirsAre DEF EntriesLive
  <2>1. vol \in Volume /\ Prefixes(vol) BY PointersFirst DEF IInv, Good
  <2>2. <<d, p>> \in Entries(vol) BY <2>1, EntryIff
  <2>3. InumOf(vol)[<<d, p>>] = Slot(vol, d, p).inum BY <2>2 DEF InumOf
  <2> QED BY <2>2, <2>3 DEF IInv, Good, Linked
<1> QED BY <1>1, SizesFollow, DotsFollow DEF DirectoriesExact

LEMMA ImageFollows ==
  ASSUME IInv
  PROVE  ImageCurrent
<1>1. vol \in Volume /\ Clean(vol) /\ Good(vol) /\ Behind(vol) BY DEF IInv, Good, Clean
<1>2. vol.meta.imap = vol.imap /\ \A i \in vol.imap :
        vol.meta.inodes[i].nlink = vol.inodes[i].nlink /\ vol.meta.inodes[i].size = vol.inodes[i].size
  BY <1>1, VolumeFacts DEF Behind
<1>3. ASSUME NEW d \in Alive(vol), NEW n \in Names PROVE Found(vol, d, n) = Found(Remounted, d, n)
  <2>1. /\ Remounted \in Volume /\ Clean(Remounted) /\ SameNames(vol, Remounted)
        /\ Alive(Remounted) = Alive(vol)
    BY <1>1, RemountClean DEF Remounted
  <2>2. Good(Remounted) /\ d \in Alive(Remounted) BY <2>1 DEF Clean
  <2>3. \A p : p \in Found(vol, d, n) <=> <<d, p>> \in Entries(vol) /\ NameOf(vol)[<<d, p>>] = n
    BY <1>1, FoundIs
  <2>4. \A p : p \in Found(Remounted, d, n) <=>
          <<d, p>> \in Entries(Remounted) /\ NameOf(Remounted)[<<d, p>>] = n
    BY <2>1, <2>2, FoundIs
  <2> QED BY <2>1, <2>3, <2>4 DEF SameNames
<1> QED BY <1>2, <1>3, LiveDirsAre DEF ImageCurrent, ImageHasNames
\* A directory that opendir gives is one that is allocated.
LEMMA OpenedAlive ==
  ASSUME IInv
  PROVE  Opened \subseteq Alive(vol)
<1>1. vol \in Volume /\ Good(vol) /\ Root \in Alive(vol) /\ Dirs(vol) \subseteq Alive(vol)
  BY DirsAlive DEF IInv, Good, Linked
<1> SUFFICES ASSUME NEW d \in Dirs(vol), NEW n \in Leaf, Opendir(vol, d, n) # Wild
             PROVE  Opendir(vol, d, n) \in Alive(vol)
  BY <1>1 DEF Opened
<1> DEFINE r == Resolve(vol, d, n)
<1>2. r.found /\ IsDir(vol, r.inum) /\ Opendir(vol, d, n) = r.inum BY DEF Opendir
<1>3. ~Loops(vol, d, n) /\ r = [found |-> TRUE, inum |-> r.inum]
  <2>1. r \in [found : {FALSE}, inum : {Wild}] \/
        (~Loops(vol, d, n) /\ \E i : r = [found |-> TRUE, inum |-> i])
    BY DEF Resolve
  <2> HIDE DEF r
  <2> QED BY <1>2, <2>1
<1> HIDE DEF r
<1>4. r.inum \in vol.imap BY <1>1, <1>3, LeadsTo DEF r
<1> QED BY <1>2, <1>4 DEF Alive

\* A name that is not that of a link to a path leads to what its entry names.
LEMMA PlainName ==
  ASSUME NEW v, NEW d, NEW n \in Leaf, Found(v, d, n) # {}, v.inodes[Target(v, d, n)].type # "link"
  PROVE  Resolve(v, d, n) = [found |-> TRUE, inum |-> Target(v, d, n)]
<1>1. ~LeadsOn(v, d, n) BY DEF LeadsOn
<1>2. Chain(v, d, n) = {n}
  <2>1. n \in Chain(v, d, n) BY DEF Chain
  <2>2. ASSUME NEW m \in Chain(v, d, n) PROVE m \in {n}
    <3>1. {n} \in SUBSET Leaf OBVIOUS
    <3> QED BY <1>1, <2>2, <3>1 DEF Chain
  <2> QED BY <2>1, <2>2
<1>3. LastName(v, d, n) = {n} BY <1>1, <1>2 DEF LastName
<1>4. (CHOOSE x \in LastName(v, d, n) : TRUE) = n BY <1>3
<1>5. ~Loops(v, d, n) BY <1>3 DEF Loops
<1> QED BY <1>4, <1>5 DEF Resolve

LEMMA ListingFollows ==
  ASSUME IInv
  PROVE  ListedOnce
<1>1. vol \in Volume /\ Good(vol) /\ Prefixes(vol) /\ Leaf \subseteq Names
  BY PointersFirst DEF IInv, Good, Names
<1> SUFFICES ASSUME NEW x \in Alive(vol)
             PROVE  LET listed == Readdir(vol, x) IN
                    /\ \A e \in listed, f \in listed : e.name = f.name => e = f
                    /\ {e.name : e \in listed} \cap Leaf = {m \in Leaf : Found(vol, x, m) # {}}
                    /\ \A e \in listed : e.name \in Leaf /\ e.stat.type # "link" =>
                         e.stat = Getattr(vol, x, e.name)
  BY OpenedAlive DEF ListedOnce
<1> DEFINE listed == Readdir(vol, x)
           line(p) == [at |-> p, name |-> Slot(vol, x, p).name, stat |-> Stat(vol, Slot(vol, x, p).inum)]
<1>2. listed = {line(p) : p \in Used(vol, x)} BY DEF Readdir, Used
<1>3. ASSUME NEW p \in Used(vol, x)
      PROVE  /\ <<x, p>> \in Entries(vol) /\ NameOf(vol)[<<x, p>>] = Slot(vol, x, p).name
             /\ InumOf(vol)[<<x, p>>] = Slot(vol, x, p).inum
             /\ Slot(vol, x, p).inum \in vol.imap /\ Slot(vol, x, p).inum \in Inodes
             /\ line(p).name = Slot(vol, x, p).name
             /\ line(p).stat.type = vol.inodes[Slot(vol, x, p).inum].type
  <2>1. <<x, p>> \in Entries(vol) BY <1>1, <1>3, EntryIff
  <2>2. /\ NameOf(vol)[<<x, p>>] = Slot(vol, x, p).name
        /\ InumOf(vol)[<<x, p>>] = Slot(vol, x, p).inum
    BY <2>1 DEF NameOf, InumOf
  <2>3. Slot(vol, x, p).inum \in vol.imap /\ Slot(vol, x, p).inum \in Inodes
    BY <1>1, <2>1, <2>2, VolumeFacts DEF Good, Linked
  <2> QED BY <2>1, <2>2, <2>3 DEF Stat
<1> HIDE DEF listed, line
<1>4. ASSUME NEW p \in Used(vol, x), NEW q \in Used(vol, x), line(p).name = line(q).name
      PROVE  line(p) = line(q)
  <2>1. \A y, z \in Entries(vol) : y[1] = z[1] /\ NameOf(vol)[y] = NameOf(vol)[z] => y = z
    BY <1>1 DEF Good, Linked
  <2>2. <<x, p>>[1] = x /\ <<x, q>>[1] = x OBVIOUS
  <2>3. /\ <<x, p>> \in Entries(vol) /\ <<x, q>> \in Entries(vol)
        /\ NameOf(vol)[<<x, p>>] = NameOf(vol)[<<x, q>>]
    BY <1>3, <1>4
  <2>4. <<x, p>> = <<x, q>> BY <2>1, <2>2, <2>3
  <2>5. p = q BY <2>4
  <2> QED BY <2>5
<1>5. ASSUME NEW m \in Leaf
      PROVE  Found(vol, x, m) # {} <=> \E p \in Used(vol, x) : line(p).name = m
  <2>1. ASSUME Found(vol, x, m) # {} PROVE \E p \in Used(vol, x) : line(p).name = m
    <3>1. PICK p \in Places : <<x, p>> \in Entries(vol) /\ NameOf(vol)[<<x, p>>] = m
      BY <1>1, <2>1, FoundAt
    <3>2. p \in Used(vol, x) BY <1>1, <3>1, EntryIff
    <3> QED BY <1>3, <3>1, <3>2
  <2>2. ASSUME NEW p \in Used(vol, x), line(p).name = m PROVE Found(vol, x, m) # {}
    <3>1. <<x, p>> \in Entries(vol) /\ NameOf(vol)[<<x, p>>] = m BY <1>3, <2>2
    <3>2. <<x, p>>[1] = x /\ m \in Names BY <1>1
    <3> QED BY <1>1, <3>1, <3>2, FoundAt
  <2> QED BY <2>1, <2>2
<1>6. ASSUME NEW p \in Used(vol, x), line(p).name \in Leaf, line(p).stat.type # "link"
      PROVE  line(p).stat = Getattr(vol, x, line(p).name)
  <2> DEFINE m == line(p).name
  <2>1. /\ <<x, p>> \in Entries(vol) /\ NameOf(vol)[<<x, p>>] = m
        /\ InumOf(vol)[<<x, p>>] = Slot(vol, x, p).inum /\ m \in Leaf /\ m \in Names
    BY <1>1, <1>3, <1>6
  <2>2. <<x, p>>[1] = x OBVIOUS
  <2> HIDE DEF m
  <2>3. Found(vol, x, m) # {} /\ Slot(vol, x, p).inum = Target(vol, x, m)
    BY <1>1, <2>1, <2>2, FoundAt
  <2>4. vol.inodes[Target(vol, x, m)].type # "link" BY <1>3, <1>6, <2>3
  <2>5. Resolve(vol, x, m) = [found |-> TRUE, inum |-> Target(vol, x, m)]
    BY <2>1, <2>3, <2>4, PlainName
  <2>6. Getattr(vol, x, m) = Stat(vol, Target(vol, x, m)) BY <2>5 DEF Getattr
  <2>7. line(p).stat = Stat(vol, Slot(vol, x, p).inum) BY DEF line
  <2> QED BY <2>3, <2>6, <2>7 DEF m
<1>7. {e.name : e \in listed} \cap Leaf = {m \in Leaf : Found(vol, x, m) # {}}
  BY <1>2, <1>5
<1> QED BY <1>2, <1>4, <1>6, <1>7 DEF listed

\* What a walk through the listings comes across is allocated.
LEMMA WalkedAlive ==
  ASSUME IInv
  PROVE  Walked \subseteq vol.imap
<1>1. vol \in Volume /\ Good(vol) /\ Prefixes(vol) /\ Dirs(vol) \subseteq Alive(vol)
  BY PointersFirst, DirsAlive DEF IInv, Good
<1> SUFFICES ASSUME NEW d \in Dirs(vol), NEW e \in Readdir(vol, d)
             PROVE  e.stat.ino \in vol.imap
  BY DEF Walked
<1>2. PICK p \in Used(vol, d) : e.stat = Stat(vol, Slot(vol, d, p).inum) BY DEF Readdir, Used
<1>3. <<d, p>> \in Entries(vol) BY <1>1, <1>2, EntryIff
<1>4. InumOf(vol)[<<d, p>>] = Slot(vol, d, p).inum BY <1>3 DEF InumOf
<1>5. Slot(vol, d, p).inum \in vol.imap BY <1>1, <1>3, <1>4 DEF Good, Linked
<1>6. Slot(vol, d, p).inum \in Inodes BY <1>1, <1>5, VolumeFacts
<1> QED BY <1>2, <1>5, <1>6 DEF Stat

-----------------------------------------------------------------------------
(* The theorems. *)

\* The invariant holds in every state: names, inodes, blocks, directories and the
\* image agree after every call, those that fail among them, as long as no mkdir
\* failed after its first step: every directory has its . and its ..
THEOREM VolumeInvariant == CarefulSpec /\ []WholeDirs => []IInv
<1>1. HandlesInit => IInv BY InitGood
<1>2. IInv /\ WholeDirs /\ [CarefulStep \/ HandleStep]_handleVars => IInv' BY StepKeeps
<1> QED BY <1>1, <1>2, PTL DEF CarefulSpec

\* Every directory has its . and its .. unless a mkdir is called when fewer than
\* two blocks are free: fs_mkdir takes back nothing when its second or third step
\* fails (fs_op_mkdir.c).
THEOREM RoomIsEnough == CarefulSpec /\ [][MkdirFits]_vol => []WholeDirs
<1>1. HandlesInit => IInv /\ WholeDirs BY InitGood
<1>2. IInv /\ WholeDirs /\ [MkdirFits]_vol /\ [CarefulStep \/ HandleStep]_handleVars
        => IInv' /\ WholeDirs'
  BY StepKeeps
<1> QED BY <1>1, <1>2, PTL DEF CarefulSpec

\* No block is lost, shared or carried over, by calls that fail for want of room
\* either: get_free_blk, return_blk and do_truncate agree (fs_util_meta.c,
\* fs_util_file.c).  As in all that follows, no mkdir failed after its first step.
THEOREM AllocationStaysExact == CarefulSpec /\ []WholeDirs => []AllocationExact
<1>1. IInv => AllocationExact BY AllocationFollows
<1> QED BY <1>1, VolumeInvariant, PTL

\* The reference count of an inode is the number of entries that name it, . and ..
\* among them.
THEOREM LinkCountsStayExact == CarefulSpec /\ []WholeDirs => []LinkCounts
<1>1. IInv => LinkCounts BY CountsFollow
<1> QED BY <1>1, VolumeInvariant, PTL

\* A directory's entries are live, its size counts them, and its . and .. lead to
\* itself and to the directory that holds it.
THEOREM DirectoriesStayExact == CarefulSpec /\ []WholeDirs => []DirectoriesExact
<1>1. IInv /\ WholeDirs => DirectoriesExact BY DirectoriesFollow
<1> QED BY <1>1, VolumeInvariant, PTL

\* Between two calls the image has what a restart needs: flush_metadata is called
\* late enough, and by every call that changed something.
THEOREM ImageStaysCurrent == CarefulSpec /\ []WholeDirs => []ImageCurrent
<1>1. IInv => ImageCurrent BY ImageFollows
<1> QED BY <1>1, VolumeInvariant, PTL

\* fs_readdir gives every name of a directory once, with what fs_getattr says.
THEOREM ListingsAreExact == CarefulSpec /\ []WholeDirs => []ListedOnce
<1>1. IInv => ListedOnce BY ListingFollows
<1> QED BY <1>1, VolumeInvariant, PTL

\* No step changes what a file or a link reads as but a write to it or a truncate of
\* it: do_truncate, get_free_blk and the cleared pointers of a freed inode leave no
\* two files a block, and no restart brings an old pointer back (fs_util_file.c,
\* fs_util_meta.c).
THEOREM BytesAreKept == CarefulSpec /\ []WholeDirs => BytesKept
<1>1. IInv /\ WholeDirs /\ [CarefulStep \/ HandleStep]_handleVars
        => \A i \in vol.imap \cap vol'.imap :
             ~IsDir(vol, i) => Kept(i) \/ Overwritten(i) \/ Emptied(i)
  BY BytesStep
<1> QED BY <1>1, VolumeInvariant, PTL DEF CarefulSpec, BytesKept

-----------------------------------------------------------------------------
(* What is reached from the root. *)

\* What is allocated and not a directory has an entry.
Owned(v) == \A i \in v.imap \ Alive(v) : \E x \in Entries(v) : InumOf(v)[x] = i

\* A set of inodes with the root that no entry for a directory leads out of holds
\* every directory.
Closed(v, S) ==
  /\ Root \in S
  /\ \A x \in Entries(v) : x[1] \in S /\ InumOf(v)[x] \in Alive(v) => InumOf(v)[x] \in S
Reached(v) == \A S \in SUBSET Inodes : Closed(v, S) => Alive(v) \subseteq S

NInv == IInv /\ Owned(vol) /\ Reached(vol)

LEMMA OwnedKept ==
  ASSUME NEW v \in Volume, NEW w \in Volume, Good(v), Good(w), Owned(v), Effect(v, w)
  PROVE  Owned(w)
<1>1. CASE SameNames(v, w) /\ w.imap = v.imap /\ Alive(w) = Alive(v)
  BY <1>1 DEF SameNames, Owned
<1>2. ASSUME NEW d \in Alive(v), NEW p \in Places, NEW n \in Leaf, NEW i \in Inodes \ v.imap,
             NEW t \in {"dir", "file", "link"}, Created(v, w, d, p, n, i, t)
      PROVE  Owned(w)
  <2> SUFFICES ASSUME NEW j \in w.imap \ Alive(w) PROVE \E x \in Entries(w) : InumOf(w)[x] = j
    BY DEF Owned
  <2>1. CASE j = i BY <1>2, <2>1 DEF Created
  <2>2. CASE j # i
    <3>1. j \in v.imap \ Alive(v) BY <1>2, <2>2 DEF Created
    <3>2. PICK x \in Entries(v) : InumOf(v)[x] = j BY <3>1 DEF Owned
    <3> QED BY <1>2, <3>2 DEF Created
  <2> QED BY <2>1, <2>2
<1>3. ASSUME NEW d \in Alive(v), NEW p \in Places, NEW n \in Leaf, NEW i \in v.imap \ Alive(v),
             Named(v, w, d, p, n, i)
      PROVE  Owned(w)
  BY <1>3 DEF Named, Owned
<1>4. ASSUME NEW d \in Alive(v), NEW p \in Places, NEW n \in Leaf, Unlinked(v, w, <<d, p>>, n)
      PROVE  Owned(w)
  <2> DEFINE z == <<d, p>>
  <2> HIDE DEF z
  <2>1. Unlinked(v, w, z, n) BY <1>4 DEF z
  <2> SUFFICES ASSUME NEW j \in w.imap \ Alive(w) PROVE \E x \in Entries(w) : InumOf(w)[x] = j
    BY DEF Owned
  <2>2. CASE j = InumOf(v)[z] BY <2>1, <2>2 DEF Unlinked
  <2>3. CASE j # InumOf(v)[z]
    <3>1. j \in v.imap \ Alive(v) BY <2>1 DEF Unlinked
    <3>2. PICK x \in Entries(v) : InumOf(v)[x] = j BY <3>1 DEF Owned
    <3> QED BY <2>1, <2>3, <3>2 DEF Unlinked
  <2> QED BY <2>2, <2>3
<1>5. ASSUME NEW d \in Alive(v), NEW p \in Places, NEW n \in Leaf, Removed(v, w, <<d, p>>, n)
      PROVE  Owned(w)
  <2> DEFINE z == <<d, p>>
  <2> HIDE DEF z
  <2>1. Removed(v, w, z, n) BY <1>5 DEF z
  <2> SUFFICES ASSUME NEW j \in w.imap \ Alive(w) PROVE \E x \in Entries(w) : InumOf(w)[x] = j
    BY DEF Owned
  <2>2. j \in v.imap \ Alive(v) BY <2>1 DEF Removed
  <2>3. PICK x \in Entries(v) : InumOf(v)[x] = j BY <2>2 DEF Owned
  <2>4. x # z BY <2>1, <2>2, <2>3 DEF Removed
  <2>5. x[1] # InumOf(v)[z]
    <3>1. ASSUME x[1] = InumOf(v)[z] PROVE FALSE
      <4>1. NameOf(v)[x] \in {Dot, DotDot} BY <2>1, <3>1 DEF Removed
      <4>2. x[1] \in Alive(v) BY EntryPairs
      <4>3. InumOf(v)[x] \in Alive(v) BY <4>1, <4>2 DEF Good, Linked
      <4> QED BY <2>2, <2>3, <4>3
    <3> QED BY <3>1
  <2> QED BY <2>1, <2>3, <2>4, <2>5 DEF Removed
<1> QED BY <1>1, <1>2, <1>3, <1>4, <1>5 DEF Effect

LEMMA ReachedKept ==
  ASSUME NEW v \in Volume, NEW w \in Volume, Good(v), Good(w), Reached(v), Effect(v, w)
  PROVE  Reached(w)
<1> SUFFICES ASSUME NEW S \in SUBSET Inodes, Closed(w, S) PROVE Alive(w) \subseteq S
  BY DEF Reached
<1>1. CASE SameNames(v, w) /\ w.imap = v.imap /\ Alive(w) = Alive(v)
  BY <1>1 DEF SameNames, Reached, Closed
<1>2. ASSUME NEW d \in Alive(v), NEW p \in Places, NEW n \in Leaf, NEW i \in Inodes \ v.imap,
             NEW t \in {"dir", "file", "link"}, Created(v, w, d, p, n, i, t)
      PROVE  Alive(w) \subseteq S
  <2>1. Closed(v, S) BY <1>2 DEF Created, Closed
  <2>2. Alive(v) \subseteq S BY <2>1 DEF Reached
  <2>3. i \in Alive(w) => i \in S
    <3>1. <<d, p>>[1] = d OBVIOUS
    <3>2. <<d, p>> \in Entries(w) /\ InumOf(w)[<<d, p>>] = i BY <1>2 DEF Created
    <3> QED BY <2>2, <3>1, <3>2 DEF Closed
  <2> QED BY <1>2, <2>2, <2>3 DEF Created
<1>3. ASSUME NEW d \in Alive(v), NEW p \in Places, NEW n \in Leaf, NEW i \in v.imap \ Alive(v),
             Named(v, w, d, p, n, i)
      PROVE  Alive(w) \subseteq S
  <2>1. Closed(v, S) BY <1>3 DEF Named, Closed
  <2> QED BY <1>3, <2>1 DEF Reached, Named
<1>4. ASSUME NEW d \in Alive(v), NEW p \in Places, NEW n \in Leaf, Unlinked(v, w, <<d, p>>, n)
      PROVE  Alive(w) \subseteq S
  <2> DEFINE z == <<d, p>>
  <2> HIDE DEF z
  <2>1. Unlinked(v, w, z, n) BY <1>4 DEF z
  <2>2. Closed(v, S) BY <2>1 DEF Unlinked, Closed
  <2> QED BY <2>1, <2>2 DEF Reached, Unlinked
<1>5. ASSUME NEW d \in Alive(v), NEW p \in Places, NEW n \in Leaf, Removed(v, w, <<d, p>>, n)
      PROVE  Alive(w) \subseteq S
  <2> DEFINE z == <<d, p>>
             i == InumOf(v)[z]
  <2>1. Removed(v, w, z, n) /\ z[1] = d BY <1>5
  <2> HIDE DEF z
  <2>2. /\ z \in Entries(v) /\ NameOf(v)[z] = n /\ i \in Alive(v) /\ i # d
        /\ Alive(w) = Alive(v) \ {i}
        /\ \A x \in Entries(v) : x # z /\ x[1] # i =>
             x \in Entries(w) /\ NameOf(w)[x] = NameOf(v)[x] /\ InumOf(w)[x] = InumOf(v)[x]
        /\ \A x \in Entries(v) : x[1] = i => NameOf(v)[x] \in {Dot, DotDot}
    BY <2>1 DEF Removed
  <2> HIDE DEF i
  <2>3. i \in Inodes /\ i # Root /\ Root \in Inodes
    <3>1. i # Root BY <2>2 DEF Good, Linked, i
    <3>2. Root \in Alive(v) /\ Alive(v) \subseteq Inodes BY AliveInodes DEF Good, Linked
    <3> QED BY <2>2, <3>1, <3>2
  <2>4. n \notin {Dot, DotDot} /\ Dot # DotDot /\ Names = Leaf \cup {Dot, DotDot}
    BY NamesAssumption DEF Names
  \* the only entries for i are z, its own . and the .. of the directories in it
  <2>5. ASSUME NEW x \in Entries(v), InumOf(v)[x] = i, x # z
        PROVE  x[1] = i
    <3>1. NameOf(v)[x] \in Names /\ x[1] \in Alive(v) BY DEF Good, Linked
    <3>2. NameOf(v)[x] \notin Leaf BY <2>2, <2>5 DEF Good, Linked, i
    <3>3. CASE NameOf(v)[x] = Dot BY <2>5, <3>3 DEF Good, Linked
    <3>4. CASE NameOf(v)[x] = DotDot
      <4>1. x[1] # Root BY <2>3, <2>5, <3>4 DEF Good, Linked
      <4>2. PICK y \in Entries(v) : y[1] = i /\ NameOf(v)[y] \in Leaf
        BY <2>5, <3>4, <4>1 DEF Good, Linked
      <4> QED BY <2>2, <4>2, NamesAssumption
    <3> QED BY <2>4, <3>1, <3>2, <3>3, <3>4
  <2>6. CASE d \in S
    <3> DEFINE R == S \cup {i}
    <3>1. Closed(v, R)
      <4> SUFFICES ASSUME NEW x \in Entries(v), x[1] \in R, InumOf(v)[x] \in Alive(v), InumOf(v)[x] # i
                   PROVE  InumOf(v)[x] \in S
        BY DEF Closed
      <4>1. CASE x[1] = i
        <5>1. NameOf(v)[x] = DotDot
          <6>1. NameOf(v)[x] = Dot => InumOf(v)[x] = i BY <4>1 DEF Good, Linked
          <6> QED BY <2>2, <4>1, <6>1
        <5>2. PICK y \in Entries(v) : y[1] = InumOf(v)[x] /\ NameOf(v)[y] \in Leaf /\ InumOf(v)[y] = i
          BY <2>3, <4>1, <5>1 DEF Good, Linked
        <5>3. y = z BY <2>2, <5>2 DEF Good, Linked, i
        <5> QED BY <2>1, <2>6, <5>2, <5>3
      <4>2. CASE x[1] # i
        <5>1. x # z BY DEF i
        <5>2. x \in Entries(w) /\ InumOf(w)[x] = InumOf(v)[x] /\ InumOf(w)[x] \in Alive(w)
          BY <2>2, <4>2, <5>1
        <5> QED BY <4>2, <5>2 DEF Closed
      <4> QED BY <4>1, <4>2
    <3>2. R \in SUBSET Inodes BY <2>3
    <3>3. Alive(v) \subseteq R BY <3>1, <3>2 DEF Reached
    <3> QED BY <2>2, <3>3
  <2>7. CASE d \notin S
    <3> DEFINE R == S \ {i}
    <3>1. Closed(v, R)
      <4> SUFFICES ASSUME NEW x \in Entries(v), x[1] \in S, x[1] # i, InumOf(v)[x] \in Alive(v)
                   PROVE  InumOf(v)[x] \in R
        BY <2>3 DEF Closed
      <4>1. x # z BY <2>1, <2>7
      <4>2. x \in Entries(w) /\ InumOf(w)[x] = InumOf(v)[x] BY <2>2, <4>1
      <4>3. InumOf(v)[x] # i BY <2>5, <4>1
      <4>4. InumOf(w)[x] \in Alive(w) BY <2>2, <4>2, <4>3
      <4> QED BY <4>2, <4>3, <4>4 DEF Closed
    <3>2. Alive(v) \subseteq R BY <3>1 DEF Reached
    <3> QED BY <2>2, <3>2
  <2> QED BY <2>6, <2>7
<1> QED BY <1>1, <1>2, <1>3, <1>4, <1>5 DEF Effect
\* What is allocated is what a walk from the root comes across.
LEMMA DirsReached ==
  ASSUME NEW v \in Volume, Good(v), Reached(v)
  PROVE  Dirs(v) = Alive(v)
<1>1. Prefixes(v) /\ Alive(v) \subseteq Inodes BY PointersFirst, AliveInodes DEF Good
<1> SUFFICES ASSUME NEW i \in Alive(v), NEW S \in SUBSET Inodes, Root \in S,
                    \A d \in S : IsDir(v, d) => Subdirs(v, d) \subseteq S
             PROVE  i \in S
  BY <1>1, DirsAlive DEF Dirs
<1>2. Closed(v, S)
  <2> SUFFICES ASSUME NEW x \in Entries(v), x[1] \in S, InumOf(v)[x] \in Alive(v)
               PROVE  InumOf(v)[x] \in S
    BY DEF Closed
  <2> DEFINE d == x[1]
             p == x[2]
  <2>1. x = <<d, p>> /\ d \in Alive(v) BY EntryPairs
  <2>2. InumOf(v)[x] = Slot(v, d, p).inum BY DEF InumOf
  <2> HIDE DEF d, p
  <2>3. p \in Used(v, d) BY <1>1, <2>1, EntryIff
  <2>4. InumOf(v)[x] \in Subdirs(v, d) BY <1>1, <2>2, <2>3 DEF Subdirs, Used, Alive
  <2>5. IsDir(v, d) BY <2>1 DEF Alive
  <2> QED BY <2>4, <2>5 DEF d
<1> QED BY <1>2 DEF Reached

LEMMA WalkedAll ==
  ASSUME NInv, WholeDirs
  PROVE  Walked = vol.imap
<1>1. /\ vol \in Volume /\ Good(vol) /\ Prefixes(vol) /\ Dirs(vol) = Alive(vol)
      /\ Owned(vol) /\ Whole(vol) /\ IInv /\ vol.imap \subseteq Inodes
  BY PointersFirst, DirsReached, VolumeFacts DEF NInv, IInv, Good, WholeDirs
<1>2. Walked \subseteq vol.imap BY <1>1, WalkedAlive
<1>3. ASSUME NEW i \in vol.imap PROVE \E x \in Entries(vol) : InumOf(vol)[x] = i
  <2>1. CASE i \notin Alive(vol) BY <1>1, <2>1 DEF Owned
  <2>2. CASE i \in Alive(vol)
    <3>1. Found(vol, i, Dot) # {} /\ Dot \in Names BY <1>1, <2>2 DEF Whole, Names
    <3>2. PICK p \in Places : <<i, p>> \in Entries(vol) /\ NameOf(vol)[<<i, p>>] = Dot
      BY <1>1, <2>2, <3>1, FoundAt
    <3>3. <<i, p>>[1] = i OBVIOUS
    <3>4. InumOf(vol)[<<i, p>>] = i BY <1>1, <3>2, <3>3 DEF Good, Linked
    <3> QED BY <3>2, <3>4
  <2> QED BY <2>1, <2>2
<1>4. ASSUME NEW i \in vol.imap PROVE i \in Walked
  <2>1. PICK x \in Entries(vol) : InumOf(vol)[x] = i BY <1>3
  <2> DEFINE d == x[1]
             p == x[2]
             e == [at |-> p, name |-> Slot(vol, d, p).name, stat |-> Stat(vol, Slot(vol, d, p).inum)]
  <2>2. x = <<d, p>> /\ d \in Alive(vol) BY EntryPairs
  <2>3. Slot(vol, d, p).inum = i BY <2>1 DEF InumOf
  <2>4. d \in Dirs(vol) BY <1>1, <2>2
  <2>5. e.stat.ino = i BY <1>1, <2>3 DEF Stat
  <2>6. e \in Readdir(vol, d)
    <3>1. p \in Used(vol, d)
      <4> HIDE DEF d, p
      <4> QED BY <1>1, <2>2, EntryIff
    <3> QED BY <3>1 DEF Readdir, Used
  <2> HIDE DEF e, d
  <2>7. i \in {f.stat.ino : f \in Readdir(vol, d)} BY <2>5, <2>6
  <2> QED BY <2>4, <2>7 DEF Walked
<1> QED BY <1>2, <1>4

LEMMA UnreachedFollows ==
  ASSUME NInv, WholeDirs
  PROVE  FreeIsUnreached
<1>1. Walked = vol.imap BY WalkedAll
<1>2. vol.bmap = UNION {Ptrs(vol, i) : i \in vol.imap}
  BY AllocationFollows DEF NInv, AllocationExact, BlocksExact
<1>3. vol.imap \subseteq Inodes /\ vol.bmap \subseteq Blks BY VolumeFacts DEF NInv, IInv, Good
<1>4. IsFiniteSet(Inodes) /\ Cardinality(Inodes) = NInodes
      /\ IsFiniteSet(Blks) /\ Cardinality(Blks) = NBlocks
  <2>1. NInodes \in Nat /\ NBlocks \in Nat /\ NInodes \in Int /\ NBlocks \in Int /\ 1 \in Int
    BY SizesAssumption
  <2>2. /\ IsFiniteSet(1 .. NInodes)
        /\ Cardinality(1 .. NInodes) = IF 1 > NInodes THEN 0 ELSE NInodes - 1 + 1
    BY <2>1, FS_Interval
  <2>3. /\ IsFiniteSet(1 .. NBlocks)
        /\ Cardinality(1 .. NBlocks) = IF 1 > NBlocks THEN 0 ELSE NBlocks - 1 + 1
    BY <2>1, FS_Interval
  <2> QED BY <2>1, <2>2, <2>3, SizesAssumption DEF Inodes, Blks
<1>5. Cardinality(Blks \ vol.bmap) = NBlocks - Cardinality(vol.bmap)
  <2>1. Blks \cap vol.bmap = vol.bmap BY <1>3
  <2>2. Cardinality(Blks \ vol.bmap) = Cardinality(Blks) - Cardinality(Blks \cap vol.bmap)
    BY <1>3, <1>4, FS_Difference, FS_Subset
  <2> QED BY <1>4, <2>1, <2>2
<1>6. Cardinality(Inodes \ vol.imap) = NInodes - Cardinality(vol.imap)
  <2>1. Inodes \cap vol.imap = vol.imap BY <1>3
  <2>2. Cardinality(Inodes \ vol.imap) = Cardinality(Inodes) - Cardinality(Inodes \cap vol.imap)
    BY <1>3, <1>4, FS_Difference, FS_Subset
  <2> QED BY <1>4, <2>1, <2>2
<1>7. FreeBlks(vol) = Blks \ vol.bmap /\ FreeInodes(vol) = Inodes \ vol.imap
  BY DEF FreeBlks, FreeInodes, Blks
<1> QED BY <1>1, <1>2, <1>5, <1>6, <1>7 DEF FreeIsUnreached, Statfs

-----------------------------------------------------------------------------
(* The volume as the tree of Namespace. *)

Kind(v) == [i \in Inodes |-> IF i \in v.imap THEN v.inodes[i].type ELSE "none"]
Child(v) == [d \in Inodes |-> [n \in Leaf |->
              IF d \in Alive(v) /\ Found(v, d, n) # {} THEN Target(v, d, n) ELSE Wild]]
Says(v, d, n, i) == \E x \in Entries(v) : x[1] = d /\ NameOf(v)[x] = n /\ InumOf(v)[x] = i

LEMMA ChildAt ==
  ASSUME NEW v \in Volume, Good(v)
  PROVE  /\ Child(v) \in [Inodes -> [Leaf -> Inodes \cup {Wild}]]
         /\ \A d \in Inodes, n \in Leaf, i \in Inodes : Child(v)[d][n] = i <=> Says(v, d, n, i)
<1>1. /\ Leaf \subseteq Names /\ v.imap \subseteq Inodes /\ Wild \notin Inodes
      /\ \A x \in Entries(v) : InumOf(v)[x] \in v.imap
  BY VolumeFacts DEF Names, Good, Linked, Wild, Inodes
<1>2. ASSUME NEW d \in Inodes, NEW n \in Leaf
      PROVE  /\ Child(v)[d][n] \in Inodes \cup {Wild}
             /\ \A i \in Inodes : Child(v)[d][n] = i <=> Says(v, d, n, i)
  <2>1. Child(v)[d][n] = IF d \in Alive(v) /\ Found(v, d, n) # {} THEN Target(v, d, n) ELSE Wild
    BY DEF Child
  <2>2. CASE d \in Alive(v) /\ Found(v, d, n) # {}
    <3>1. PICK p \in Places : /\ <<d, p>> \in Entries(v) /\ NameOf(v)[<<d, p>>] = n
                              /\ InumOf(v)[<<d, p>>] = Target(v, d, n)
      BY <1>1, <2>2, FoundAt
    <3>2. <<d, p>>[1] = d OBVIOUS
    <3>3. Says(v, d, n, Target(v, d, n)) BY <3>1, <3>2 DEF Says
    <3>4. \A i : Says(v, d, n, i) => i = Target(v, d, n) BY <1>1, <2>2, FoundAt DEF Says
    <3> QED BY <1>1, <2>1, <2>2, <3>1, <3>3, <3>4
  <2>3. CASE ~(d \in Alive(v) /\ Found(v, d, n) # {})
    <3>1. \A i : ~Says(v, d, n, i) BY <1>1, <2>3, FoundAt, EntryPairs DEF Says
    <3> QED BY <1>1, <2>1, <2>3, <3>1
  <2> QED BY <2>2, <2>3
<1> QED BY <1>2 DEF Child

\* The tables differ where the entries do.
Differ(v, w, d, n, c) == \A e \in Inodes, m \in Leaf, i \in Inodes :
  Says(w, e, m, i) <=> IF e = d /\ m = n THEN i = c ELSE Says(v, e, m, i)

LEMMA ChildChange ==
  ASSUME NEW v \in Volume, Good(v), NEW w \in Volume, Good(w),
         NEW d \in Inodes, NEW n \in Leaf, NEW c \in Inodes \cup {Wild}, Differ(v, w, d, n, c)
  PROVE  Child(w) = [Child(v) EXCEPT ![d][n] = c]
<1> DEFINE N == [Child(v) EXCEPT ![d][n] = c]
<1>1. /\ Child(v) \in [Inodes -> [Leaf -> Inodes \cup {Wild}]]
      /\ Child(w) \in [Inodes -> [Leaf -> Inodes \cup {Wild}]]
      /\ Wild \notin Inodes
  BY ChildAt DEF Wild, Inodes
<1>2. /\ N \in [Inodes -> [Leaf -> Inodes \cup {Wild}]]
      /\ \A e \in Inodes, m \in Leaf : N[e][m] = IF e = d /\ m = n THEN c ELSE Child(v)[e][m]
  BY <1>1
<1> HIDE DEF N
<1>3. ASSUME NEW e \in Inodes, NEW m \in Leaf PROVE Child(w)[e][m] = N[e][m]
  <2>1. \A i \in Inodes : Child(w)[e][m] = i <=> Says(w, e, m, i) BY ChildAt
  <2>2. \A i \in Inodes : Child(v)[e][m] = i <=> Says(v, e, m, i) BY ChildAt
  <2>3. \A i \in Inodes : Child(w)[e][m] = i <=> N[e][m] = i
    BY <1>2, <2>1, <2>2 DEF Differ
  <2>4. Child(w)[e][m] \in Inodes \cup {Wild} /\ N[e][m] \in Inodes \cup {Wild} BY <1>1, <1>2
  <2> QED BY <1>1, <2>3, <2>4
<1>4. \A e \in Inodes : Child(w)[e] = N[e] BY <1>1, <1>2, <1>3
<1>5. Child(w) = N BY <1>1, <1>2, <1>4
<1> QED BY <1>5 DEF N

\* A directory has the names its entries say, each once.
LEMMA SaysOnce ==
  ASSUME NEW v, Good(v), NEW d, NEW n, NEW i, NEW j, Says(v, d, n, i), Says(v, d, n, j)
  PROVE  i = j
BY DEF Says, Good, Linked

LEMMA SameTree ==
  ASSUME NEW v \in Volume, NEW w \in Volume, Good(v), Good(w), SameNames(v, w), w.imap = v.imap,
         Alive(w) = Alive(v), \A j \in v.imap : w.inodes[j].type = v.inodes[j].type
  PROVE  Kind(w) = Kind(v) /\ Child(w) = Child(v)
<1>1. Kind(w) = Kind(v) BY DEF Kind
<1>2. \A d, n, i : Says(w, d, n, i) <=> Says(v, d, n, i) BY DEF SameNames, Says
<1>3. /\ Child(v) \in [Inodes -> [Leaf -> Inodes \cup {Wild}]]
      /\ Child(w) \in [Inodes -> [Leaf -> Inodes \cup {Wild}]]
      /\ Wild \notin Inodes
  BY ChildAt DEF Wild, Inodes
<1>4. ASSUME NEW e \in Inodes, NEW m \in Leaf PROVE Child(w)[e][m] = Child(v)[e][m]
  <2>1. \A i \in Inodes : Child(w)[e][m] = i <=> Says(w, e, m, i) BY ChildAt
  <2>2. \A i \in Inodes : Child(v)[e][m] = i <=> Says(v, e, m, i) BY ChildAt
  <2>3. Child(w)[e][m] \in Inodes \cup {Wild} /\ Child(v)[e][m] \in Inodes \cup {Wild} BY <1>3
  <2> QED BY <1>2, <1>3, <2>1, <2>2, <2>3
<1>5. \A e \in Inodes : Child(w)[e] = Child(v)[e] BY <1>3, <1>4
<1> QED BY <1>1, <1>3, <1>5

LEMMA CreatedTree ==
  ASSUME NEW v \in Volume, NEW w \in Volume, Good(v), Good(w), NEW d \in Alive(v), NEW p \in Places,
         NEW n \in Leaf, NEW i \in Inodes \ v.imap, NEW t \in {"dir", "file", "link"},
         Created(v, w, d, p, n, i, t)
  PROVE  /\ Kind(v)[d] = "dir" /\ Child(v)[d][n] = Wild /\ Kind(v)[i] = "none"
         /\ Kind(w) = [Kind(v) EXCEPT ![i] = t]
         /\ Child(w) = [Child(v) EXCEPT ![d][n] = i]
<1> DEFINE z == <<d, p>>
<1>1. z[1] = d OBVIOUS
<1> HIDE DEF z
<1>2. /\ w.imap = v.imap \cup {i}
      /\ z \in Entries(w) \ Entries(v) /\ NameOf(w)[z] = n /\ InumOf(w)[z] = i
      /\ Entries(v) \subseteq Entries(w)
      /\ \A x \in Entries(v) : NameOf(w)[x] = NameOf(v)[x] /\ InumOf(w)[x] = InumOf(v)[x]
      /\ \A x \in Entries(w) \ Entries(v) : x = z \/ (x[1] = i /\ NameOf(w)[x] \in {Dot, DotDot})
      /\ \A j \in v.imap : w.inodes[j].type = v.inodes[j].type
      /\ w.inodes[i].type = t
  BY DEF Created, z
<1>3. d \in v.imap /\ d \in Inodes /\ v.inodes[d].type = "dir" /\ v.imap \subseteq Inodes
  BY AliveInodes
<1>4. Kind(v)[d] = "dir" /\ Kind(v)[i] = "none" BY <1>3 DEF Kind
<1>5. Kind(w) = [Kind(v) EXCEPT ![i] = t]
  <2>1. \A j \in Inodes : Kind(w)[j] = [Kind(v) EXCEPT ![i] = t][j] BY <1>2 DEF Kind
  <2> QED BY <2>1 DEF Kind
<1>6. n \notin {Dot, DotDot} /\ \A m \in Leaf : m \notin {Dot, DotDot} BY NamesAssumption
<1>7. \A j : ~Says(v, d, n, j)
  <2> SUFFICES ASSUME NEW x \in Entries(v), x[1] = d, NameOf(v)[x] = n PROVE FALSE BY DEF Says
  <2>1. x \in Entries(w) /\ NameOf(w)[x] = n BY <1>2
  <2>2. x = z BY <1>1, <1>2, <2>1 DEF Good, Linked
  <2> QED BY <1>2, <2>2
<1>8. ASSUME NEW e \in Inodes, NEW m \in Leaf, NEW j \in Inodes
      PROVE  Says(w, e, m, j) <=> IF e = d /\ m = n THEN j = i ELSE Says(v, e, m, j)
  <2>1. Says(v, e, m, j) => Says(w, e, m, j) BY <1>2 DEF Says
  <2>2. Says(w, e, m, j) => Says(v, e, m, j) \/ (e = d /\ m = n /\ j = i)
    BY <1>1, <1>2, <1>6 DEF Says
  <2>3. Says(w, d, n, i) BY <1>1, <1>2 DEF Says
  <2> QED BY <1>7, <2>1, <2>2, <2>3
<1>9. Child(w) = [Child(v) EXCEPT ![d][n] = i]
  <2>1. Differ(v, w, d, n, i) BY <1>8 DEF Differ
  <2>2. i \in Inodes \cup {Wild} OBVIOUS
  <2> QED BY <1>3, <2>1, <2>2, ChildChange
<1>10. Child(v)[d][n] = Wild BY <1>3, <1>7, ChildAt
<1> QED BY <1>4, <1>5, <1>9, <1>10

LEMMA NamedTree ==
  ASSUME NEW v \in Volume, NEW w \in Volume, Good(v), Good(w), NEW d \in Alive(v), NEW p \in Places,
         NEW n \in Leaf, NEW i \in v.imap \ Alive(v), Named(v, w, d, p, n, i)
  PROVE  /\ Kind(v)[d] = "dir" /\ Child(v)[d][n] = Wild /\ Kind(v)[i] \notin {"none", "dir"}
         /\ i \in Inodes /\ Kind(w) = Kind(v) /\ Child(w) = [Child(v) EXCEPT ![d][n] = i]
<1> DEFINE z == <<d, p>>
<1>1. z[1] = d OBVIOUS
<1> HIDE DEF z
<1>2. /\ w.imap = v.imap
      /\ z \notin Entries(v) /\ Entries(w) = Entries(v) \cup {z}
      /\ NameOf(w)[z] = n /\ InumOf(w)[z] = i
      /\ \A x \in Entries(v) : NameOf(w)[x] = NameOf(v)[x] /\ InumOf(w)[x] = InumOf(v)[x]
      /\ \A j \in Inodes : w.inodes[j].type = v.inodes[j].type
  BY DEF Named, z
<1>3. d \in v.imap /\ d \in Inodes /\ v.inodes[d].type = "dir" /\ v.imap \subseteq Inodes
      /\ i \in Inodes /\ v.inodes[i].type # "dir"
  BY AliveInodes
<1>4. v.inodes[i].type # "none" BY DEF Good, Contents, Content
<1>5. Kind(v)[d] = "dir" /\ Kind(v)[i] \notin {"none", "dir"} /\ Kind(w) = Kind(v)
  BY <1>2, <1>3, <1>4 DEF Kind
<1>6. \A j : ~Says(v, d, n, j)
  <2> SUFFICES ASSUME NEW x \in Entries(v), x[1] = d, NameOf(v)[x] = n PROVE FALSE BY DEF Says
  <2>1. x \in Entries(w) /\ NameOf(w)[x] = n BY <1>2
  <2>2. x = z BY <1>1, <1>2, <2>1 DEF Good, Linked
  <2> QED BY <1>2, <2>2
<1>7. ASSUME NEW e \in Inodes, NEW m \in Leaf, NEW j \in Inodes
      PROVE  Says(w, e, m, j) <=> IF e = d /\ m = n THEN j = i ELSE Says(v, e, m, j)
  <2>1. Says(v, e, m, j) => Says(w, e, m, j) BY <1>2 DEF Says
  <2>2. Says(w, e, m, j) => Says(v, e, m, j) \/ (e = d /\ m = n /\ j = i)
    BY <1>1, <1>2 DEF Says
  <2>3. Says(w, d, n, i) BY <1>1, <1>2 DEF Says
  <2> QED BY <1>6, <2>1, <2>2, <2>3
<1>8. Child(w) = [Child(v) EXCEPT ![d][n] = i]
  <2>1. Differ(v, w, d, n, i) BY <1>7 DEF Differ
  <2>2. i \in Inodes \cup {Wild} BY <1>3
  <2> QED BY <1>3, <2>1, <2>2, ChildChange
<1>9. Child(v)[d][n] = Wild BY <1>3, <1>6, ChildAt
<1> QED BY <1>3, <1>5, <1>8, <1>9

\* What is allocated has a name.
LEMMA AllNamed ==
  ASSUME NEW v \in Volume, Good(v), Owned(v), Whole(v), NEW i \in v.imap, i # Root
  PROVE  \E d \in Inodes, n \in Leaf : Says(v, d, n, i)
<1>1. /\ Names = Leaf \cup {Dot, DotDot} /\ Alive(v) \subseteq Inodes
      /\ \A x \in Entries(v) : x[1] \in Alive(v) /\ NameOf(v)[x] \in Names
  BY AliveInodes DEF Names, Good, Linked
<1>2. CASE i \notin Alive(v)
  <2>1. PICK x \in Entries(v) : InumOf(v)[x] = i BY <1>2 DEF Owned
  <2>2. NameOf(v)[x] # Dot BY <1>1, <1>2, <2>1 DEF Good, Linked
  <2>3. NameOf(v)[x] # DotDot BY <1>2, <2>1 DEF Good, Linked
  <2>4. NameOf(v)[x] \in Leaf /\ x[1] \in Inodes BY <1>1, <2>2, <2>3
  <2> QED BY <2>1, <2>4 DEF Says
<1>3. CASE i \in Alive(v)
  <2>1. Found(v, i, DotDot) # {} /\ DotDot \in Names BY <1>1, <1>3 DEF Whole
  <2>2. PICK p \in Places : <<i, p>> \in Entries(v) /\ NameOf(v)[<<i, p>>] = DotDot
    BY <1>3, <2>1, FoundAt
  <2>3. <<i, p>>[1] = i OBVIOUS
  <2>4. PICK y \in Entries(v) : NameOf(v)[y] \in Leaf /\ InumOf(v)[y] = i
    BY <2>2, <2>3 DEF Good, Linked
  <2>5. y[1] \in Inodes BY <1>1
  <2> QED BY <2>4, <2>5 DEF Says
<1> QED BY <1>2, <1>3

\* As long as every directory has its .., what is allocated has a name.
LEMMA TreeIs == NInv /\ WholeDirs => NodeKind = Kind(vol) /\ NodeChild = Child(vol)
<1> SUFFICES ASSUME NInv, WholeDirs PROVE NodeKind = Kind(vol) /\ NodeChild = Child(vol)
  OBVIOUS
<1>1. vol \in Volume /\ Good(vol) /\ Owned(vol) /\ Whole(vol) /\ Leaf \subseteq Names
  BY DEF NInv, IInv, Good, WholeDirs, Names
<1>2. ASSUME NEW i \in vol.imap PROVE NodeNamed(i)
  <2>1. CASE i = Root BY <2>1 DEF NodeNamed
  <2>2. CASE i # Root
    <3>1. PICK d \in Inodes, n \in Leaf : Says(vol, d, n, i) BY <1>1, <2>2, AllNamed
    <3>2. PICK x \in Entries(vol) : x[1] = d /\ NameOf(vol)[x] = n /\ InumOf(vol)[x] = i
      BY <3>1 DEF Says
    <3>3. d \in Alive(vol) BY <3>2, EntryPairs
    <3>4. Found(vol, d, n) # {} /\ Target(vol, d, n) = i BY <1>1, <3>2, <3>3, FoundAt
    <3> QED BY <3>3, <3>4, LiveDirsAre DEF NodeNamed
  <2> QED BY <2>1, <2>2
<1>3. NodeKind = Kind(vol) BY <1>1, <1>2, VolumeFacts DEF NodeKind, Kind
<1>4. NodeChild = Child(vol) BY LiveDirsAre DEF NodeChild, Child
<1> QED BY <1>3, <1>4

\* A node that has lost its last name is gone.
LEMMA LostTree ==
  ASSUME NEW v \in Volume, NEW w \in Volume, Good(v), Good(w), Owned(w), Whole(w),
         NEW d \in Alive(v), NEW p \in Places, NEW n \in Leaf,
         Unlinked(v, w, <<d, p>>, n) \/ Removed(v, w, <<d, p>>, n)
  PROVE  /\ Kind(v)[d] = "dir" /\ Child(v)[d][n] \in Inodes
         /\ Kind(v)[Child(v)[d][n]] = "dir" => \A m \in Leaf : Child(v)[Child(v)[d][n]][m] = Wild
         /\ Child(w) = [Child(v) EXCEPT ![d][n] = Wild]
         /\ Kind(w) = [i \in Inodes |-> IF i = Root \/ \E e \in Inodes, m \in Leaf : Child(w)[e][m] = i
                                        THEN Kind(v)[i] ELSE "none"]
<1> DEFINE z == <<d, p>>
           i == InumOf(v)[z]
<1>1. z[1] = d OBVIOUS
<1>2. Unlinked(v, w, z, n) \/ Removed(v, w, z, n) OBVIOUS
<1> HIDE DEF z
<1>3. /\ z \in Entries(v) /\ NameOf(v)[z] = n
      /\ Entries(w) \subseteq Entries(v) /\ z \notin Entries(w) /\ w.imap \subseteq v.imap
      /\ \A x \in Entries(w) : NameOf(w)[x] = NameOf(v)[x] /\ InumOf(w)[x] = InumOf(v)[x]
      /\ \A j \in Inodes : w.inodes[j].type = v.inodes[j].type
  BY <1>2 DEF Unlinked, Removed
<1>4. /\ \A x \in Entries(v) : NameOf(v)[x] \in Leaf /\ x # z => x \in Entries(w)
      /\ \A x \in Entries(v) : i \in Alive(v) /\ x[1] = i => NameOf(v)[x] \notin Leaf
  BY <1>2, NamesAssumption DEF Unlinked, Removed
<1>5. d \in v.imap /\ d \in Inodes /\ v.inodes[d].type = "dir" /\ v.imap \subseteq Inodes
  BY AliveInodes
<1>6. i \in v.imap /\ i \in Inodes BY <1>3, <1>5 DEF Good, Linked
<1> HIDE DEF i
<1>7. Says(v, d, n, i) BY <1>1, <1>3 DEF Says, i
<1>8. Child(v)[d][n] = i BY <1>5, <1>6, <1>7, ChildAt
<1>9. Kind(v)[d] = "dir" BY <1>5 DEF Kind
<1>10. ASSUME Kind(v)[i] = "dir", NEW m \in Leaf PROVE Child(v)[i][m] = Wild
  <2>1. i \in Alive(v) BY <1>6, <1>10, AliveInodes DEF Kind
  <2>2. \A j : ~Says(v, i, m, j) BY <1>4, <2>1 DEF Says
  <2> QED BY <1>6, <2>2, ChildAt
<1>11. Child(w) = [Child(v) EXCEPT ![d][n] = Wild]
  <2>1. ASSUME NEW e \in Inodes, NEW m \in Leaf, NEW j \in Inodes
        PROVE  Says(w, e, m, j) <=> IF e = d /\ m = n THEN j = Wild ELSE Says(v, e, m, j)
    <3>1. Says(w, e, m, j) => Says(v, e, m, j) BY <1>3 DEF Says
    <3>2. ~Says(w, d, n, j)
      <4> SUFFICES ASSUME NEW x \in Entries(w), x[1] = d, NameOf(w)[x] = n PROVE FALSE BY DEF Says
      <4>1. x \in Entries(v) /\ NameOf(v)[x] = n BY <1>3
      <4>2. x = z BY <1>1, <1>3, <4>1 DEF Good, Linked
      <4> QED BY <1>3, <4>2
    <3>3. Says(v, e, m, j) => Says(w, e, m, j) \/ (e = d /\ m = n) BY <1>1, <1>3, <1>4 DEF Says
    <3>4. j # Wild BY DEF Wild, Inodes
    <3> QED BY <3>1, <3>2, <3>3, <3>4
  <2>2. Differ(v, w, d, n, Wild) BY <2>1 DEF Differ
  <2>3. Wild \in Inodes \cup {Wild} OBVIOUS
  <2> QED BY <1>5, <2>2, <2>3, ChildChange
<1>12. ASSUME NEW j \in Inodes
       PROVE  Kind(w)[j] = IF j = Root \/ \E e \in Inodes, m \in Leaf : Child(w)[e][m] = j
                           THEN Kind(v)[j] ELSE "none"
  <2>1. (\E e \in Inodes, m \in Leaf : Child(w)[e][m] = j)
          <=> \E e \in Inodes, m \in Leaf : Says(w, e, m, j)
    BY ChildAt
  <2>2. j # Root => (j \in w.imap <=> \E e \in Inodes, m \in Leaf : Says(w, e, m, j))
    <3>1. \A e, m : Says(w, e, m, j) => j \in w.imap BY DEF Says, Good, Linked
    <3> QED BY <3>1, AllNamed
  <2>3. Root \in w.imap BY DEF Good, Linked
  <2>4. j \in w.imap => Kind(w)[j] = Kind(v)[j] BY <1>3 DEF Kind
  <2>5. j \notin w.imap => Kind(w)[j] = "none" BY DEF Kind
  <2> QED BY <2>1, <2>2, <2>3, <2>4, <2>5
<1>13. Kind(w) = [j \in Inodes |-> IF j = Root \/ \E e \in Inodes, m \in Leaf : Child(w)[e][m] = j
                                   THEN Kind(v)[j] ELSE "none"]
  BY <1>12 DEF Kind
<1> QED BY <1>6, <1>8, <1>9, <1>10, <1>11, <1>13

-----------------------------------------------------------------------------
(* Every step keeps the invariant and is a step of Namespace, or none. *)

LEMMA StepEffect ==
  ASSUME IInv, WholeDirs, [CarefulStep \/ HandleStep]_handleVars
  PROVE  Effect(vol, vol')
<1>1. vol \in Volume /\ Clean(vol) /\ Good(vol) BY DEF IInv, Good, Clean
<1>2. CASE CarefulStep
  <2>1. Next BY <1>2 DEF CarefulStep, CallStep
  <2> QED BY <1>1, <2>1, NextClean
<1>3. CASE WriteHandle
  <2>1. PICK t \in Data : fh # 0 /\ vol' = DoWrite(vol, fh, t).vol BY <1>3 DEF WriteHandle
  <2>2. fh \in vol.imap /\ vol.inodes[fh].type = "file" BY <2>1 DEF IInv, Handle
  <2>3. /\ SameNames(vol, vol') /\ Alive(vol') = Alive(vol) /\ vol'.imap = vol.imap
        /\ \A j \in Inodes : vol'.inodes[j].type = vol.inodes[j].type
    BY <1>1, <2>1, <2>2, WriteClean
  <2> QED BY <1>1, <2>3, SameEffect
<1>4. ASSUME vol' = vol PROVE Effect(vol, vol') BY <1>4, NoEffect
<1>5. CASE Release BY <1>4, <1>5 DEF Release
<1>6. CASE \E d \in Dirs(vol), n \in Leaf : Open(d, n) BY <1>4, <1>6 DEF Open
<1>7. CASE UNCHANGED handleVars BY <1>4, <1>7 DEF handleVars
<1> QED BY <1>2, <1>3, <1>5, <1>6, <1>7 DEF HandleStep

LEMMA NInvKept ==
  ASSUME NInv, WholeDirs, [CarefulStep \/ HandleStep]_handleVars
  PROVE  NInv'
<1>1. IInv' /\ Effect(vol, vol') BY StepKeeps, StepEffect DEF NInv
<1>2. vol \in Volume /\ Good(vol) /\ Owned(vol) /\ Reached(vol) BY DEF NInv, IInv, Good
<1>3. vol' \in Volume /\ Good(vol') BY <1>1 DEF IInv, Good
<1>4. Owned(vol') /\ Reached(vol') BY <1>1, <1>2, <1>3, OwnedKept, ReachedKept
<1> QED BY <1>1, <1>4 DEF NInv

LEMMA TreeStep ==
  ASSUME NInv, WholeDirs, NInv', WholeDirs', Effect(vol, vol')
  PROVE  [Tree!Next]_<<NodeKind, NodeChild>>
<1> DEFINE v == vol
           w == vol'
<1>1. NodeKind = Kind(v) /\ NodeChild = Child(v) BY TreeIs
<1>2. NodeKind' = Kind(w) /\ NodeChild' = Child(w)
  <2>1. (NodeKind = Kind(vol) /\ NodeChild = Child(vol))'
    <3>1. NInv' /\ WholeDirs' OBVIOUS
    <3> QED BY <3>1, TreeIs, PTL
  <2> QED BY <2>1
<1>3. /\ v \in Volume /\ Good(v) /\ Alive(v) \subseteq Inodes
      /\ w \in Volume /\ Good(w) /\ Owned(w) /\ Whole(w)
  BY AliveInodes DEF NInv, IInv, Good, WholeDirs
<1>4. \A d \in Inodes, n \in Leaf : Tree!IsDirectory(d) <=> Kind(v)[d] = "dir"
  BY <1>1 DEF Tree!IsDirectory
<1> HIDE DEF v, w
<1>5. CASE /\ SameNames(v, w) /\ w.imap = v.imap /\ Alive(w) = Alive(v)
           /\ \A j \in v.imap : w.inodes[j].type = v.inodes[j].type
  BY <1>1, <1>2, <1>3, <1>5, SameTree
<1>6. ASSUME NEW d \in Alive(v), NEW p \in Places, NEW n \in Leaf, NEW i \in Inodes \ v.imap,
             NEW t \in {"dir", "file", "link"}, Created(v, w, d, p, n, i, t)
      PROVE  Tree!Next
  <2>1. /\ Kind(v)[d] = "dir" /\ Child(v)[d][n] = Wild /\ Kind(v)[i] = "none"
        /\ Kind(w) = [Kind(v) EXCEPT ![i] = t]
        /\ Child(w) = [Child(v) EXCEPT ![d][n] = i]
    BY <1>3, <1>6, CreatedTree
  <2>2. Tree!Create(d, n, i, t) BY <1>1, <1>2, <2>1 DEF Tree!Create, Tree!IsDirectory
  <2>3. d \in Inodes /\ i \in Inodes BY <1>3
  <2> QED BY <2>2, <2>3 DEF Tree!Next
<1>7. ASSUME NEW d \in Alive(v), NEW p \in Places, NEW n \in Leaf, NEW i \in v.imap \ Alive(v),
             Named(v, w, d, p, n, i)
      PROVE  Tree!Next
  <2>1. /\ Kind(v)[d] = "dir" /\ Child(v)[d][n] = Wild /\ Kind(v)[i] \notin {"none", "dir"}
        /\ i \in Inodes /\ Kind(w) = Kind(v) /\ Child(w) = [Child(v) EXCEPT ![d][n] = i]
    BY <1>3, <1>7, NamedTree
  <2>2. Tree!AddName(d, n, i) BY <1>1, <1>2, <2>1 DEF Tree!AddName, Tree!IsDirectory
  <2>3. d \in Inodes BY <1>3
  <2> QED BY <2>1, <2>2, <2>3 DEF Tree!Next
<1>8. ASSUME NEW d \in Alive(v), NEW p \in Places, NEW n \in Leaf,
             Unlinked(v, w, <<d, p>>, n) \/ Removed(v, w, <<d, p>>, n)
      PROVE  Tree!Next
  <2>1. /\ Kind(v)[d] = "dir" /\ Child(v)[d][n] \in Inodes
        /\ Kind(v)[Child(v)[d][n]] = "dir" => \A m \in Leaf : Child(v)[Child(v)[d][n]][m] = Wild
        /\ Child(w) = [Child(v) EXCEPT ![d][n] = Wild]
        /\ Kind(w) = [i \in Inodes |-> IF i = Root \/ \E e \in Inodes, m \in Leaf : Child(w)[e][m] = i
                                       THEN Kind(v)[i] ELSE "none"]
    BY <1>3, <1>8, LostTree
  <2>2. Child(v)[d][n] # Wild BY <2>1 DEF Wild, Inodes
  <2>3. Tree!Settle([Child(v) EXCEPT ![d][n] = Wild])
    BY <1>1, <1>2, <2>1 DEF Tree!Settle, Tree!Named
  <2>4. Tree!Remove(d, n)
    BY <1>1, <2>1, <2>2, <2>3 DEF Tree!Remove, Tree!IsDirectory, Tree!Empty
  <2>5. d \in Inodes BY <1>3
  <2> QED BY <2>4, <2>5 DEF Tree!Next
<1>9. Effect(v, w) BY DEF v, w
<1> QED BY <1>5, <1>6, <1>7, <1>8, <1>9 DEF Effect

LEMMA InitTree ==
  ASSUME HandlesInit
  PROVE  NInv /\ WholeDirs /\ Tree!Init
<1>1. IInv /\ WholeDirs BY InitGood
<1>2. /\ vol \in Volume /\ Good(vol) /\ vol.imap = {Root} /\ Alive(vol) = {Root} /\ Root \in Inodes
      /\ vol.inodes[Root].type = "dir"
  BY <1>1, InitIs, InitEntries DEF IInv
<1>3. Owned(vol) BY <1>2 DEF Owned
<1>4. Reached(vol) BY <1>2 DEF Reached, Closed
<1>5. \A d, n, i : n \in Leaf => ~Says(vol, d, n, i)
  <2>1. Dot \notin Leaf /\ DotDot \notin Leaf BY NamesAssumption
  <2>2. \A x \in Entries(vol) : NameOf(vol)[x] \in {Dot, DotDot} BY InitEntries
  <2> QED BY <2>1, <2>2 DEF Says
<1>6. NodeChild = [d \in Inodes |-> [n \in Leaf |-> Wild]]
  <2>1. Child(vol) \in [Inodes -> [Leaf -> Inodes \cup {Wild}]] BY <1>2, ChildAt
  <2>2. \A d \in Inodes, n \in Leaf : Child(vol)[d][n] = Wild BY <1>2, <1>5, <2>1, ChildAt
  <2>3. \A d \in Inodes : Child(vol)[d] = [n \in Leaf |-> Wild] BY <2>1, <2>2
  <2> QED BY <1>1, <1>3, <1>4, <2>1, <2>3, TreeIs DEF NInv
<1>7. NodeKind = [i \in Inodes |-> IF i = Root THEN "dir" ELSE "none"]
  BY <1>1, <1>2, <1>3, <1>4, TreeIs DEF Kind, NInv
<1> QED BY <1>1, <1>3, <1>4, <1>6, <1>7 DEF NInv, Tree!Init

-----------------------------------------------------------------------------
(* The theorems. *)

\* What is allocated has a name, and a directory is reached from the root.
THEOREM EverythingIsReached == CarefulSpec /\ []WholeDirs => []NInv
<1>1. HandlesInit => NInv BY InitTree
<1>2. NInv /\ WholeDirs /\ [CarefulStep \/ HandleStep]_handleVars => NInv' BY NInvKept
<1> QED BY <1>1, <1>2, PTL DEF CarefulSpec

\* What fs_statfs calls free is what no listing leads to: as long as every directory
\* has its . and its .., no call loses an inode or a block (fs_op_statfs.c,
\* fs_util_meta.c).  A directory without them can lose both, when rmdir takes it for
\* empty.
THEOREM NothingIsLost == CarefulSpec /\ []WholeDirs => []FreeIsUnreached
<1>1. NInv /\ WholeDirs => FreeIsUnreached BY UnreachedFollows
<1> QED BY <1>1, EverythingIsReached, PTL

\* As long as every directory has its . and its .., the calls of fs_ops do to the
\* names what Namespace says and a restart does nothing to them.  A mkdir that fails
\* after its first step is excluded: the directory it leaves can have two names and
\* be removed with them.
THEOREM NamespaceRefinement == CarefulSpec /\ []WholeDirs => ImplementsNamespace
<1>1. HandlesInit => Tree!Init BY InitTree
<1>2. NInv /\ WholeDirs /\ NInv' /\ WholeDirs' /\ [CarefulStep \/ HandleStep]_handleVars
        => [Tree!Next]_<<NodeKind, NodeChild>>
  <2>1. NInv /\ WholeDirs /\ [CarefulStep \/ HandleStep]_handleVars => Effect(vol, vol')
    BY StepEffect DEF NInv
  <2> QED BY <2>1, TreeStep
<1> QED BY <1>1, <1>2, EverythingIsReached, PTL DEF CarefulSpec, ImplementsNamespace, Tree!Spec

=============================================================================
