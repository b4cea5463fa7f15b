---------------------------- MODULE FsFileProofs ----------------------------
(***************************************************************************)
(* Theorems about FsFile, for every number of files, of pointers and of    *)
(* blocks, and files of any size.                                          *)
(***************************************************************************)
EXTENDS FsFile, WellFoundedInduction, NaturalsInduction, FunctionTheorems, FiniteSetTheorems,
        SequenceTheorems, TLAPS

-----------------------------------------------------------------------------
(* The volume as places that hold pointers. *)

Stored == 0 .. NBlocks \cup {Byte[f] : f \in Files}
VolumeType == [size : [Files -> Nat], ptr : [Files -> [0 .. Indir2 -> 0 .. NBlocks]],
               used : SUBSET Blocks, blocks : [Blocks -> [Cell -> Stored]], beyond : BOOLEAN]

\* the pointer blocks of f, and all places where it keeps a pointer
Heads(v, f) == ({v.ptr[f][Indir1], v.ptr[f][Indir2]} \cup In(v, v.ptr[f][Indir2])) \ {0}
Places(v, f) == ({0} \X (0 .. Indir2)) \cup (Heads(v, f) \X Cell)

\* Places hold pointers, no two of them the same, and the blocks marked are those that
\* some place points to.
Owned(v) ==
  /\ \A f \in Files : \A p \in Places(v, f) :
       Pointer(v, f, p) \in 0 .. NBlocks /\ (Pointer(v, f, p) # 0 => Pointer(v, f, p) \in v.used)
  /\ \A f, g \in Files : \A p \in Places(v, f), q \in Places(v, g) :
       Pointer(v, f, p) = Pointer(v, g, q) /\ Pointer(v, f, p) # 0 => f = g /\ p = q
  /\ \A b \in v.used : \E f \in Files : \E p \in Places(v, f) : Pointer(v, f, p) = b

Sound(v) == v \in VolumeType /\ Owned(v)

\* What was written to a file is in its blocks.
Filled(v) ==
  \A f \in Files : \A n \in Nat : \A k \in Cell : n * Ptrs + k < v.size[f] =>
    Lookup(v, f, n) # 0 /\ v.blocks[Lookup(v, f, n)][k] = Byte[f]

\* A file of no size has no blocks, not even of pointers.
Bare(v) == \A f \in Files : v.size[f] = 0 => \A k \in 0 .. Indir2 : v.ptr[f][k] = 0

Fits(v) == \A f \in Files : v.size[f] <= MaxSize[f]

Whole(v) == Sound(v) /\ Filled(v) /\ Bare(v) /\ Fits(v)

IInv == Whole(Volume)

-----------------------------------------------------------------------------
(* Numbers. *)

LEMMA LeastOf ==
  ASSUME NEW S, S \subseteq Nat, S # {}
  PROVE  \E n \in S : \A m \in S : n <= m
<1>1. \A m, n \in Nat : m < n => <<m, n>> \in OpToRel(<, Nat)
  BY DEF OpToRel
<1>2. PICK R : IsWellFoundedOn(R, Nat) /\ \A m, n \in Nat : m < n => <<m, n>> \in R
  BY <1>1, NatLessThanWellFounded, Zenon
<1>3. PICK n \in S : \A m \in S : ~(<<m, n>> \in R)
  BY <1>2, WFMin, ZenonT(40)
<1>4. ASSUME NEW m \in S PROVE n <= m
  <2>1. m \in Nat /\ n \in Nat /\ <<m, n>> \notin R BY <1>3
  <2>2. ~(m < n) BY <1>2, <2>1, Zenon
  <2> QED BY <2>1, <2>2
<1> QED BY <1>4

LEMMA LeastIs ==
  ASSUME NEW S, S \subseteq Nat, S # {}
  PROVE  Least(S) \in S
BY LeastOf DEF Least

LEMMA Multiples ==
  ASSUME NEW d \in Nat \ {0}, NEW m \in Nat, NEW n \in Nat, m < n
  PROVE  m * d \in Nat /\ n * d \in Nat /\ m * d + d <= n * d
<1>1. PICK i \in Nat : n = m + 1 + i
  <2>1. n - m - 1 \in Nat /\ n = m + 1 + (n - m - 1) OBVIOUS
  <2> QED BY <2>1
<1>2. n * d = m * d + d + i * d BY <1>1
<1>3. i * d \in Nat /\ m * d \in Nat OBVIOUS
<1> QED BY <1>2, <1>3

LEMMA Division ==
  ASSUME NEW d \in Nat \ {0}, NEW n \in Nat
  PROVE  /\ n \div d \in Nat /\ n % d \in 0 .. d - 1
         /\ (n \div d) * d \in Nat /\ n = (n \div d) * d + (n % d)
<1>1. n \div d \in Nat /\ n % d \in 0 .. d - 1 /\ n = (n \div d) * d + (n % d) OBVIOUS
<1>2. (n \div d) * d \in Nat BY <1>1
<1> QED BY <1>1, <1>2

LEMMA Divided ==
  ASSUME NEW d \in Nat \ {0}, NEW m \in Nat, NEW r \in 0 .. d - 1
  PROVE  m * d \in Nat /\ m * d + r \in Nat /\ (m * d + r) \div d = m /\ (m * d + r) % d = r
<1> DEFINE n == m * d + r
           m1 == n \div d
           r1 == n % d
<1>1. n \in Nat /\ m * d \in Nat OBVIOUS
<1>2. m1 \in Nat /\ r1 \in 0 .. d - 1 /\ m1 * d \in Nat /\ n = m1 * d + r1
  <2> HIDE DEF n
  <2> QED BY <1>1, Division
<1>3. n = m * d + r OBVIOUS
<1> HIDE DEF n, m1, r1
<1>4. ~ (m < m1)
  <2>1. ASSUME m < m1 PROVE FALSE
    <3>1. m * d + d <= m1 * d BY <1>2, <2>1, Multiples
    <3> QED BY <1>1, <1>2, <1>3, <3>1
  <2> QED BY <2>1
<1>5. ~ (m1 < m)
  <2>1. ASSUME m1 < m PROVE FALSE
    <3>1. m1 * d + d <= m * d BY <1>2, <2>1, Multiples
    <3> QED BY <1>1, <1>2, <1>3, <3>1
  <2> QED BY <2>1
<1>6. m1 = m BY <1>2, <1>4, <1>5
<1>7. r1 = r BY <1>1, <1>2, <1>3, <1>6
<1> QED BY <1>1, <1>6, <1>7 DEF n, m1, r1

LEMMA Basics ==
  /\ NDirect \in Nat \ {0} /\ Ptrs \in Nat \ {0} /\ NBlocks \in Nat \ {0} /\ MaxWrite \in Nat \ {0}
  /\ MaxSize \in [Files -> Nat]
  /\ Cell = 0 .. Ptrs - 1 /\ Blocks = 1 .. NBlocks
  /\ Indir1 = NDirect /\ Indir2 = NDirect + 1 /\ Indir1 \in 0 .. Indir2 /\ Indir2 \in 0 .. Indir2
  /\ \A f \in Files : Byte[f] \in Nat /\ Byte[f] > NBlocks /\ Byte[f] \in Stored
  /\ 0 \in Stored /\ 0 .. NBlocks \subseteq Stored
BY SizesAssumption, BytesAssumption DEF Cell, Blocks, Indir1, Indir2, Stored

\* Within what a double-indirect block leads to, both indices are cells.
LEMMA Doubly ==
  ASSUME NEW n \in Nat, n < Ptrs * Ptrs
  PROVE  n \div Ptrs \in Cell /\ n % Ptrs \in Cell
<1>1. Ptrs \in Nat \ {0} /\ Cell = 0 .. Ptrs - 1 BY Basics
<1>2. n \div Ptrs \in Nat /\ n % Ptrs \in Cell /\ (n \div Ptrs) * Ptrs \in Nat
      /\ n = (n \div Ptrs) * Ptrs + (n % Ptrs)
  BY <1>1, Division
<1> DEFINE q == n \div Ptrs
           d == Ptrs
<1>3. q < d
  <2>1. d \in Nat \ {0} /\ q \in Nat /\ q * d \in Nat /\ q * d <= n /\ n < d * d BY <1>1, <1>2
  <2> HIDE DEF q, d
  <2>2. CASE d < q
    <3>1. d * d + d <= q * d /\ d * d \in Nat BY <2>1, <2>2, Multiples
    <3> QED BY <2>1, <3>1
  <2>3. CASE d = q BY <2>1, <2>3
  <2> QED BY <2>1, <2>2, <2>3
<1> QED BY <1>1, <1>2, <1>3

-----------------------------------------------------------------------------
(* Following a place. *)

Slots == ({0} \X (0 .. Indir2)) \cup (Blocks \X Cell)

\* w is v with block b granted to a place of f
Granted(v, w, f, p, b) ==
  /\ w \in VolumeType /\ w.size = v.size /\ w.used = v.used \cup {b}
  /\ \A g \in Files : \A k \in 0 .. Indir2 :
       w.ptr[g][k] = IF g = f /\ p = <<0, k>> THEN b ELSE v.ptr[g][k]
  /\ \A c \in Blocks \ {b} : \A k \in Cell :
       w.blocks[c][k] = IF p = <<c, k>> THEN b ELSE v.blocks[c][k]

ZeroAt(w, b) == \A k \in Cell : w.blocks[b][k] = 0

LEMMA PointerSet ==
  ASSUME NEW v \in VolumeType, NEW f \in Files, NEW p \in Slots, NEW b \in Blocks
  PROVE  LET w == SetPointer([v EXCEPT !.used = @ \cup {b}], f, p, b) IN
         p[1] # b => Granted(v, w, f, p, b)
<1>1. /\ b \in Blocks /\ b \in 0 .. NBlocks /\ b \in Stored /\ 0 \notin Blocks
  BY Basics
<1> DEFINE u == [v EXCEPT !.used = @ \cup {b}]
<1>2. /\ u \in VolumeType /\ u.size = v.size /\ u.used = v.used \cup {b}
      /\ u.ptr = v.ptr /\ u.blocks = v.blocks /\ u.beyond = v.beyond
  BY DEF VolumeType
<1> HIDE DEF u
<1>3. CASE p \in {0} \X (0 .. Indir2)
  <2>1. PICK k \in 0 .. Indir2 : p = <<0, k>> BY <1>3
  <2> DEFINE w == [u EXCEPT !.ptr[f][k] = b]
  <2>2. SetPointer(u, f, p, b) = w BY <2>1 DEF SetPointer
  <2>3. /\ w \in VolumeType /\ w.size = u.size /\ w.used = u.used /\ w.blocks = u.blocks
        /\ w.ptr = [u.ptr EXCEPT ![f] = [u.ptr[f] EXCEPT ![k] = b]]
    BY <1>1, <1>2 DEF VolumeType
  <2>4. \A g \in Files : \A l \in 0 .. Indir2 :
          w.ptr[g][l] = IF g = f /\ p = <<0, l>> THEN b ELSE v.ptr[g][l]
    <3>1. u.ptr \in [Files -> [0 .. Indir2 -> 0 .. NBlocks]] BY <1>2 DEF VolumeType
    <3> HIDE DEF w
    <3> QED BY <1>2, <2>1, <2>3, <3>1
  <2>5. \A c \in Blocks : \A l \in Cell : p # <<c, l>> BY <1>1, <2>1
  <2> HIDE DEF w
  <2>6. SetPointer(u, f, p, b) = w /\ Granted(v, w, f, p, b)
    BY <1>2, <2>2, <2>3, <2>4, <2>5 DEF Granted
  <2> QED BY <2>6 DEF u
<1>4. CASE p \in Blocks \X Cell
  <2>1. PICK c \in Blocks, k \in Cell : p = <<c, k>> BY <1>4
  <2> DEFINE w == [u EXCEPT !.blocks[c][k] = b]
  <2>2. SetPointer(u, f, p, b) = w BY <1>1, <2>1 DEF SetPointer
  <2>3. /\ w \in VolumeType /\ w.size = u.size /\ w.used = u.used /\ w.ptr = u.ptr
        /\ w.blocks = [u.blocks EXCEPT ![c] = [u.blocks[c] EXCEPT ![k] = b]]
    BY <1>1, <1>2 DEF VolumeType
  <2>4. \A d \in Blocks : \A l \in Cell :
          w.blocks[d][l] = IF p = <<d, l>> THEN b ELSE v.blocks[d][l]
    <3>1. u.blocks \in [Blocks -> [Cell -> Stored]] BY <1>2 DEF VolumeType
    <3> HIDE DEF w
    <3> QED BY <1>2, <2>1, <2>3, <3>1
  <2>5. \A l \in 0 .. Indir2 : p # <<0, l>> BY <1>1, <2>1
  <2> HIDE DEF w
  <2>6. SetPointer(u, f, p, b) = w /\ Granted(v, w, f, p, b)
    BY <1>2, <2>2, <2>3, <2>4, <2>5 DEF Granted
  <2> QED BY <2>6 DEF u
<1> QED BY <1>3, <1>4 DEF Slots

LEMMA FollowIs ==
  ASSUME NEW v \in VolumeType, NEW f \in Files, NEW p \in Slots, p[1] \in v.used \cup {0},
         NEW zeroed \in BOOLEAN, Pointer(v, f, p) = 0, v.used # Blocks
  PROVE  \E b \in Blocks \ v.used : LET r == Follow(v, f, p, zeroed) IN
           r.blk = b /\ Granted(v, r.vol, f, p, b) /\ (zeroed => ZeroAt(r.vol, b))
<1> DEFINE b == Least(Blocks \ v.used)
           w == SetPointer([v EXCEPT !.used = @ \cup {b}], f, p, b)
           z == [w EXCEPT !.blocks[b] = Zeros]
<1>1. b \in Blocks \ v.used
  <2>1. v.used \subseteq Blocks BY DEF VolumeType
  <2>2. Blocks \subseteq Nat BY Basics
  <2>3. Blocks \ v.used # {} BY <2>1, Zenon
  <2> QED BY <2>2, <2>3, LeastIs
<1>2. b # 0 BY <1>1, Basics
<1>3. Follow(v, f, p, zeroed) = At(IF zeroed THEN z ELSE w, b) BY DEF Follow
<1> HIDE DEF b
<1>4. Granted(v, w, f, p, b) BY <1>1, <1>2, PointerSet
<1> HIDE DEF w
<1>5. Granted(v, z, f, p, b) /\ ZeroAt(z, b)
  <2>1. w \in VolumeType BY <1>4 DEF Granted
  <2>2. Zeros \in [Cell -> Stored] /\ \A k \in Cell : Zeros[k] = 0 BY Basics DEF Zeros
  <2>3. /\ z \in VolumeType /\ z.size = w.size /\ z.used = w.used /\ z.ptr = w.ptr
        /\ z.blocks = [w.blocks EXCEPT ![b] = Zeros]
    BY <1>1, <2>1, <2>2 DEF VolumeType
  <2>4. z.blocks[b] = Zeros /\ \A c \in Blocks \ {b} : z.blocks[c] = w.blocks[c]
    <3>1. w.blocks \in [Blocks -> [Cell -> Stored]] BY <2>1 DEF VolumeType
    <3> HIDE DEF z
    <3> QED BY <1>1, <2>3, <3>1
  <2> HIDE DEF z
  <2> QED BY <1>4, <2>2, <2>3, <2>4 DEF Granted, ZeroAt
<1> HIDE DEF z
<1>6. CASE zeroed = TRUE
  <2>1. Follow(v, f, p, zeroed) = At(z, b) BY <1>3, <1>6
  <2> QED BY <1>1, <1>5, <2>1 DEF At
<1>7. CASE zeroed = FALSE
  <2>1. Follow(v, f, p, zeroed) = At(w, b) BY <1>3, <1>7
  <2> QED BY <1>1, <1>4, <1>7, <2>1 DEF At
<1> QED BY <1>6, <1>7

-----------------------------------------------------------------------------
(* A granted block keeps the volume sound. *)

\* the places whose pointers are heads
HeadPlaces(v, f) ==
  {<<0, Indir1>>, <<0, Indir2>>} \cup (({v.ptr[f][Indir2]} \ {0}) \X Cell)

\* f may have got blocks, and nothing else has changed
Grows(v, w, f) ==
  /\ v.used \subseteq w.used
  /\ \A g \in Files : \A k \in 0 .. Indir2 : v.ptr[g][k] # 0 => w.ptr[g][k] = v.ptr[g][k]
  /\ \A g \in Files \ {f} : \A k \in 0 .. Indir2 : w.ptr[g][k] = v.ptr[g][k]
  /\ \A c \in v.used : \A k \in Cell : v.blocks[c][k] # 0 => w.blocks[c][k] = v.blocks[c][k]

LEMMA HeadsAre ==
  ASSUME NEW v, NEW f
  PROVE  /\ Heads(v, f) = {Pointer(v, f, p) : p \in HeadPlaces(v, f)} \ {0}
         /\ HeadPlaces(v, f) \subseteq Places(v, f)
<1>1. Indir1 \in 0 .. Indir2 /\ Indir2 \in 0 .. Indir2 BY Basics
<1> DEFINE i1 == v.ptr[f][Indir1]
           i2 == v.ptr[f][Indir2]
<1>2. Pointer(v, f, <<0, Indir1>>) = i1 /\ Pointer(v, f, <<0, Indir2>>) = i2 BY DEF Pointer
<1>3. \A k \in Cell : i2 # 0 => Pointer(v, f, <<i2, k>>) = v.blocks[i2][k] BY DEF Pointer
<1> HIDE DEF i1, i2
<1>4. CASE i2 = 0
  <2>1. HeadPlaces(v, f) = {<<0, Indir1>>, <<0, Indir2>>} BY <1>4 DEF HeadPlaces, i2
  <2>2. Heads(v, f) = {i1, i2} \ {0} BY <1>4 DEF Heads, In, i1, i2
  <2> QED BY <1>1, <1>2, <2>1, <2>2 DEF Places
<1>5. CASE i2 # 0
  <2>1. HeadPlaces(v, f) = {<<0, Indir1>>, <<0, Indir2>>} \cup ({i2} \X Cell)
    BY <1>5 DEF HeadPlaces, i2
  <2>2. Heads(v, f) = ({i1, i2} \cup ({v.blocks[i2][k] : k \in Cell} \ {0})) \ {0}
    BY <1>5 DEF Heads, In, i1, i2
  <2>3. i2 \in Heads(v, f) BY <1>5, <2>2
  <2>4. HeadPlaces(v, f) \subseteq Places(v, f) BY <1>1, <2>1, <2>3 DEF Places
  <2>5. ASSUME NEW h \in Heads(v, f)
        PROVE  h # 0 /\ \E p \in HeadPlaces(v, f) : h = Pointer(v, f, p)
    <3>1. h # 0 /\ (h = i1 \/ h = i2 \/ \E k \in Cell : h = v.blocks[i2][k]) BY <2>2
    <3>2. ASSUME NEW k \in Cell, h = v.blocks[i2][k]
          PROVE  <<i2, k>> \in HeadPlaces(v, f) /\ h = Pointer(v, f, <<i2, k>>)
      BY <1>3, <1>5, <2>1, <3>2
    <3> QED BY <1>2, <2>1, <3>1, <3>2
  <2>6. ASSUME NEW p \in HeadPlaces(v, f), Pointer(v, f, p) # 0 PROVE Pointer(v, f, p) \in Heads(v, f)
    <3>1. CASE p \in {i2} \X Cell
      <4>1. PICK k \in Cell : p = <<i2, k>> BY <3>1
      <4>2. Pointer(v, f, p) = v.blocks[i2][k] BY <1>3, <1>5, <4>1
      <4> QED BY <2>2, <2>6, <4>2
    <3>2. CASE p \in {<<0, Indir1>>, <<0, Indir2>>} BY <1>2, <2>2, <2>6, <3>2
    <3> QED BY <2>1, <3>1, <3>2
  <2> QED BY <2>4, <2>5, <2>6
<1> QED BY <1>4, <1>5

LEMMA Unique ==
  ASSUME NEW v, Sound(v), NEW f \in Files, NEW g \in Files, NEW p \in Places(v, f),
         NEW q \in Places(v, g), Pointer(v, f, p) = Pointer(v, g, q), Pointer(v, f, p) # 0
  PROVE  f = g /\ p = q
BY DEF Sound, Owned

\* what has a place is marked
LEMMA Marked ==
  ASSUME NEW v, Sound(v), NEW f \in Files, NEW p \in Places(v, f)
  PROVE  Pointer(v, f, p) \in 0 .. NBlocks /\ Pointer(v, f, p) \in v.used \cup {0}
BY DEF Sound, Owned

LEMMA HeadsIn ==
  ASSUME NEW v, Sound(v), NEW f \in Files
  PROVE  /\ Heads(v, f) \subseteq v.used /\ v.used \subseteq Blocks /\ 0 \notin v.used
         /\ Places(v, f) \subseteq Slots
         /\ \A p \in Places(v, f) : p[1] \in v.used \cup {0}
         /\ \A p \in Places(v, f) : p[1] # 0 => p[1] \in Heads(v, f)
<1>1. v.used \subseteq Blocks /\ 0 \notin Blocks BY Basics DEF Sound, VolumeType
<1>2. Heads(v, f) \subseteq v.used
  <2> SUFFICES ASSUME NEW h \in Heads(v, f) PROVE h \in v.used OBVIOUS
  <2>1. PICK p \in HeadPlaces(v, f) : h = Pointer(v, f, p) /\ h # 0 BY HeadsAre
  <2>2. p \in Places(v, f) BY HeadsAre
  <2> QED BY <2>1, <2>2, Marked
<1>3. \A p \in Places(v, f) : p \in {0} \X (0 .. Indir2) \/ p \in Heads(v, f) \X Cell BY DEF Places
<1> QED BY <1>1, <1>2, <1>3 DEF Slots

LEMMA HeadsApart ==
  ASSUME NEW v, Sound(v), NEW f \in Files, NEW g \in Files, NEW h \in Heads(v, f),
         h \in Heads(v, g)
  PROVE  f = g
<1>1. PICK p \in HeadPlaces(v, f) : h = Pointer(v, f, p) /\ h # 0 BY HeadsAre
<1>2. PICK q \in HeadPlaces(v, g) : h = Pointer(v, g, q) BY HeadsAre
<1>3. p \in Places(v, f) /\ q \in Places(v, g) BY HeadsAre
<1> QED BY <1>1, <1>2, <1>3, Unique

LEMMA GrantGives ==
  ASSUME NEW v, Sound(v), NEW f \in Files, NEW p \in Places(v, f), Pointer(v, f, p) = 0,
         NEW b \in Blocks \ v.used, NEW w, Granted(v, w, f, p, b),
         ZeroAt(w, b) \/ p \notin HeadPlaces(v, f)
  PROVE  /\ Sound(w) /\ Grows(v, w, f) /\ Pointer(w, f, p) = b
         /\ Places(v, f) \subseteq Places(w, f)
         /\ p \in HeadPlaces(v, f) => b \in Heads(w, f)
<1>1. /\ b # 0 /\ b \in 0 .. NBlocks /\ p[1] # b /\ \A g \in Files : b \notin Heads(v, g)
      /\ Indir2 \in 0 .. Indir2
  BY HeadsIn, Basics
<1>2. /\ w \in VolumeType /\ w.used = v.used \cup {b}
      /\ \A g \in Files : \A k \in 0 .. Indir2 :
           w.ptr[g][k] = IF g = f /\ p = <<0, k>> THEN b ELSE v.ptr[g][k]
      /\ \A c \in Blocks \ {b} : \A k \in Cell :
           w.blocks[c][k] = IF p = <<c, k>> THEN b ELSE v.blocks[c][k]
  BY DEF Granted
<1>3. ASSUME NEW g \in Files, NEW q \in Places(v, g)
      PROVE  Pointer(w, g, q) = IF g = f /\ q = p THEN b ELSE Pointer(v, g, q)
  <2>1. CASE q \in {0} \X (0 .. Indir2)
    <3>1. PICK k \in 0 .. Indir2 : q = <<0, k>> BY <2>1
    <3> QED BY <1>2, <3>1 DEF Pointer
  <2>2. CASE q \in Heads(v, g) \X Cell
    <3>1. PICK h \in Heads(v, g), k \in Cell : q = <<h, k>> BY <2>2
    <3>2. h \in Blocks \ {b} /\ h # 0
      <4>1. h \in Blocks /\ h \in v.used /\ h # 0 BY HeadsIn
      <4> QED BY <4>1
    <3>3. p = <<h, k>> => g = f
      <4>1. ASSUME p = <<h, k>> PROVE h \in Heads(v, f) BY <3>2, <4>1, HeadsIn
      <4> QED BY <4>1, HeadsApart
    <3> QED BY <1>2, <3>1, <3>2, <3>3 DEF Pointer
  <2> QED BY <2>1, <2>2 DEF Places
<1>4. ASSUME NEW g \in Files
      PROVE  /\ Heads(v, g) \subseteq Heads(w, g)
             /\ HeadPlaces(v, g) \subseteq HeadPlaces(w, g)
  <2>1. v.ptr[g][Indir2] # 0 => w.ptr[g][Indir2] = v.ptr[g][Indir2]
    <3>1. <<0, Indir2>> \in Places(v, g) BY <1>1 DEF Places
    <3>2. Pointer(v, g, <<0, Indir2>>) = v.ptr[g][Indir2] /\ Pointer(w, g, <<0, Indir2>>) = w.ptr[g][Indir2]
      BY DEF Pointer
    <3> QED BY <1>3, <3>1, <3>2
  <2>2. HeadPlaces(v, g) \subseteq HeadPlaces(w, g) BY <2>1 DEF HeadPlaces
  <2>3. ASSUME NEW h \in Heads(v, g) PROVE h \in Heads(w, g)
    <3>1. PICK q \in HeadPlaces(v, g) : h = Pointer(v, g, q) /\ h # 0 BY HeadsAre
    <3>2. Pointer(w, g, q) = h BY <1>3, <3>1, HeadsAre
    <3> QED BY <2>2, <3>1, <3>2, HeadsAre
  <2> QED BY <2>2, <2>3
<1>5. ASSUME NEW g \in Files, NEW h \in Heads(w, g)
      PROVE  h \in Heads(v, g) \/ (h = b /\ g = f /\ p \in HeadPlaces(v, f))
  <2>1. PICK q \in HeadPlaces(w, g) : h = Pointer(w, g, q) /\ h # 0 BY HeadsAre
  <2>2. CASE q \in HeadPlaces(v, g)
    <3>1. h = IF g = f /\ q = p THEN b ELSE Pointer(v, g, q) BY <1>3, <2>1, <2>2, HeadsAre
    <3> QED BY <2>1, <2>2, <3>1, HeadsAre
  <2>3. CASE q \notin HeadPlaces(v, g)
    <3>1. q \in ({w.ptr[g][Indir2]} \ {0}) \X Cell /\ q \notin ({v.ptr[g][Indir2]} \ {0}) \X Cell
      BY <2>3 DEF HeadPlaces
    <3>2. PICK k \in Cell : q = <<w.ptr[g][Indir2], k>> /\ w.ptr[g][Indir2] # 0 BY <3>1
    <3>3. w.ptr[g][Indir2] # v.ptr[g][Indir2] BY <3>1, <3>2
    <3>4. g = f /\ p = <<0, Indir2>> /\ w.ptr[g][Indir2] = b BY <1>1, <1>2, <3>3
    <3>5. p \in HeadPlaces(v, f) BY <3>4 DEF HeadPlaces
    <3>6. Pointer(w, g, q) = w.blocks[b][k] BY <1>1, <3>2, <3>4 DEF Pointer
    <3>7. w.blocks[b][k] = 0 BY <3>5 DEF ZeroAt
    <3> QED BY <2>1, <3>6, <3>7
  <2> QED BY <2>2, <2>3
<1>6. ASSUME NEW g \in Files, NEW q \in Places(w, g)
      PROVE  q \in Places(v, g) \/ Pointer(w, g, q) = 0
  <2>1. CASE q \in {0} \X (0 .. Indir2) BY <2>1 DEF Places
  <2>2. CASE q \in Heads(w, g) \X Cell
    <3>1. PICK h \in Heads(w, g), k \in Cell : q = <<h, k>> BY <2>2
    <3>2. CASE h \in Heads(v, g) BY <3>1, <3>2 DEF Places
    <3>3. CASE h = b /\ p \in HeadPlaces(v, f)
      <4>1. Pointer(w, g, q) = w.blocks[b][k] BY <1>1, <3>1, <3>3 DEF Pointer
      <4>2. w.blocks[b][k] = 0 BY <3>3 DEF ZeroAt
      <4> QED BY <4>1, <4>2
    <3> QED BY <1>5, <3>2, <3>3
  <2> QED BY <2>1, <2>2 DEF Places
<1>7. ASSUME NEW g \in Files PROVE Places(v, g) \subseteq Places(w, g)
  BY <1>4 DEF Places
<1>8. Pointer(w, f, p) = b BY <1>3
<1>9. Owned(w)
  <2>1. ASSUME NEW g \in Files, NEW q \in Places(w, g)
        PROVE  Pointer(w, g, q) \in 0 .. NBlocks /\ (Pointer(w, g, q) # 0 => Pointer(w, g, q) \in w.used)
    <3>1. CASE q \in Places(v, g)
      <4>1. Pointer(v, g, q) \in 0 .. NBlocks /\ Pointer(v, g, q) \in v.used \cup {0}
        BY <3>1, Marked
      <4> QED BY <1>1, <1>2, <1>3, <3>1, <4>1
    <3>2. CASE Pointer(w, g, q) = 0 BY <3>2, Basics
    <3> QED BY <1>6, <3>1, <3>2
  <2>2. ASSUME NEW g \in Files, NEW h \in Files, NEW q \in Places(w, g), NEW r \in Places(w, h),
               Pointer(w, g, q) = Pointer(w, h, r), Pointer(w, g, q) # 0
        PROVE  g = h /\ q = r
    <3>1. q \in Places(v, g) /\ r \in Places(v, h) BY <1>6, <2>2
    <3>2. Pointer(v, g, q) # b /\ Pointer(v, h, r) # b
      <4>1. Pointer(v, g, q) \in v.used \cup {0} /\ Pointer(v, h, r) \in v.used \cup {0}
        BY <3>1, Marked
      <4> QED BY <1>1, <4>1
    <3>3. Pointer(w, g, q) = IF g = f /\ q = p THEN b ELSE Pointer(v, g, q) BY <1>3, <3>1
    <3>4. Pointer(w, h, r) = IF h = f /\ r = p THEN b ELSE Pointer(v, h, r) BY <1>3, <3>1
    <3>5. CASE g = f /\ q = p
      <4>1. Pointer(w, h, r) = b BY <2>2, <3>3, <3>5
      <4> QED BY <3>2, <3>4, <3>5, <4>1
    <3>6. CASE ~(g = f /\ q = p)
      <4>1. Pointer(w, g, q) = Pointer(v, g, q) BY <3>3, <3>6
      <4>2. ~(h = f /\ r = p) BY <2>2, <3>2, <3>4, <4>1
      <4>3. Pointer(w, h, r) = Pointer(v, h, r) BY <3>4, <4>2
      <4>4. Pointer(v, g, q) = Pointer(v, h, r) /\ Pointer(v, g, q) # 0 BY <2>2, <4>1, <4>3
      <4> QED BY <3>1, <4>4, Unique
    <3> QED BY <3>5, <3>6
  <2>3. ASSUME NEW c \in w.used PROVE \E g \in Files : \E q \in Places(w, g) : Pointer(w, g, q) = c
    <3>1. CASE c = b BY <1>7, <1>8, <3>1
    <3>2. CASE c \in v.used
      <4>0. PICK g \in Files : \E q \in Places(v, g) : Pointer(v, g, q) = c BY <3>2 DEF Sound, Owned
      <4>1. PICK q \in Places(v, g) : Pointer(v, g, q) = c BY <4>0
      <4>2. c # 0 BY <3>2, HeadsIn
      <4>3. Pointer(w, g, q) = c BY <1>3, <4>1, <4>2
      <4> QED BY <1>7, <4>1, <4>3
    <3> QED BY <1>2, <3>1, <3>2
  <2> QED BY <2>1, <2>2, <2>3 DEF Owned
<1>10. Grows(v, w, f)
  <2>1. v.used \subseteq w.used BY <1>2
  <2>2. ASSUME NEW g \in Files, NEW k \in 0 .. Indir2
        PROVE  (v.ptr[g][k] # 0 => w.ptr[g][k] = v.ptr[g][k]) /\ (g # f => w.ptr[g][k] = v.ptr[g][k])
    <3>1. p = <<0, k>> => Pointer(v, f, p) = v.ptr[f][k] BY DEF Pointer
    <3> QED BY <1>2, <3>1
  <2>3. ASSUME NEW c \in v.used, NEW k \in Cell, v.blocks[c][k] # 0
        PROVE  w.blocks[c][k] = v.blocks[c][k]
    <3>1. c \in Blocks \ {b} /\ c # 0
      <4>1. c \in Blocks /\ c # 0 BY HeadsIn
      <4> QED BY <4>1
    <3>2. p = <<c, k>> => Pointer(v, f, p) = v.blocks[c][k] BY <3>1 DEF Pointer
    <3> QED BY <1>2, <2>3, <3>1, <3>2
  <2> QED BY <2>1, <2>2, <2>3 DEF Grows
<1>11. p \in HeadPlaces(v, f) => b \in Heads(w, f) BY <1>1, <1>4, <1>8, HeadsAre
<1> QED BY <1>2, <1>7, <1>8, <1>9, <1>10, <1>11 DEF Sound

-----------------------------------------------------------------------------
(* What following a place gives, and what is kept when a file grows. *)

FollowsTo(v, f, p, r) ==
  /\ Sound(r.vol) /\ Grows(v, r.vol, f) /\ r.vol.size = v.size /\ r.blk \in 0 .. NBlocks
  /\ r.blk # 0 => /\ p \in Places(r.vol, f) /\ Pointer(r.vol, f, p) = r.blk /\ r.blk \in r.vol.used
                  /\ p \in HeadPlaces(v, f) => r.blk \in Heads(r.vol, f)
  /\ r.blk = 0 => r.vol = v /\ v.used = Blocks

LEMMA GrowsSame == ASSUME NEW v, NEW f PROVE Grows(v, v, f)
BY DEF Grows

LEMMA GrowsOn ==
  ASSUME NEW u, NEW v, NEW w, NEW f, Grows(u, v, f), Grows(v, w, f)
  PROVE  Grows(u, w, f)
<1>1. u.used \subseteq w.used BY DEF Grows
<1>2. ASSUME NEW g \in Files, NEW k \in 0 .. Indir2
      PROVE  (u.ptr[g][k] # 0 => w.ptr[g][k] = u.ptr[g][k]) /\ (g # f => w.ptr[g][k] = u.ptr[g][k])
  <2>1. (u.ptr[g][k] # 0 => v.ptr[g][k] = u.ptr[g][k]) /\ (g # f => v.ptr[g][k] = u.ptr[g][k])
    BY DEF Grows
  <2>2. (v.ptr[g][k] # 0 => w.ptr[g][k] = v.ptr[g][k]) /\ (g # f => w.ptr[g][k] = v.ptr[g][k])
    BY DEF Grows
  <2> QED BY <2>1, <2>2
<1>3. ASSUME NEW c \in u.used, NEW k \in Cell, u.blocks[c][k] # 0
      PROVE  w.blocks[c][k] = u.blocks[c][k]
  <2>1. v.blocks[c][k] = u.blocks[c][k] BY <1>3 DEF Grows
  <2>2. c \in v.used BY DEF Grows
  <2> QED BY <1>3, <2>1, <2>2 DEF Grows
<1> QED BY <1>1, <1>2, <1>3 DEF Grows

LEMMA FollowGives ==
  ASSUME NEW v, Sound(v), NEW f \in Files, NEW p \in Places(v, f), NEW zeroed \in BOOLEAN,
         zeroed = TRUE \/ p \notin HeadPlaces(v, f)
  PROVE  FollowsTo(v, f, p, Follow(v, f, p, zeroed))
<1> DEFINE r == Follow(v, f, p, zeroed)
           q == Pointer(v, f, p)
<1>1. q \in 0 .. NBlocks /\ q \in v.used \cup {0} /\ 0 \in 0 .. NBlocks BY Marked, Basics
<1>2. CASE q # 0
  <2>1. r = At(v, q) BY <1>2 DEF Follow
  <2>2. r.vol = v /\ r.blk = q BY <2>1 DEF At
  <2>3. p \in HeadPlaces(v, f) => q \in Heads(v, f) BY <1>2, HeadsAre
  <2>4. Grows(v, v, f) BY GrowsSame
  <2> HIDE DEF r
  <2>5. FollowsTo(v, f, p, r) BY <1>1, <1>2, <2>2, <2>3, <2>4 DEF FollowsTo
  <2> QED BY <2>5 DEF r
<1>3. CASE q = 0 /\ v.used = Blocks
  <2>1. r = At(v, 0) BY <1>3 DEF Follow
  <2>2. r.vol = v /\ r.blk = 0 BY <2>1 DEF At
  <2>3. Grows(v, v, f) BY GrowsSame
  <2> HIDE DEF r
  <2>4. FollowsTo(v, f, p, r) BY <1>1, <1>3, <2>2, <2>3 DEF FollowsTo
  <2> QED BY <2>4 DEF r
<1>4. CASE q = 0 /\ v.used # Blocks
  <2>1. v \in VolumeType /\ p \in Slots /\ p[1] \in v.used \cup {0} BY HeadsIn DEF Sound
  <2>2. PICK b \in Blocks \ v.used :
               r.blk = b /\ Granted(v, r.vol, f, p, b) /\ (zeroed => ZeroAt(r.vol, b))
    BY <1>4, <2>1, FollowIs
  <2> HIDE DEF r
  <2>3. ZeroAt(r.vol, b) \/ p \notin HeadPlaces(v, f) BY <2>2
  <2>4. /\ Sound(r.vol) /\ Grows(v, r.vol, f) /\ Pointer(r.vol, f, p) = b
        /\ Places(v, f) \subseteq Places(r.vol, f)
        /\ p \in HeadPlaces(v, f) => b \in Heads(r.vol, f)
    BY <1>4, <2>2, <2>3, GrantGives
  <2>5. b # 0 /\ b \in 0 .. NBlocks /\ b \in r.vol.used /\ r.vol.size = v.size
    BY <2>2, Basics DEF Granted
  <2>6. FollowsTo(v, f, p, r) BY <2>2, <2>4, <2>5 DEF FollowsTo
  <2> QED BY <2>6 DEF r
<1> QED BY <1>2, <1>3, <1>4

-----------------------------------------------------------------------------
(* The block of an index. *)

\* The blocks that pointers lead to: direct ones, then those of the single-indirect
\* block, then those of the double-indirect blocks.
Reach1 == NDirect + Ptrs
Reach2 == NDirect + Ptrs + Ptrs * Ptrs
Single(n) == n - NDirect
Outer(n) == ((n - NDirect) - Ptrs) \div Ptrs
Inner(n) == ((n - NDirect) - Ptrs) % Ptrs
Down(v, b, k) == IF b = 0 THEN 0 ELSE v.blocks[b][k]

LEMMA Levels ==
  ASSUME NEW n \in Nat
  PROVE  /\ Reach1 \in Nat /\ Reach2 \in Nat /\ NDirect <= Reach1 /\ Reach1 <= Reach2
         /\ n < NDirect => n \in 0 .. Indir2 /\ n # Indir1 /\ n # Indir2
         /\ n >= NDirect /\ n < Reach1 => Single(n) \in Cell
         /\ n >= Reach1 /\ n < Reach2 => Outer(n) \in Cell /\ Inner(n) \in Cell
<1>1. /\ NDirect \in Nat \ {0} /\ Ptrs \in Nat \ {0} /\ Cell = 0 .. Ptrs - 1 /\ Ptrs * Ptrs \in Nat
      /\ Indir1 = NDirect /\ Indir2 = NDirect + 1
  BY Basics
<1>2. Reach1 \in Nat /\ Reach2 \in Nat /\ NDirect <= Reach1 /\ Reach1 <= Reach2
  BY <1>1 DEF Reach1, Reach2
<1>3. n >= Reach1 /\ n < Reach2 => Outer(n) \in Cell /\ Inner(n) \in Cell
  <2> SUFFICES ASSUME n >= Reach1, n < Reach2 PROVE Outer(n) \in Cell /\ Inner(n) \in Cell OBVIOUS
  <2> DEFINE m == (n - NDirect) - Ptrs
  <2>1. m \in Nat /\ m < Ptrs * Ptrs BY <1>1 DEF Reach1, Reach2
  <2> HIDE DEF m
  <2>2. m \div Ptrs \in Cell /\ m % Ptrs \in Cell BY <2>1, Doubly
  <2> QED BY <2>2 DEF Outer, Inner, m
<1>4. n >= NDirect /\ n < Reach1 => Single(n) \in Cell BY <1>1 DEF Reach1, Single
<1> QED BY <1>1, <1>2, <1>3, <1>4

LEMMA LevelsApart ==
  ASSUME NEW n \in Nat, NEW m \in Nat, n >= Reach1, m >= Reach1,
         Outer(n) = Outer(m), Inner(n) = Inner(m)
  PROVE  n = m
<1>1. NDirect \in Nat \ {0} /\ Ptrs \in Nat \ {0} BY Basics
<1> DEFINE n2 == (n - NDirect) - Ptrs
           m2 == (m - NDirect) - Ptrs
<1>2. n2 \in Nat /\ m2 \in Nat /\ n = (n2 + Ptrs) + NDirect /\ m = (m2 + Ptrs) + NDirect
  BY <1>1 DEF Reach1
<1>3. n2 \div Ptrs = m2 \div Ptrs /\ n2 % Ptrs = m2 % Ptrs BY DEF Outer, Inner
<1> HIDE DEF n2, m2
<1>4. n2 = (n2 \div Ptrs) * Ptrs + (n2 % Ptrs) /\ m2 = (m2 \div Ptrs) * Ptrs + (m2 % Ptrs)
  BY <1>1, <1>2, Division
<1>5. n2 = m2 BY <1>3, <1>4
<1> QED BY <1>2, <1>5

LEMMA LookupIs ==
  ASSUME NEW v, NEW f, NEW n \in Nat
  PROVE  /\ n < NDirect => Lookup(v, f, n) = v.ptr[f][n]
         /\ n >= NDirect /\ n < Reach1 => Lookup(v, f, n) = Down(v, v.ptr[f][Indir1], Single(n))
         /\ n >= Reach1 /\ n < Reach2
              => Lookup(v, f, n) = Down(v, Down(v, v.ptr[f][Indir2], Outer(n)), Inner(n))
         /\ n >= Reach2 => Lookup(v, f, n) = 0
<1>1. NDirect \in Nat \ {0} /\ Ptrs \in Nat \ {0} /\ Ptrs * Ptrs \in Nat BY Basics
<1> DEFINE n1 == n - NDirect
           n2 == n1 - Ptrs
<1>2. n < NDirect => Lookup(v, f, n) = v.ptr[f][n] BY DEF Lookup
<1>3. /\ n1 \in Int /\ n2 \in Int
      /\ n >= NDirect /\ n < Reach1 => ~(n < NDirect) /\ n1 < Ptrs
      /\ n >= Reach1 /\ n < Reach2 => ~(n < NDirect) /\ ~(n1 < Ptrs) /\ ~(n2 >= Ptrs * Ptrs)
      /\ n >= Reach2 => ~(n < NDirect) /\ ~(n1 < Ptrs) /\ n2 >= Ptrs * Ptrs
  BY <1>1 DEF Reach1, Reach2
<1>4. ~(n < NDirect) /\ n1 < Ptrs => Lookup(v, f, n) = Down(v, v.ptr[f][Indir1], Single(n))
  BY DEF Lookup, Down, Single
<1>5. ~(n < NDirect) /\ ~(n1 < Ptrs) /\ ~(n2 >= Ptrs * Ptrs)
        => Lookup(v, f, n) = Down(v, Down(v, v.ptr[f][Indir2], Outer(n)), Inner(n))
  BY DEF Lookup, Down, Outer, Inner
<1>6. ~(n < NDirect) /\ ~(n1 < Ptrs) /\ n2 >= Ptrs * Ptrs => Lookup(v, f, n) = 0
  BY DEF Lookup
<1> HIDE DEF n1, n2
<1> QED BY <1>2, <1>3, <1>4, <1>5, <1>6


\* the place where the block of index n is kept
Leaf(v, f, n, p) ==
  \/ n < NDirect /\ p = <<0, n>>
  \/ n >= NDirect /\ n < Reach1 /\ v.ptr[f][Indir1] # 0 /\ p = <<v.ptr[f][Indir1], Single(n)>>
  \/ /\ n >= Reach1 /\ n < Reach2 /\ v.ptr[f][Indir2] # 0
     /\ v.blocks[v.ptr[f][Indir2]][Outer(n)] # 0
     /\ p = <<v.blocks[v.ptr[f][Indir2]][Outer(n)], Inner(n)>>

LEMMA LeafFor ==
  ASSUME NEW v, NEW f, NEW n \in Nat, Lookup(v, f, n) # 0
  PROVE  \E p : Leaf(v, f, n, p) /\ Pointer(v, f, p) = Lookup(v, f, n)
<1>1. n < NDirect \/ (n >= NDirect /\ n < Reach1) \/ (n >= Reach1 /\ n < Reach2) \/ n >= Reach2
  BY Levels, Basics
<1>2. CASE n < NDirect
  <2>1. Leaf(v, f, n, <<0, n>>) BY <1>2 DEF Leaf
  <2>2. Pointer(v, f, <<0, n>>) = v.ptr[f][n] BY DEF Pointer
  <2> QED BY <1>2, <2>1, <2>2, LookupIs
<1>3. CASE n >= NDirect /\ n < Reach1
  <2> DEFINE i == v.ptr[f][Indir1]
             p == <<i, Single(n)>>
  <2>1. Lookup(v, f, n) = Down(v, i, Single(n)) BY <1>3, LookupIs
  <2>2. i # 0 /\ Lookup(v, f, n) = v.blocks[i][Single(n)] BY <2>1 DEF Down
  <2>3. Leaf(v, f, n, p) BY <1>3, <2>2 DEF Leaf
  <2>4. Pointer(v, f, p) = v.blocks[i][Single(n)] BY <2>2 DEF Pointer
  <2> QED BY <2>2, <2>3, <2>4
<1>4. CASE n >= Reach1 /\ n < Reach2
  <2> DEFINE i == v.ptr[f][Indir2]
             h == Down(v, i, Outer(n))
             p == <<h, Inner(n)>>
  <2>1. Lookup(v, f, n) = Down(v, h, Inner(n)) BY <1>4, LookupIs
  <2>2. h # 0 /\ Lookup(v, f, n) = v.blocks[h][Inner(n)] BY <2>1 DEF Down
  <2>3. i # 0 /\ h = v.blocks[i][Outer(n)] BY <2>2 DEF Down
  <2>4. Leaf(v, f, n, p) BY <1>4, <2>2, <2>3 DEF Leaf
  <2>5. Pointer(v, f, p) = v.blocks[h][Inner(n)] BY <2>2 DEF Pointer
  <2> QED BY <2>2, <2>4, <2>5
<1>5. CASE n >= Reach2 BY <1>5, LookupIs
<1> QED BY <1>1, <1>2, <1>3, <1>4, <1>5

LEMMA LeafGives ==
  ASSUME NEW v, Sound(v), NEW f \in Files, NEW n \in Nat, NEW p, Leaf(v, f, n, p)
  PROVE  /\ p \in Places(v, f) /\ p \notin HeadPlaces(v, f)
         /\ Lookup(v, f, n) = Pointer(v, f, p) /\ n < Reach2
<1>1. Indir1 \in 0 .. Indir2 /\ Indir2 \in 0 .. Indir2 /\ Indir1 # Indir2 BY Basics
<1> DEFINE i1 == v.ptr[f][Indir1]
           i2 == v.ptr[f][Indir2]
           p1 == <<0, Indir1>>
           p2 == <<0, Indir2>>
<1>2. /\ p1 \in Places(v, f) /\ p2 \in Places(v, f) /\ p1 # p2
      /\ Pointer(v, f, p1) = i1 /\ Pointer(v, f, p2) = i2
  BY <1>1 DEF Places, Pointer
<1>3. i1 # 0 => i1 # i2 /\ i1 \in Heads(v, f)
  <2>1. i1 # 0 => i1 # i2
    <3> HIDE DEF i1, i2, p1, p2
    <3>1. ASSUME i1 # 0, i1 = i2 PROVE FALSE
      <4>1. Pointer(v, f, p1) = Pointer(v, f, p2) /\ Pointer(v, f, p1) # 0 BY <1>2, <3>1
      <4> QED BY <1>2, <4>1, Unique
    <3> QED BY <3>1
  <2> QED BY <2>1 DEF Heads
<1>4. i1 \in v.used \cup {0} /\ i2 \in v.used \cup {0} BY <1>2, Marked
<1>5. CASE n < NDirect /\ p = <<0, n>>
  <2>1. n \in 0 .. Indir2 /\ n # Indir1 /\ n # Indir2 BY <1>5, Levels
  <2>2. p \in Places(v, f) BY <1>5, <2>1 DEF Places
  <2>3. p \notin HeadPlaces(v, f) BY <1>5, <2>1 DEF HeadPlaces
  <2>4. Pointer(v, f, p) = v.ptr[f][n] BY <1>5 DEF Pointer
  <2>5. n < Reach2 BY <1>5, Levels, Basics
  <2> QED BY <1>5, <2>2, <2>3, <2>4, <2>5, LookupIs
<1>6. CASE n >= NDirect /\ n < Reach1 /\ i1 # 0 /\ p = <<i1, Single(n)>>
  <2>1. Single(n) \in Cell /\ n < Reach2 BY <1>6, Levels, Basics
  <2>2. p \in Places(v, f) BY <1>3, <1>6, <2>1 DEF Places
  <2>3. p \notin HeadPlaces(v, f)
    <3>1. p \notin {p1, p2} BY <1>6
    <3>2. p \notin ({i2} \ {0}) \X Cell BY <1>3, <1>6
    <3> QED BY <3>1, <3>2 DEF HeadPlaces
  <2>4. Pointer(v, f, p) = Down(v, i1, Single(n)) BY <1>6 DEF Pointer, Down
  <2> QED BY <1>6, <2>1, <2>2, <2>3, <2>4, LookupIs
<1>7. CASE /\ n >= Reach1 /\ n < Reach2 /\ i2 # 0 /\ v.blocks[i2][Outer(n)] # 0
           /\ p = <<v.blocks[i2][Outer(n)], Inner(n)>>
  <2>1. Outer(n) \in Cell /\ Inner(n) \in Cell BY <1>7, Levels
  <2> DEFINE h == v.blocks[i2][Outer(n)]
             q == <<i2, Outer(n)>>
  <2>2. q \in HeadPlaces(v, f) BY <1>7, <2>1 DEF HeadPlaces
  <2>3. q \in Places(v, f) BY <2>2, HeadsAre
  <2>4. Pointer(v, f, q) = h BY <1>7 DEF Pointer
  <2>5. h # 0 /\ h \in Heads(v, f) BY <1>7, <2>2, <2>4, HeadsAre
  <2>6. h # i2
    <3>1. q # p2 BY <1>7
    <3>2. ASSUME h = i2 PROVE FALSE
      <4>1. Pointer(v, f, q) = Pointer(v, f, p2) /\ Pointer(v, f, q) # 0 BY <1>2, <2>4, <2>5, <3>2
      <4> HIDE DEF q, p2
      <4> QED BY <1>2, <2>3, <3>1, <4>1, Unique
    <3> QED BY <3>2
  <2>7. p \in Places(v, f) BY <1>7, <2>1, <2>5 DEF Places
  <2>8. p \notin HeadPlaces(v, f)
    <3>1. p \notin {p1, p2} BY <1>7
    <3>2. p \notin ({i2} \ {0}) \X Cell BY <1>7, <2>6
    <3> QED BY <3>1, <3>2 DEF HeadPlaces
  <2>9. Down(v, i2, Outer(n)) = h /\ Pointer(v, f, p) = Down(v, h, Inner(n))
    BY <1>7 DEF Pointer, Down
  <2>10. Lookup(v, f, n) = Down(v, Down(v, i2, Outer(n)), Inner(n)) BY <1>7, LookupIs
  <2>11. Pointer(v, f, p) = Lookup(v, f, n) BY <2>9, <2>10
  <2> QED BY <1>7, <2>7, <2>8, <2>11
<1> QED BY <1>5, <1>6, <1>7 DEF Leaf

LEMMA LeafOfOne ==
  ASSUME NEW v, Sound(v), NEW f \in Files, NEW n \in Nat, NEW m \in Nat, NEW p,
         Leaf(v, f, n, p), Leaf(v, f, m, p)
  PROVE  n = m
<1>1. Indir1 \in 0 .. Indir2 /\ Indir2 \in 0 .. Indir2 BY Basics
<1> DEFINE i1 == v.ptr[f][Indir1]
           i2 == v.ptr[f][Indir2]
           h(k) == v.blocks[i2][Outer(k)]
           D(k) == k < NDirect /\ p = <<0, k>>
           S(k) == k >= NDirect /\ k < Reach1 /\ i1 # 0 /\ p = <<i1, Single(k)>>
           T(k) == k >= Reach1 /\ k < Reach2 /\ i2 # 0 /\ h(k) # 0 /\ p = <<h(k), Inner(k)>>
<1>2. (D(n) \/ S(n) \/ T(n)) /\ (D(m) \/ S(m) \/ T(m)) BY DEF Leaf
<1>3. ASSUME NEW k \in Nat, T(k)
      PROVE  <<i2, Outer(k)>> \in Places(v, f) /\ Pointer(v, f, <<i2, Outer(k)>>) = h(k)
  <2>1. Outer(k) \in Cell BY <1>3, Levels
  <2>2. <<i2, Outer(k)>> \in HeadPlaces(v, f) BY <1>3, <2>1 DEF HeadPlaces
  <2> QED BY <1>3, <2>2, HeadsAre DEF Pointer
<1>4. ASSUME NEW k \in Nat, NEW l \in Nat, T(k), T(l) PROVE k = l
  <2>1. h(k) = h(l) /\ h(k) # 0 /\ Inner(k) = Inner(l) BY <1>4
  <2>2. <<i2, Outer(k)>> = <<i2, Outer(l)>>
    <3> DEFINE q == <<i2, Outer(k)>>
               r == <<i2, Outer(l)>>
    <3>1. q \in Places(v, f) /\ Pointer(v, f, q) = h(k) BY <1>3, <1>4
    <3>2. r \in Places(v, f) /\ Pointer(v, f, r) = h(l) BY <1>3, <1>4
    <3>3. Pointer(v, f, q) = Pointer(v, f, r) /\ Pointer(v, f, q) # 0 BY <2>1, <3>1, <3>2
    <3> HIDE DEF q, r, h
    <3>4. q = r BY <3>1, <3>2, <3>3, Unique
    <3> QED BY <3>4 DEF q, r
  <2>3. Outer(k) = Outer(l) BY <2>2
  <2> QED BY <1>4, <2>1, <2>3, LevelsApart
<1>5. ASSUME NEW k \in Nat, NEW l \in Nat, S(k), T(l) PROVE FALSE
  <2> DEFINE q == <<0, Indir1>>
             r == <<i2, Outer(l)>>
  <2>1. q \in Places(v, f) /\ Pointer(v, f, q) = i1 /\ q # r BY <1>1, <1>5 DEF Places, Pointer
  <2>2. r \in Places(v, f) /\ Pointer(v, f, r) = h(l) BY <1>3, <1>5
  <2>3. i1 = h(l) /\ i1 # 0 BY <1>5
  <2>4. Pointer(v, f, q) = Pointer(v, f, r) /\ Pointer(v, f, q) # 0 BY <2>1, <2>2, <2>3
  <2> HIDE DEF q, r
  <2> QED BY <2>1, <2>2, <2>4, Unique
<1>6. ASSUME NEW k \in Nat, NEW l \in Nat, D(k), S(l) \/ T(l) PROVE FALSE BY <1>6
<1>7. CASE D(n) /\ D(m) BY <1>7
<1>8. CASE S(n) /\ S(m)
  <2>1. Single(n) = Single(m) BY <1>8
  <2> QED BY <2>1, Basics DEF Single
<1> HIDE DEF D, S, T
<1> QED BY <1>2, <1>4, <1>5, <1>6, <1>7, <1>8


\* No two indices of all files have the same block, and it holds no pointers.
LEMMA LookupGives ==
  ASSUME NEW v, Sound(v), NEW f \in Files, NEW n \in Nat, Lookup(v, f, n) # 0
  PROVE  /\ Lookup(v, f, n) \in v.used /\ Lookup(v, f, n) \in Blocks /\ n < Reach2
         /\ \A g \in Files : Lookup(v, f, n) \notin Heads(v, g)
<1>1. PICK p : Leaf(v, f, n, p) /\ Pointer(v, f, p) = Lookup(v, f, n) BY LeafFor
<1>2. p \in Places(v, f) /\ p \notin HeadPlaces(v, f) /\ n < Reach2 BY <1>1, LeafGives
<1>3. Pointer(v, f, p) \in v.used \cup {0} BY <1>2, Marked
<1>4. ASSUME NEW g \in Files, Lookup(v, f, n) \in Heads(v, g) PROVE FALSE
  <2>1. PICK q \in HeadPlaces(v, g) : Lookup(v, f, n) = Pointer(v, g, q) BY <1>4, HeadsAre
  <2>2. q \in Places(v, g) BY HeadsAre
  <2>3. Pointer(v, f, p) = Pointer(v, g, q) /\ Pointer(v, f, p) # 0 BY <1>1, <2>1
  <2>4. f = g /\ p = q BY <1>2, <2>2, <2>3, Unique
  <2> QED BY <1>2, <2>4
<1> QED BY <1>1, <1>2, <1>3, <1>4, HeadsIn

LEMMA LookupOfOne ==
  ASSUME NEW v, Sound(v), NEW f \in Files, NEW g \in Files, NEW n \in Nat, NEW m \in Nat,
         Lookup(v, f, n) = Lookup(v, g, m), Lookup(v, f, n) # 0
  PROVE  f = g /\ n = m
<1>1. PICK p : Leaf(v, f, n, p) /\ Pointer(v, f, p) = Lookup(v, f, n) BY LeafFor
<1>2. PICK q : Leaf(v, g, m, q) /\ Pointer(v, g, q) = Lookup(v, g, m) BY LeafFor
<1>3. p \in Places(v, f) /\ q \in Places(v, g) BY <1>1, <1>2, LeafGives
<1>4. Pointer(v, f, p) = Pointer(v, g, q) /\ Pointer(v, f, p) # 0 BY <1>1, <1>2
<1>5. f = g /\ p = q BY <1>3, <1>4, Unique
<1> QED BY <1>1, <1>2, <1>5, LeafOfOne

LEMMA LookupKept ==
  ASSUME NEW v, Sound(v), NEW f \in Files, NEW w, Grows(v, w, f), NEW g \in Files, NEW n \in Nat,
         Lookup(v, g, n) # 0
  PROVE  Lookup(w, g, n) = Lookup(v, g, n)
<1>1. PICK p : Leaf(v, g, n, p) /\ Pointer(v, g, p) = Lookup(v, g, n) BY LeafFor
<1>2. /\ Indir1 \in 0 .. Indir2 /\ Indir2 \in 0 .. Indir2
      /\ n < NDirect => n \in 0 .. Indir2
      /\ n >= NDirect /\ n < Reach1 => Single(n) \in Cell
      /\ n >= Reach1 /\ n < Reach2 => Outer(n) \in Cell /\ Inner(n) \in Cell
      /\ NDirect \in Nat
  BY Levels, Basics
<1>3. \A k \in 0 .. Indir2 : v.ptr[g][k] # 0 => w.ptr[g][k] = v.ptr[g][k] BY DEF Grows
<1>4. ASSUME NEW b, b \in v.used, NEW k \in Cell, Down(v, b, k) # 0 PROVE Down(w, b, k) = Down(v, b, k)
  <2>1. b # 0 BY <1>4 DEF Down
  <2>2. v.blocks[b][k] # 0 BY <1>4, <2>1 DEF Down
  <2>3. w.blocks[b][k] = v.blocks[b][k] BY <1>4, <2>2 DEF Grows
  <2> QED BY <2>1, <2>3 DEF Down
<1>5. ASSUME NEW k \in {Indir1, Indir2} PROVE v.ptr[g][k] \in v.used \cup {0}
  <2>1. <<0, k>> \in Places(v, g) /\ Pointer(v, g, <<0, k>>) = v.ptr[g][k]
    BY <1>2 DEF Places, Pointer
  <2> QED BY <2>1, Marked
<1>6. CASE n < NDirect
  <2>1. Lookup(v, g, n) = v.ptr[g][n] /\ Lookup(w, g, n) = w.ptr[g][n] BY <1>6, LookupIs
  <2> QED BY <1>2, <1>3, <1>6, <2>1
<1>7. CASE n >= NDirect /\ n < Reach1
  <2> DEFINE i == v.ptr[g][Indir1]
  <2>1. Lookup(v, g, n) = Down(v, i, Single(n)) BY <1>7, LookupIs
  <2>2. Lookup(w, g, n) = Down(w, w.ptr[g][Indir1], Single(n)) BY <1>7, LookupIs
  <2>3. i # 0 BY <2>1 DEF Down
  <2>4. w.ptr[g][Indir1] = i BY <1>2, <1>3, <2>3
  <2>5. i \in v.used BY <1>5, <2>3
  <2> HIDE DEF i
  <2> QED BY <1>2, <1>4, <1>7, <2>1, <2>2, <2>4, <2>5
<1>8. CASE n >= Reach1 /\ n < Reach2
  <2> DEFINE i == v.ptr[g][Indir2]
             h == Down(v, i, Outer(n))
             x == Outer(n)
             y == Inner(n)
  <2>1. Lookup(v, g, n) = Down(v, h, y) BY <1>8, LookupIs
  <2>2. Lookup(w, g, n) = Down(w, Down(w, w.ptr[g][Indir2], x), y) BY <1>8, LookupIs
  <2>3. h # 0 BY <2>1 DEF Down
  <2>4. i # 0 /\ h = v.blocks[i][x] BY <2>3 DEF Down
  <2>5. w.ptr[g][Indir2] = i BY <1>2, <1>3, <2>4
  <2>6. i \in v.used BY <1>5, <2>4
  <2>7. x \in Cell /\ y \in Cell BY <1>2, <1>8
  <2>8. h \in v.used
    <3>1. <<i, x>> \in HeadPlaces(v, g) BY <2>4, <2>7 DEF HeadPlaces
    <3>2. Pointer(v, g, <<i, x>>) = h BY <2>4 DEF Pointer
    <3>3. h \in Heads(v, g) BY <2>3, <3>1, <3>2, HeadsAre
    <3> QED BY <3>3, HeadsIn
  <2>9. h = Down(v, i, x) OBVIOUS
  <2> HIDE DEF h, i, x, y
  <2>10. Down(w, i, x) = h BY <1>4, <2>3, <2>6, <2>7, <2>9
  <2>11. Down(w, h, y) = Down(v, h, y) BY <1>4, <2>1, <2>7, <2>8
  <2> QED BY <2>1, <2>2, <2>5, <2>10, <2>11
<1>9. n >= Reach2 => Lookup(v, g, n) = 0 BY LookupIs
<1>10. n < NDirect \/ (n >= NDirect /\ n < Reach1) \/ (n >= Reach1 /\ n < Reach2) \/ n >= Reach2
  BY <1>2, Levels
<1> QED BY <1>6, <1>7, <1>8, <1>9, <1>10

-----------------------------------------------------------------------------
(* get_file_blkno. *)

Gives(v, f, n, r) ==
  /\ Sound(r.vol) /\ Grows(v, r.vol, f) /\ r.vol.size = v.size /\ r.blk \in 0 .. NBlocks
  /\ r.blk # 0 => Lookup(r.vol, f, n) = r.blk
  /\ r.blk = 0 => r.vol.used = Blocks \/ n >= Reach2
  /\ r.blk = 0 /\ n < NDirect => r.vol = v

LEMMA BlkForGives ==
  ASSUME NEW v, Sound(v), NEW f \in Files, NEW n \in Nat
  PROVE  Gives(v, f, n, BlkFor(v, f, n))
<1> DEFINE n1 == n - NDirect
           n2 == n1 - Ptrs
           got == BlkFor(v, f, n)
           Q == Ptrs * Ptrs
<1>1. /\ NDirect \in Nat \ {0} /\ Ptrs \in Nat \ {0} /\ Q \in Nat /\ 0 \in 0 .. NBlocks
      /\ Indir1 \in 0 .. Indir2 /\ Indir2 \in 0 .. Indir2 /\ Indir1 # Indir2
      /\ n1 \in Int /\ n2 \in Int
  BY Basics
<1>2. <<0, Indir1>> \in Places(v, f) /\ <<0, Indir2>> \in Places(v, f) BY <1>1 DEF Places
<1>3. CASE n < NDirect
  <2> DEFINE p == <<0, n>>
  <2>1. got = Follow(v, f, p, TRUE) BY <1>3 DEF BlkFor
  <2>2. p \in Places(v, f)
    <3>1. n \in 0 .. Indir2 BY <1>3, Levels
    <3> QED BY <3>1 DEF Places
  <2> HIDE DEF got
  <2>3. FollowsTo(v, f, p, got) BY <2>1, <2>2, FollowGives
  <2>4. Pointer(got.vol, f, p) = got.vol.ptr[f][n] /\ Lookup(got.vol, f, n) = got.vol.ptr[f][n]
    BY <1>3, LookupIs DEF Pointer
  <2>5. Gives(v, f, n, got)
    <3> HIDE DEF p
    <3> QED BY <2>3, <2>4 DEF FollowsTo, Gives
  <2> QED BY <2>5 DEF got
<1>4. CASE ~(n < NDirect) /\ n1 < Ptrs
  <2> DEFINE p == <<0, Indir1>>
             a == Follow(v, f, p, TRUE)
             q == <<a.blk, n1>>
             k == n1
  <2>1. got = Descend(a, f, n1, FALSE) BY <1>4 DEF BlkFor
  <2>2. n >= NDirect /\ n < Reach1 BY <1>1, <1>4 DEF Reach1
  <2>3. k = Single(n) /\ k \in Cell BY <2>2, Levels DEF Single
  <2>4. FollowsTo(v, f, p, a) BY <1>2, FollowGives
  <2> HIDE DEF a, k
  <2>5. CASE a.blk = 0
    <3>1. got = a BY <2>1, <2>5 DEF Descend
    <3>2. Gives(v, f, n, a) BY <1>1, <1>4, <2>4, <2>5 DEF FollowsTo, Gives
    <3> QED BY <3>1, <3>2
  <2>6. CASE a.blk # 0
    <3>1. got = Follow(a.vol, f, q, FALSE) BY <2>1, <2>6 DEF Descend
    <3>2. Sound(a.vol) /\ p \in Places(a.vol, f) /\ Pointer(a.vol, f, p) = a.blk
          /\ a.blk \in Heads(a.vol, f)
      <4>1. p \in HeadPlaces(v, f) BY DEF HeadPlaces
      <4> QED BY <2>4, <2>6, <4>1 DEF FollowsTo
    <3>3. q \in Places(a.vol, f) BY <2>3, <3>2 DEF Places, k
    <3>4. Leaf(a.vol, f, n, q)
      <4>1. a.vol.ptr[f][Indir1] = a.blk BY <3>2 DEF Pointer
      <4> QED BY <2>2, <2>3, <2>6, <4>1 DEF Leaf, k
    <3>5. q \notin HeadPlaces(a.vol, f) BY <3>2, <3>4, LeafGives
    <3> HIDE DEF got, q
    <3>6. FollowsTo(a.vol, f, q, got) BY <3>1, <3>2, <3>3, <3>5, FollowGives
    <3>7. Sound(got.vol) /\ Grows(a.vol, got.vol, f) /\ Grows(v, a.vol, f) /\ got.vol.size = v.size
      BY <2>4, <3>6 DEF FollowsTo
    <3>8. Grows(v, got.vol, f) BY <3>7, GrowsOn
    <3>9. got.vol.ptr[f][Indir1] = a.blk
      <4>1. a.vol.ptr[f][Indir1] = a.blk BY <3>2 DEF Pointer
      <4> QED BY <1>1, <2>6, <3>7, <4>1 DEF Grows
    <3>10. Leaf(got.vol, f, n, q) BY <2>2, <2>3, <2>6, <3>9 DEF Leaf, k, q
    <3>11. Lookup(got.vol, f, n) = Pointer(got.vol, f, q) BY <3>7, <3>10, LeafGives
    <3>12. Gives(v, f, n, got) BY <1>4, <3>6, <3>7, <3>8, <3>11 DEF FollowsTo, Gives
    <3> QED BY <3>12 DEF got
  <2> QED BY <2>5, <2>6
<1>5. CASE ~(n < NDirect) /\ ~(n1 < Ptrs) /\ n2 > Q
  <2>1. got = At(v, 0) BY <1>5 DEF BlkFor
  <2>2. n >= Reach2 BY <1>1, <1>5 DEF Reach2
  <2>3. Grows(v, v, f) BY GrowsSame
  <2>4. At(v, 0).vol = v /\ At(v, 0).blk = 0 BY DEF At
  <2>5. Gives(v, f, n, At(v, 0)) BY <1>1, <1>5, <2>2, <2>3, <2>4 DEF Gives
  <2> QED BY <2>1, <2>5
<1>6. CASE ~(n < NDirect) /\ ~(n1 < Ptrs) /\ n2 = Q
  <2> DEFINE w == [v EXCEPT !.beyond = TRUE]
  <2>0. ~(n2 > Q)
    <3> HIDE DEF n2, Q
    <3> QED BY <1>1, <1>6
  <2>1. got = At(w, 0) BY <1>6, <2>0, Zenon DEF BlkFor
  <2>2. n >= Reach2 BY <1>1, <1>6 DEF Reach2
  <2>3. /\ w \in VolumeType /\ w.size = v.size /\ w.used = v.used /\ w.ptr = v.ptr
        /\ w.blocks = v.blocks
    BY DEF Sound, VolumeType
  <2> HIDE DEF w
  <2>4. Sound(w)
    <3>1. \A g : Heads(w, g) = Heads(v, g) BY <2>3 DEF Heads, In
    <3>2. \A g : Places(w, g) = Places(v, g) BY <3>1 DEF Places
    <3>3. \A g, p : Pointer(w, g, p) = Pointer(v, g, p) BY <2>3 DEF Pointer
    <3> QED BY <2>3, <3>2, <3>3 DEF Sound, Owned
  <2>5. Grows(v, w, f) BY <2>3 DEF Grows
  <2>6. At(w, 0).vol = w /\ At(w, 0).blk = 0 BY DEF At
  <2>7. Gives(v, f, n, At(w, 0)) BY <1>1, <1>6, <2>2, <2>3, <2>4, <2>5, <2>6 DEF Gives
  <2> QED BY <2>1, <2>7
<1>7. CASE ~(n < NDirect) /\ ~(n1 < Ptrs) /\ n2 < Q
  <2> DEFINE p == <<0, Indir2>>
             x == Outer(n)
             y == Inner(n)
             a == Follow(v, f, p, TRUE)
             b == Descend(a, f, x, TRUE)
             q == <<a.blk, x>>
             r == <<b.blk, y>>
  <2>0. ~(n2 > Q) /\ ~(n2 = Q)
    <3> HIDE DEF n2, Q
    <3> QED BY <1>1, <1>7
  <2>1. got = Descend(b, f, y, TRUE) BY <1>7, <2>0, Zenon DEF BlkFor, Outer, Inner
  <2>2. n >= Reach1 /\ n < Reach2 BY <1>1, <1>7 DEF Reach1, Reach2
  <2>3. x \in Cell /\ y \in Cell BY <2>2, Levels
  <2>4. FollowsTo(v, f, p, a) BY <1>2, FollowGives
  <2> HIDE DEF a, x, y
  <2>5. CASE a.blk = 0
    <3>1. b = a BY <2>5 DEF Descend
    <3>2. got = a BY <2>1, <2>5, <3>1 DEF Descend
    <3>3. Gives(v, f, n, a) BY <1>1, <1>7, <2>4, <2>5 DEF FollowsTo, Gives
    <3> QED BY <3>2, <3>3
  <2>6. CASE a.blk # 0
    <3>1. b = Follow(a.vol, f, q, TRUE) BY <2>6 DEF Descend
    <3>2. Sound(a.vol) /\ Pointer(a.vol, f, p) = a.blk /\ a.blk \in Heads(a.vol, f)
      <4>1. p \in HeadPlaces(v, f) BY DEF HeadPlaces
      <4> QED BY <2>4, <2>6, <4>1 DEF FollowsTo
    <3>3. a.vol.ptr[f][Indir2] = a.blk BY <3>2 DEF Pointer
    <3>4. q \in Places(a.vol, f) BY <2>3, <3>2 DEF Places
    <3>5. q \in HeadPlaces(a.vol, f) BY <2>3, <2>6, <3>3 DEF HeadPlaces
    <3> HIDE DEF b, q
    <3>6. FollowsTo(a.vol, f, q, b) BY <3>1, <3>2, <3>4, FollowGives
    <3>7. Sound(b.vol) /\ Grows(a.vol, b.vol, f) /\ Grows(v, a.vol, f) /\ b.vol.size = v.size
      BY <2>4, <3>6 DEF FollowsTo
    <3>8. Grows(v, b.vol, f) BY <3>7, GrowsOn
    <3>9. CASE b.blk = 0
      <4>1. got = b BY <2>1, <3>9 DEF Descend
      <4>2. Gives(v, f, n, b) BY <1>1, <1>7, <3>6, <3>7, <3>8, <3>9 DEF FollowsTo, Gives
      <4> QED BY <4>1, <4>2
    <3>10. CASE b.blk # 0
      <4>1. got = Follow(b.vol, f, r, TRUE) BY <2>1, <3>10 DEF Descend
      <4>2. b.blk \in Heads(b.vol, f) /\ Pointer(b.vol, f, q) = b.blk
        BY <3>5, <3>6, <3>10 DEF FollowsTo
      <4>3. r \in Places(b.vol, f) BY <2>3, <4>2 DEF Places
      <4> HIDE DEF got, r
      <4>4. FollowsTo(b.vol, f, r, got) BY <3>7, <4>1, <4>3, FollowGives
      <4>5. Sound(got.vol) /\ Grows(b.vol, got.vol, f) /\ got.vol.size = v.size
        BY <3>7, <4>4 DEF FollowsTo
      <4>6. Grows(v, got.vol, f) /\ Grows(a.vol, got.vol, f) BY <3>7, <3>8, <4>5, GrowsOn
      <4>7. got.vol.ptr[f][Indir2] = a.blk BY <1>1, <2>6, <3>3, <4>6 DEF Grows
      <4>8. got.vol.blocks[a.blk][x] = b.blk
        <5>1. a.blk \in b.vol.used
          <6>1. a.blk \in a.vol.used BY <3>2, HeadsIn
          <6> QED BY <3>7, <6>1 DEF Grows
        <5>2. b.vol.blocks[a.blk][x] = b.blk BY <2>6, <4>2 DEF Pointer, q
        <5> QED BY <2>3, <3>10, <4>5, <5>1, <5>2 DEF Grows
      <4>9. Leaf(got.vol, f, n, r) BY <2>2, <2>6, <3>10, <4>7, <4>8 DEF Leaf, r, x, y
      <4>10. Lookup(got.vol, f, n) = Pointer(got.vol, f, r) BY <4>5, <4>9, LeafGives
      <4>11. Gives(v, f, n, got) BY <1>7, <4>4, <4>5, <4>6, <4>10 DEF FollowsTo, Gives
      <4> QED BY <4>11 DEF got
    <3> QED BY <3>9, <3>10
  <2> QED BY <2>5, <2>6
<1> HIDE DEF n1, n2, Q
<1> QED BY <1>1, <1>3, <1>4, <1>5, <1>6, <1>7

-----------------------------------------------------------------------------
(* Copying into the block of an index. *)

Copied(u, f, b, lo, l) ==
  [u EXCEPT !.blocks[b] = [x \in Cell |-> IF x \in lo .. lo + l - 1 THEN Byte[f] ELSE @[x]],
            !.size[f] = @ + l]

\* f has kept its blocks and may have got more, and the other files are as they were
Extends(v, w, f) ==
  /\ v.used \subseteq w.used
  /\ \A g \in Files : \A n \in Nat : Lookup(v, g, n) # 0 => Lookup(w, g, n) = Lookup(v, g, n)
  /\ \A g \in Files \ {f} : w.size[g] = v.size[g] /\ \A k \in 0 .. Indir2 : w.ptr[g][k] = v.ptr[g][k]

\* w is u with l cells of f written from cell lo of block b on
WroteIn(u, w, f, b, lo, l) ==
  /\ w \in VolumeType /\ w.used = u.used /\ w.ptr = u.ptr
  /\ w.size[f] = u.size[f] + l /\ \A g \in Files \ {f} : w.size[g] = u.size[g]
  /\ \A c \in Blocks : \A x \in Cell :
       w.blocks[c][x] = IF c = b /\ x >= lo /\ x < lo + l THEN Byte[f] ELSE u.blocks[c][x]

LEMMA CopiedIs ==
  ASSUME NEW u \in VolumeType, NEW f \in Files, NEW b \in Blocks, NEW lo \in Nat, NEW l \in Nat
  PROVE  WroteIn(u, Copied(u, f, b, lo, l), f, b, lo, l)
<1> DEFINE w == Copied(u, f, b, lo, l)
           cells == [x \in Cell |-> IF x \in lo .. lo + l - 1 THEN Byte[f] ELSE u.blocks[b][x]]
<1>1. /\ u.size \in [Files -> Nat] /\ u.blocks \in [Blocks -> [Cell -> Stored]]
      /\ u.used \subseteq Blocks /\ u.ptr \in [Files -> [0 .. Indir2 -> 0 .. NBlocks]]
      /\ u.beyond \in BOOLEAN
  BY DEF VolumeType
<1>2. cells \in [Cell -> Stored] BY <1>1, Basics
<1>3. \A x \in Cell : x \in lo .. lo + l - 1 <=> x >= lo /\ x < lo + l BY Basics
<1>4. w = [u EXCEPT !.blocks = [u.blocks EXCEPT ![b] = cells],
                    !.size = [u.size EXCEPT ![f] = u.size[f] + l]]
  BY DEF Copied, VolumeType
<1>5. /\ w.blocks = [u.blocks EXCEPT ![b] = cells] /\ w.size = [u.size EXCEPT ![f] = u.size[f] + l]
      /\ w.used = u.used /\ w.ptr = u.ptr /\ w.beyond = u.beyond
  <2> HIDE DEF w, cells
  <2> QED BY <1>4 DEF VolumeType
<1>6. w \in VolumeType
  <2> HIDE DEF cells, w
  <2>1. [u.blocks EXCEPT ![b] = cells] \in [Blocks -> [Cell -> Stored]] BY <1>1, <1>2
  <2>2. [u.size EXCEPT ![f] = u.size[f] + l] \in [Files -> Nat] BY <1>1
  <2> QED BY <1>1, <1>4, <2>1, <2>2 DEF VolumeType
<1>7. w.size[f] = u.size[f] + l /\ \A g \in Files \ {f} : w.size[g] = u.size[g]
  <2> HIDE DEF w
  <2> QED BY <1>1, <1>5
<1>8. ASSUME NEW c \in Blocks, NEW x \in Cell
      PROVE  w.blocks[c][x] = IF c = b /\ x >= lo /\ x < lo + l THEN Byte[f] ELSE u.blocks[c][x]
  <2>1. cells[x] = IF x >= lo /\ x < lo + l THEN Byte[f] ELSE u.blocks[b][x] BY <1>3
  <2> HIDE DEF w, cells
  <2>2. w.blocks[c] = IF c = b THEN cells ELSE u.blocks[c] BY <1>1, <1>5
  <2> QED BY <2>1, <2>2
<1> HIDE DEF w
<1>9. WroteIn(u, w, f, b, lo, l) BY <1>5, <1>6, <1>7, <1>8 DEF WroteIn
<1> QED BY <1>9 DEF w

\* Writing in a block that is no head leaves the pointers alone.
LEMMA DataApart ==
  ASSUME NEW u, Sound(u), NEW w \in VolumeType, NEW b \in Blocks,
         \A g \in Files : b \notin Heads(u, g), w.used = u.used, w.ptr = u.ptr,
         \A c \in Blocks \ {b} : \A x \in Cell : w.blocks[c][x] = u.blocks[c][x]
  PROVE  Sound(w) /\ \A g \in Files : \A n \in Nat : Lookup(w, g, n) = Lookup(u, g, n)
<1>1. ASSUME NEW g \in Files, NEW c, c \in Heads(u, g) \cup {0}, NEW x \in Cell
      PROVE  Down(w, c, x) = Down(u, c, x)
  <2>1. CASE c = 0 BY <2>1 DEF Down
  <2>2. CASE c # 0
    <3>1. c \in Heads(u, g) /\ c \in Blocks /\ c # b BY <1>1, <2>2, HeadsIn
    <3> QED BY <3>1 DEF Down
  <2> QED BY <2>1, <2>2
<1>2. ASSUME NEW g \in Files
      PROVE  u.ptr[g][Indir1] \in Heads(u, g) \cup {0} /\ u.ptr[g][Indir2] \in Heads(u, g) \cup {0}
  BY DEF Heads
<1>3. ASSUME NEW g \in Files, NEW x \in Cell
      PROVE  Down(u, u.ptr[g][Indir2], x) \in Heads(u, g) \cup {0}
  <2> DEFINE i == u.ptr[g][Indir2]
  <2>1. CASE i = 0 BY <2>1 DEF Down
  <2>2. CASE i # 0
    <3>1. <<i, x>> \in HeadPlaces(u, g) BY <2>2 DEF HeadPlaces
    <3>2. Pointer(u, g, <<i, x>>) = Down(u, i, x) BY <2>2 DEF Pointer, Down
    <3> QED BY <3>1, <3>2, HeadsAre
  <2> QED BY <2>1, <2>2
<1>4. ASSUME NEW g \in Files PROVE Heads(w, g) = Heads(u, g)
  <2> DEFINE i == u.ptr[g][Indir2]
  <2>1. HeadPlaces(w, g) = HeadPlaces(u, g) BY DEF HeadPlaces
  <2>2. ASSUME NEW p \in HeadPlaces(u, g) PROVE Pointer(w, g, p) = Pointer(u, g, p)
    <3>1. CASE p \in {<<0, Indir1>>, <<0, Indir2>>} BY <3>1 DEF Pointer
    <3>2. CASE p \in ({i} \ {0}) \X Cell
      <4>1. PICK x \in Cell : p = <<i, x>> /\ i # 0 BY <3>2
      <4>2. Pointer(w, g, p) = Down(w, i, x) /\ Pointer(u, g, p) = Down(u, i, x)
        BY <4>1 DEF Pointer, Down
      <4> QED BY <1>1, <1>2, <4>2
    <3> QED BY <3>1, <3>2 DEF HeadPlaces
  <2> QED BY <2>1, <2>2, HeadsAre
<1>5. ASSUME NEW g \in Files PROVE Places(w, g) = Places(u, g) BY <1>4 DEF Places
<1>6. ASSUME NEW g \in Files, NEW p \in Places(u, g) PROVE Pointer(w, g, p) = Pointer(u, g, p)
  <2>1. CASE p \in {0} \X (0 .. Indir2) BY <2>1 DEF Pointer
  <2>2. CASE p \in Heads(u, g) \X Cell
    <3>1. PICK h \in Heads(u, g), x \in Cell : p = <<h, x>> BY <2>2
    <3>2. h # 0 /\ h \in Blocks \ {b} BY HeadsIn
    <3>3. Pointer(w, g, p) = w.blocks[h][x] /\ Pointer(u, g, p) = u.blocks[h][x]
      BY <3>1, <3>2 DEF Pointer
    <3> QED BY <3>2, <3>3
  <2> QED BY <2>1, <2>2 DEF Places
<1>7. Owned(w)
  <2>1. \A g \in Files : \A p \in Places(w, g) :
          Pointer(w, g, p) \in 0 .. NBlocks /\ (Pointer(w, g, p) # 0 => Pointer(w, g, p) \in w.used)
    BY <1>5, <1>6 DEF Sound, Owned
  <2>2. \A g, h \in Files : \A p \in Places(w, g), q \in Places(w, h) :
          Pointer(w, g, p) = Pointer(w, h, q) /\ Pointer(w, g, p) # 0 => g = h /\ p = q
    BY <1>5, <1>6 DEF Sound, Owned
  <2>3. \A c \in w.used : \E g \in Files : \E p \in Places(w, g) : Pointer(w, g, p) = c
    BY <1>5, <1>6 DEF Sound, Owned
  <2> QED BY <2>1, <2>2, <2>3 DEF Owned
<1>8. ASSUME NEW g \in Files, NEW n \in Nat PROVE Lookup(w, g, n) = Lookup(u, g, n)
  <2>1. /\ n >= NDirect /\ n < Reach1 => Single(n) \in Cell
        /\ n >= Reach1 /\ n < Reach2 => Outer(n) \in Cell /\ Inner(n) \in Cell
        /\ NDirect \in Nat /\ Reach1 \in Nat /\ Reach2 \in Nat
    BY Levels, Basics
  <2>2. CASE n < NDirect BY <2>2, LookupIs
  <2>3. CASE n >= NDirect /\ n < Reach1
    <3>1. /\ Lookup(u, g, n) = Down(u, u.ptr[g][Indir1], Single(n))
          /\ Lookup(w, g, n) = Down(w, w.ptr[g][Indir1], Single(n))
      BY <2>3, LookupIs
    <3> QED BY <1>1, <1>2, <2>1, <2>3, <3>1
  <2>4. CASE n >= Reach1 /\ n < Reach2
    <3> DEFINE i == u.ptr[g][Indir2]
               h == Down(u, i, Outer(n))
    <3>1. /\ Lookup(u, g, n) = Down(u, h, Inner(n))
          /\ Lookup(w, g, n) = Down(w, Down(w, w.ptr[g][Indir2], Outer(n)), Inner(n))
      BY <2>4, LookupIs
    <3>2. Down(w, i, Outer(n)) = h BY <1>1, <1>2, <2>1, <2>4
    <3>3. h \in Heads(u, g) \cup {0} BY <1>3, <2>1, <2>4
    <3> HIDE DEF h
    <3>4. Down(w, h, Inner(n)) = Down(u, h, Inner(n)) BY <1>1, <2>1, <2>4, <3>3
    <3> QED BY <3>1, <3>2, <3>4
  <2>5. CASE n >= Reach2 BY <2>5, LookupIs
  <2> QED BY <2>1, <2>2, <2>3, <2>4, <2>5
<1> QED BY <1>7, <1>8 DEF Sound


-----------------------------------------------------------------------------
(* The visits of do_write. *)

\* the first cell that the k-th visit writes in its block, and how many visits there are
From(offset, k) == IF k = 1 THEN offset % Ptrs ELSE 0
Visits(offset, len) == (offset + len) \div Ptrs - offset \div Ptrs + 1

Starts(v, len) == [vol |-> v, left |-> len, stopped |-> FALSE]

Visit(c, f, n, lo) ==
  LET got == BlkFor(c.vol, f, n)
      l == Lower(Ptrs - lo, c.left)
  IN IF c.stopped THEN c
     ELSE IF got.blk = 0 THEN [c EXCEPT !.vol = got.vol, !.stopped = TRUE]
     ELSE [vol |-> Copied(got.vol, f, got.blk, lo, l), left |-> c.left - l, stopped |-> FALSE]

\* e[k] is what k visits lead to
Visited(e, v, f, offset, len, m) ==
  /\ e = [k \in 0 .. m |-> e[k]]
  /\ e[0] = Starts(v, len)
  /\ \A k \in 1 .. m : e[k] = Visit(e[k - 1], f, offset \div Ptrs + k - 1, From(offset, k))

LEMMA VisitsAre ==
  ASSUME NEW offset \in Nat, NEW len \in Nat
  PROVE  /\ Visits(offset, len) \in Nat \ {0}
         /\ offset \div Ptrs \in Nat /\ (offset + len) \div Ptrs \in Nat
         /\ (offset + len) \div Ptrs = (offset \div Ptrs) + (Visits(offset, len) - 1)
<1> DEFINE first == offset \div Ptrs
           last == (offset + len) \div Ptrs
           m == offset + len
<1>1. Ptrs \in Nat \ {0} BY Basics
<1>2. /\ first \in Nat /\ first * Ptrs \in Nat /\ offset % Ptrs \in 0 .. Ptrs - 1
      /\ offset = first * Ptrs + (offset % Ptrs)
  BY <1>1, Division
<1>3. m \in Nat /\ m >= offset OBVIOUS
<1>4. /\ last \in Nat /\ last * Ptrs \in Nat /\ m % Ptrs \in 0 .. Ptrs - 1
      /\ m = last * Ptrs + (m % Ptrs)
  <2> HIDE DEF m
  <2>1. /\ m \div Ptrs \in Nat /\ (m \div Ptrs) * Ptrs \in Nat /\ m % Ptrs \in 0 .. Ptrs - 1
        /\ m = (m \div Ptrs) * Ptrs + (m % Ptrs)
    BY <1>1, <1>3, Division
  <2> QED BY <2>1 DEF m
<1>5. Visits(offset, len) = last - first + 1 BY DEF Visits
<1> HIDE DEF first, last, m
<1>6. ~(last < first)
  <2>1. ASSUME last < first PROVE FALSE
    <3>1. last * Ptrs + Ptrs <= first * Ptrs BY <1>1, <1>2, <1>4, <2>1, Multiples
    <3> QED BY <1>1, <1>2, <1>3, <1>4, <3>1
  <2> QED BY <2>1
<1>7. /\ Visits(offset, len) \in Nat \ {0} /\ last = first + (Visits(offset, len) - 1)
  BY <1>2, <1>4, <1>5, <1>6
<1> QED BY <1>2, <1>4, <1>7 DEF first, last

LEMMA DoWriteIs ==
  ASSUME NEW v, NEW f, NEW offset \in Nat, NEW len \in Nat
  PROVE  \E e : /\ Visited(e, v, f, offset, len, Visits(offset, len))
                /\ DoWrite(v, f, offset, len) = e[Visits(offset, len)].vol
<1> DEFINE m == Visits(offset, len)
           first == offset \div Ptrs
           Missing == {n \in Nat : ~ \E e : Visited(e, v, f, offset, len, n)}
           Is(e) == e = [k \in 0 .. m |->
                           IF k = 0 THEN Starts(v, len)
                           ELSE Visit(e[k - 1], f, first + k - 1, From(offset, k))]
<1>1. m \in Nat \ {0} /\ first \in Nat BY VisitsAre
<1>2. ASSUME Missing # {} PROVE FALSE
  <2>1. PICK n \in Missing : \A l \in Missing : n <= l
    <3>1. Missing \subseteq Nat OBVIOUS
    <3> HIDE DEF Missing
    <3> QED BY <1>2, <3>1, LeastOf
  <2>2. n \in Nat /\ ~ \E e : Visited(e, v, f, offset, len, n) BY <2>1
  <2>3. n # 0
    <3> DEFINE e == [k \in 0 .. 0 |-> Starts(v, len)]
    <3>1. e[0] = Starts(v, len) /\ e = [k \in 0 .. 0 |-> e[k]] OBVIOUS
    <3> HIDE DEF e
    <3>2. Visited(e, v, f, offset, len, 0) BY <3>1 DEF Visited
    <3> QED BY <2>2, <3>2
  <2>4. n - 1 \in Nat /\ n - 1 \notin Missing
    <3>1. n - 1 \in Nat /\ ~(n <= n - 1) BY <2>2, <2>3
    <3> HIDE DEF Missing
    <3> QED BY <2>1, <3>1
  <2>5. PICK d : Visited(d, v, f, offset, len, n - 1) BY <2>4
  <2> DEFINE next == Visit(d[n - 1], f, first + n - 1, From(offset, n))
             e == [k \in 0 .. n |-> IF k = n THEN next ELSE d[k]]
  <2>6. /\ e = [k \in 0 .. n |-> e[k]] /\ e[n] = next
        /\ \A k \in 0 .. n - 1 : e[k] = d[k]
    BY <2>2, <2>4
  <2> HIDE DEF e
  <2>7. e[0] = Starts(v, len)
    <3>1. 0 \in 0 .. n - 1 BY <2>2, <2>3
    <3>2. e[0] = d[0] BY <2>6, <3>1
    <3> QED BY <2>5, <3>2 DEF Visited
  <2>8. ASSUME NEW k \in 1 .. n PROVE e[k] = Visit(e[k - 1], f, first + k - 1, From(offset, k))
    <3>0. k - 1 \in 0 .. n - 1 BY <2>2
    <3>1. e[k - 1] = d[k - 1] BY <2>6, <3>0
    <3>2. CASE k = n BY <2>6, <3>1, <3>2
    <3>3. CASE k # n
      <4>1. k \in 1 .. n - 1 /\ k \in 0 .. n - 1 BY <2>4, <3>3
      <4>2. d[k] = Visit(d[k - 1], f, first + k - 1, From(offset, k)) BY <2>5, <4>1 DEF Visited
      <4> QED BY <2>6, <3>1, <4>1, <4>2
    <3> QED BY <3>2, <3>3
  <2>9. Visited(e, v, f, offset, len, n) BY <2>6, <2>7, <2>8 DEF Visited
  <2> QED BY <2>2, <2>9
<1>3. PICK d : Visited(d, v, f, offset, len, m) BY <1>1, <1>2
<1>4. Is(d)
  <2>1. d = [k \in 0 .. m |-> d[k]] BY <1>3 DEF Visited
  <2>2. \A k \in 0 .. m : d[k] = IF k = 0 THEN Starts(v, len)
                                 ELSE Visit(d[k - 1], f, first + k - 1, From(offset, k))
    <3>1. \A k \in 0 .. m : k # 0 => k \in 1 .. m BY <1>1
    <3> QED BY <1>3, <3>1 DEF Visited
  <2> QED BY <2>1, <2>2
<1>5. PICK e : Is(e) /\ DoWrite(v, f, offset, len) = e[m].vol
  <2>1. DoWrite(v, f, offset, len) = (CHOOSE e : Is(e))[m].vol
    BY Zenon DEF DoWrite, WriteLoop, Visits, Visit, Starts, Copied, From
  <2> DEFINE e == CHOOSE e : Is(e)
  <2>2. Is(e) BY <1>4
  <2> QED BY <2>1, <2>2
<1>6. /\ 0 \in 0 .. m /\ \A k \in 1 .. m : k \in 0 .. m /\ k # 0
      /\ e = [k \in 0 .. m |-> IF k = 0 THEN Starts(v, len)
                               ELSE Visit(e[k - 1], f, first + k - 1, From(offset, k))]
  <2>1. 0 \in 0 .. m /\ \A k \in 1 .. m : k \in 0 .. m /\ k # 0
    <3> HIDE DEF m
    <3> QED BY <1>1
  <2>2. e = [k \in 0 .. m |-> IF k = 0 THEN Starts(v, len)
                              ELSE Visit(e[k - 1], f, first + k - 1, From(offset, k))]
    <3> HIDE DEF m
    <3> QED BY <1>5, Zenon
  <2> QED BY <2>1, <2>2, Zenon
<1> HIDE DEF Is
<1>7. e = [k \in 0 .. m |-> e[k]] BY <1>6
<1>8. e[0] = Starts(v, len) BY <1>6
<1>9. \A k \in 1 .. m : e[k] = Visit(e[k - 1], f, first + k - 1, From(offset, k)) BY <1>6
<1>10. Visited(e, v, f, offset, len, m) BY <1>7, <1>8, <1>9 DEF Visited
<1> QED BY <1>5, <1>10


\* After k visits of a write to the end of f: the cells it has written so far are in
\* the blocks they belong in.
During(v, f, len, k, c) ==
  LET at == v.size[f]
      n == at \div Ptrs + k
  IN /\ Sound(c.vol) /\ Filled(c.vol) /\ Extends(v, c.vol, f)
     /\ c \in [vol : VolumeType, left : 0 .. len, stopped : BOOLEAN]
     /\ c.vol.size[f] = at + (len - c.left)
     /\ ~c.stopped /\ c.left > 0 => at + (len - c.left) = n * Ptrs + From(at, k + 1)
     /\ ~c.stopped /\ k >= 1 => Lookup(c.vol, f, n - 1) # 0
     /\ c.stopped => c.vol.used = Blocks \/ Reach2 <= (at + len) \div Ptrs
     /\ c.vol.size[f] = 0 => \A i \in 0 .. Indir2 : c.vol.ptr[f][i] = v.ptr[f][i]

LEMMA FromIs ==
  ASSUME NEW offset \in Nat, NEW k \in Nat
  PROVE  From(offset, k + 1) \in Cell /\ (k >= 1 => From(offset, k + 1) = 0)
<1>1. Ptrs \in Nat \ {0} /\ Cell = 0 .. Ptrs - 1 BY Basics
<1>2. offset % Ptrs \in 0 .. Ptrs - 1 BY <1>1, Division
<1>3. k >= 1 => k + 1 # 1 OBVIOUS
<1> QED BY <1>1, <1>2, <1>3 DEF From

LEMMA InBlock ==
  ASSUME NEW m \in Nat, NEW n \in Nat, NEW x \in Cell, NEW lo \in Nat, NEW l \in Nat,
         lo + l <= Ptrs, n * Ptrs + lo <= m * Ptrs + x, m * Ptrs + x < n * Ptrs + lo + l
  PROVE  m = n /\ x >= lo /\ x < lo + l
<1>1. Ptrs \in Nat \ {0} /\ x \in Nat /\ x < Ptrs /\ m * Ptrs \in Nat /\ n * Ptrs \in Nat BY Basics
<1>2. ~(m < n)
  <2>1. ASSUME m < n PROVE FALSE
    <3>1. m * Ptrs + Ptrs <= n * Ptrs BY <1>1, <2>1, Multiples
    <3> DEFINE a == m * Ptrs
               b == n * Ptrs
    <3> HIDE DEF a, b
    <3>2. a \in Nat /\ b \in Nat /\ a + Ptrs <= b /\ b + lo <= a + x BY <1>1, <3>1 DEF a, b
    <3> QED BY <1>1, <3>2
  <2> QED BY <2>1
<1>3. ~(n < m)
  <2>1. ASSUME n < m PROVE FALSE
    <3>1. n * Ptrs + Ptrs <= m * Ptrs BY <1>1, <2>1, Multiples
    <3> DEFINE a == m * Ptrs
               b == n * Ptrs
    <3> HIDE DEF a, b
    <3>2. a \in Nat /\ b \in Nat /\ b + Ptrs <= a /\ a + x < b + lo + l BY <1>1, <3>1 DEF a, b
    <3> QED BY <1>1, <3>2
  <2> QED BY <2>1
<1>4. m = n BY <1>2, <1>3
<1> DEFINE a == m * Ptrs
<1>5. a \in Nat /\ a + lo <= a + x /\ a + x < a + lo + l BY <1>1, <1>4
<1> HIDE DEF a
<1>6. x >= lo /\ x < lo + l BY <1>1, <1>5
<1> QED BY <1>4, <1>6

\* how far a visit gets
Counts(at, len, n, lo, next, left, l) ==
  /\ n \in Nat /\ lo \in Nat /\ l \in Nat /\ l <= left /\ lo + l <= Ptrs
  /\ left > 0 => l > 0
  /\ left - l > 0 => at + (len - (left - l)) = (n + 1) * Ptrs + next

LEMMA VisitCounts ==
  ASSUME NEW at \in Nat, NEW len \in Nat, NEW k \in Nat, NEW left \in 0 .. len,
         left > 0 => at + (len - left) = (at \div Ptrs + k) * Ptrs + From(at, k + 1)
  PROVE  LET lo == From(at, k + 1) IN
         Counts(at, len, at \div Ptrs + k, lo, From(at, k + 2), left, Lower(Ptrs - lo, left))
<1> DEFINE n == at \div Ptrs + k
           lo == From(at, k + 1)
           l == Lower(Ptrs - lo, left)
           a == n * Ptrs
<1>1. Ptrs \in Nat \ {0} /\ lo \in Nat /\ lo < Ptrs BY FromIs, Basics
<1>2. n \in Nat
  <2>1. at \div Ptrs \in Nat BY <1>1, Division
  <2> QED BY <2>1
<1>3. a \in Nat /\ (n + 1) * Ptrs = a + Ptrs
  <2> HIDE DEF n
  <2> QED BY <1>1, <1>2
<1>4. left > 0 => at + (len - left) = a + lo OBVIOUS
<1>5. From(at, k + 2) = 0
  <2>1. (k + 1) + 1 = k + 2 /\ k + 1 \in Nat /\ k + 1 >= 1 OBVIOUS
  <2> QED BY <2>1, FromIs
<1>6. l = IF Ptrs - lo < left THEN Ptrs - lo ELSE left BY DEF Lower
<1>7. (n + 1) * Ptrs + From(at, k + 2) = a + Ptrs
  <2> DEFINE b == (n + 1) * Ptrs
  <2>1. b = a + Ptrs BY <1>3
  <2> HIDE DEF a, b
  <2>2. b + From(at, k + 2) = a + Ptrs BY <1>1, <1>3, <1>5, <2>1
  <2> QED BY <2>2 DEF b
<1> HIDE DEF a, l, lo
<1>8. l \in Nat /\ l <= left /\ lo + l <= Ptrs /\ (left > 0 => l > 0)
  BY <1>1, <1>6
<1>9. left - l > 0 => at + (len - (left - l)) = a + Ptrs BY <1>1, <1>3, <1>4, <1>6
<1>10. left - l > 0 => at + (len - (left - l)) = (n + 1) * Ptrs + From(at, k + 2)
  <2> HIDE DEF n
  <2>1. (n + 1) * Ptrs + From(at, k + 2) = a + Ptrs BY <1>7
  <2> DEFINE b == (n + 1) * Ptrs + From(at, k + 2)
  <2> HIDE DEF b
  <2>2. b = a + Ptrs BY <2>1 DEF b
  <2>3. left - l > 0 => at + (len - (left - l)) = b BY <1>9, <2>2
  <2> QED BY <2>3 DEF b
<1> HIDE DEF n
<1>11. Counts(at, len, n, lo, From(at, k + 2), left, l) BY <1>1, <1>2, <1>8, <1>10 DEF Counts
<1> QED BY <1>11 DEF l, lo, n


LEMMA FilledGrown ==
  ASSUME NEW u, Sound(u), Filled(u), NEW f \in Files, NEW w, Grows(u, w, f), w.size = u.size
  PROVE  Filled(w)
<1> SUFFICES ASSUME NEW g \in Files, NEW n \in Nat, NEW k \in Cell, n * Ptrs + k < u.size[g]
             PROVE  Lookup(w, g, n) # 0 /\ w.blocks[Lookup(w, g, n)][k] = Byte[g]
  BY DEF Filled
<1>1. Lookup(u, g, n) # 0 /\ u.blocks[Lookup(u, g, n)][k] = Byte[g] BY DEF Filled
<1>2. Lookup(w, g, n) = Lookup(u, g, n) BY <1>1, LookupKept
<1>3. Lookup(u, g, n) \in u.used BY <1>1, LookupGives
<1>4. Byte[g] # 0 BY Basics
<1> QED BY <1>1, <1>2, <1>3, <1>4 DEF Grows

Wrote(u, w, f, l) ==
  /\ Sound(w) /\ Filled(w) /\ w.used = u.used /\ w.ptr = u.ptr
  /\ w.size[f] = u.size[f] + l /\ \A g \in Files \ {f} : w.size[g] = u.size[g]
  /\ \A g \in Files : \A m \in Nat : Lookup(w, g, m) = Lookup(u, g, m)

LEMMA CopiedGives ==
  ASSUME NEW u, Sound(u), Filled(u), NEW f \in Files, NEW n \in Nat, NEW b, b = Lookup(u, f, n),
         b # 0, NEW lo \in Nat, NEW l \in Nat, lo + l <= Ptrs, l > 0 => u.size[f] = n * Ptrs + lo
  PROVE  Wrote(u, Copied(u, f, b, lo, l), f, l)
<1> DEFINE w == Copied(u, f, b, lo, l)
<1>1. b \in Blocks /\ u \in VolumeType /\ \A g \in Files : b \notin Heads(u, g)
  BY LookupGives DEF Sound
<1> HIDE DEF w
<1>0. WroteIn(u, w, f, b, lo, l) BY <1>1, CopiedIs DEF w
<1>2. /\ w \in VolumeType /\ w.used = u.used /\ w.ptr = u.ptr
      /\ w.size[f] = u.size[f] + l /\ \A g \in Files \ {f} : w.size[g] = u.size[g]
      /\ \A c \in Blocks : \A x \in Cell :
           w.blocks[c][x] = IF c = b /\ x >= lo /\ x < lo + l THEN Byte[f] ELSE u.blocks[c][x]
  BY <1>0 DEF WroteIn
<1>3. \A c \in Blocks \ {b} : \A x \in Cell : w.blocks[c][x] = u.blocks[c][x] BY <1>2
<1>4. Sound(w) /\ \A g \in Files : \A m \in Nat : Lookup(w, g, m) = Lookup(u, g, m)
  BY <1>1, <1>2, <1>3, DataApart
<1>5. Filled(w)
  <2> SUFFICES ASSUME NEW g \in Files, NEW m \in Nat, NEW x \in Cell, m * Ptrs + x < w.size[g]
               PROVE  Lookup(w, g, m) # 0 /\ w.blocks[Lookup(w, g, m)][x] = Byte[g]
    BY DEF Filled
  <2> DEFINE d == Lookup(u, g, m)
             at == m * Ptrs + x
  <2>1. Lookup(w, g, m) = d BY <1>4
  <2>2. CASE at < u.size[g]
    <3>1. d # 0 /\ u.blocks[d][x] = Byte[g] BY <2>2 DEF Filled
    <3>2. d \in Blocks BY <3>1, LookupGives
    <3>3. d = b => g = f BY <3>1, LookupOfOne
    <3> HIDE DEF d
    <3> QED BY <1>2, <2>1, <3>1, <3>2, <3>3
  <2>3. CASE ~(at < u.size[g])
    <3>1. u.size[f] \in Nat /\ u.size[g] \in Nat BY <1>1 DEF VolumeType
    <3>2. at \in Nat /\ n * Ptrs \in Nat /\ x \in Nat BY Basics
    <3>3. at < w.size[g] /\ at \in Nat BY <3>2
    <3>4. g = f /\ l > 0 /\ u.size[f] <= at /\ at < u.size[f] + l
      <4> HIDE DEF at
      <4> QED BY <1>2, <2>3, <3>1, <3>3
    <3>5. n * Ptrs + lo <= m * Ptrs + x /\ m * Ptrs + x < n * Ptrs + lo + l
      <4> DEFINE s == u.size[f]
                 t == n * Ptrs + lo
      <4>1. s = t BY <3>4
      <4>2. t <= at /\ at < t + l BY <3>4, <4>1
      <4> QED BY <4>2
    <3>6. m = n /\ x >= lo /\ x < lo + l BY <3>5, InBlock
    <3>7. d = b BY <3>4, <3>6
    <3> HIDE DEF d
    <3> QED BY <1>1, <1>2, <2>1, <3>4, <3>6, <3>7
  <2> QED BY <2>2, <2>3
<1>6. Wrote(u, w, f, l) BY <1>2, <1>4, <1>5 DEF Wrote
<1> QED BY <1>6 DEF w

LEMMA VisitGives ==
  ASSUME NEW v, Sound(v), NEW f \in Files, NEW len \in Nat \ {0}, NEW k \in Nat,
         k < Visits(v.size[f], len), NEW c, During(v, f, len, k, c)
  PROVE  During(v, f, len, k + 1, Visit(c, f, v.size[f] \div Ptrs + k, From(v.size[f], k + 1)))
<1> DEFINE at == v.size[f]
           n == at \div Ptrs + k
           lo == From(at, k + 1)
           got == BlkFor(c.vol, f, n)
           l == Lower(Ptrs - lo, c.left)
           w == Copied(got.vol, f, got.blk, lo, l)
           d == Visit(c, f, n, lo)
<1>1. /\ Sound(c.vol) /\ Filled(c.vol) /\ Extends(v, c.vol, f)
      /\ c \in [vol : VolumeType, left : 0 .. len, stopped : BOOLEAN]
      /\ c.vol.size[f] = at + (len - c.left)
      /\ ~c.stopped /\ c.left > 0 => at + (len - c.left) = n * Ptrs + lo
      /\ ~c.stopped /\ k >= 1 => Lookup(c.vol, f, n - 1) # 0
      /\ c.stopped => c.vol.used = Blocks \/ Reach2 <= (at + len) \div Ptrs
      /\ c.vol.size[f] = 0 => \A i \in 0 .. Indir2 : c.vol.ptr[f][i] = v.ptr[f][i]
  BY DEF During
<1>2. at \in Nat BY DEF Sound, VolumeType
<1>3. /\ at \div Ptrs \in Nat /\ n \in Nat /\ n <= (at + len) \div Ptrs
      /\ (at + len) \div Ptrs \in Nat /\ (at \div Ptrs + (k + 1)) - 1 = n
      /\ at \div Ptrs + (k + 1) = n + 1
  <2> DEFINE m == Visits(at, len)
             first == at \div Ptrs
             last == (at + len) \div Ptrs
  <2>1. m \in Nat \ {0} /\ first \in Nat /\ last \in Nat /\ last = first + (m - 1)
    BY <1>2, VisitsAre
  <2>2. k < m OBVIOUS
  <2> HIDE DEF first, last, m
  <2>3. /\ first + k \in Nat /\ first + k <= last /\ (first + (k + 1)) - 1 = first + k
        /\ first + (k + 1) = (first + k) + 1
    BY <2>1, <2>2
  <2> QED BY <2>1, <2>3 DEF first, last
<1>4. CASE c.stopped = TRUE
  <2>1. d = c BY <1>4 DEF Visit
  <2>2. During(v, f, len, k + 1, c) BY <1>1, <1>4 DEF During
  <2> QED BY <2>1, <2>2
<1>5. CASE c.stopped = FALSE
  <2>1. Gives(c.vol, f, n, got) BY <1>1, <1>3, BlkForGives
  <2> HIDE DEF got
  <2>2. /\ Sound(got.vol) /\ Grows(c.vol, got.vol, f) /\ got.vol.size = c.vol.size
        /\ got.blk # 0 => Lookup(got.vol, f, n) = got.blk
        /\ got.blk = 0 => got.vol.used = Blocks \/ n >= Reach2
        /\ got.blk = 0 /\ n < NDirect => got.vol = c.vol
    BY <2>1 DEF Gives
  <2>3. Filled(got.vol) BY <1>1, <2>2, FilledGrown
  <2>4. Extends(v, got.vol, f)
    <3>1. v.used \subseteq got.vol.used BY <1>1, <2>2 DEF Extends, Grows
    <3>2. ASSUME NEW g \in Files, NEW m \in Nat, Lookup(v, g, m) # 0
          PROVE  Lookup(got.vol, g, m) = Lookup(v, g, m)
      <4>1. Lookup(c.vol, g, m) = Lookup(v, g, m) BY <1>1, <3>2 DEF Extends
      <4>2. Lookup(got.vol, g, m) = Lookup(c.vol, g, m) BY <1>1, <2>2, <3>2, <4>1, LookupKept
      <4> QED BY <4>1, <4>2
    <3>3. ASSUME NEW g \in Files \ {f}
          PROVE  got.vol.size[g] = v.size[g] /\ \A i \in 0 .. Indir2 : got.vol.ptr[g][i] = v.ptr[g][i]
      BY <1>1, <2>2 DEF Extends, Grows
    <3> QED BY <3>1, <3>2, <3>3 DEF Extends
  <2>5. VolumeType # {} /\ c.left \in 0 .. len /\ c.left \in Nat /\ got.vol \in VolumeType
    BY <1>1, <2>2 DEF Sound
  <2>6. CASE got.blk = 0
    <3> DEFINE s == [vol |-> got.vol, left |-> c.left, stopped |-> TRUE]
    <3>1. d = s
      <4>1. d = [c EXCEPT !.vol = got.vol, !.stopped = TRUE] BY <1>5, <2>6 DEF Visit, got
      <4> HIDE DEF d
      <4> QED BY <1>1, <4>1
    <3>2. /\ s \in [vol : VolumeType, left : 0 .. len, stopped : BOOLEAN]
          /\ s.vol = got.vol /\ s.left = c.left /\ s.stopped = TRUE
      BY <2>5
    <3> HIDE DEF s, d
    <3>3. s.vol.used = Blocks \/ Reach2 <= (at + len) \div Ptrs
      <4>1. Reach2 \in Nat BY <1>3, Levels
      <4> DEFINE last == (at + len) \div Ptrs
      <4>2. last \in Nat /\ n <= last /\ n \in Nat BY <1>3
      <4> HIDE DEF n, last
      <4>3. n >= Reach2 => Reach2 <= last BY <4>1, <4>2
      <4> QED BY <2>2, <2>6, <3>2, <4>3 DEF last
    <3>4. s.vol.size[f] = 0 => \A i \in 0 .. Indir2 : s.vol.ptr[f][i] = v.ptr[f][i]
      <4> SUFFICES ASSUME c.vol.size[f] = 0
                   PROVE  \A i \in 0 .. Indir2 : got.vol.ptr[f][i] = v.ptr[f][i]
        BY <2>2, <3>2
      <4>1. at = 0 /\ c.left = len
        <5> DEFINE left == c.left
        <5>1. 0 = at + (len - left) BY <1>1
        <5>3. left \in Nat /\ left <= len /\ len \in Nat BY <2>5
        <5> HIDE DEF at, left
        <5>2. at = 0 /\ left = len BY <1>2, <5>1, <5>3
        <5> QED BY <5>2 DEF left
      <4>2. k = 0
        <5>1. ASSUME k >= 1 PROVE FALSE
          <6>1. lo = 0 BY <1>2, <5>1, FromIs
          <6>2. n * Ptrs + lo = 0
            <7>1. at + (len - c.left) = n * Ptrs + lo BY <1>1, <1>5, <4>1
            <7> DEFINE b == n * Ptrs + lo
            <7> HIDE DEF b, at
            <7>2. at + (len - c.left) = b BY <7>1 DEF b
            <7>3. b = 0 BY <4>1, <7>2
            <7> QED BY <7>3 DEF b
          <6>3. n > 0 /\ n \in Nat
            <7> DEFINE first == at \div Ptrs
            <7>1. first \in Nat BY <1>3
            <7> HIDE DEF first
            <7>2. first + k > 0 /\ first + k \in Nat BY <5>1, <7>1
            <7> QED BY <7>2 DEF first
          <6>4. Ptrs \in Nat \ {0} BY Basics
          <6> HIDE DEF n, lo
          <6>5. 0 * Ptrs + Ptrs <= n * Ptrs /\ 0 * Ptrs = 0 /\ n * Ptrs \in Nat BY <6>3, <6>4, Multiples
          <6>6. n * Ptrs + lo = n * Ptrs BY <6>1, <6>5
          <6> QED BY <6>2, <6>4, <6>5, <6>6
        <5> QED BY <5>1
      <4>3. n = 0
        <5>1. Ptrs \in Nat \ {0} /\ 0 \in 0 .. Ptrs - 1 BY Basics
        <5>2. (0 * Ptrs + 0) \div Ptrs = 0 BY <5>1, Divided
        <5>3. 0 * Ptrs + 0 = 0 BY <5>1
        <5> QED BY <4>1, <4>2, <5>2, <5>3
      <4>4. got.vol = c.vol BY <2>2, <2>6, <4>3, Basics
      <4> QED BY <1>1, <4>4
    <3>5. During(v, f, len, k + 1, s)
      <4>1. s.vol.size[f] = at + (len - s.left) BY <1>1, <2>2, <3>2
      <4> QED BY <2>2, <2>3, <2>4, <3>2, <3>3, <3>4, <4>1 DEF During
    <3> QED BY <3>1, <3>5 DEF d
  <2>7. CASE got.blk # 0
    <3> DEFINE s == [vol |-> w, left |-> c.left - l, stopped |-> FALSE]
    <3>1. d = s BY <1>5, <2>7 DEF Visit, got
    <3>2. /\ n \in Nat /\ lo \in Nat /\ l \in Nat /\ l <= c.left /\ lo + l <= Ptrs
          /\ c.left > 0 => l > 0
          /\ c.left - l > 0 => at + (len - (c.left - l)) = (n + 1) * Ptrs + From(at, k + 2)
      <4>1. c.left > 0 => at + (len - c.left) = n * Ptrs + lo BY <1>1, <1>5
      <4> DEFINE a == at
                 left == c.left
      <4>2. a \in Nat /\ left \in 0 .. len BY <1>2, <2>5
      <4>3. left > 0 => a + (len - left) = (a \div Ptrs + k) * Ptrs + From(a, k + 1) BY <4>1
      <4> HIDE DEF a, left
      <4>4. Counts(a, len, a \div Ptrs + k, From(a, k + 1), From(a, k + 2), left,
                   Lower(Ptrs - From(a, k + 1), left))
        BY <4>2, <4>3, VisitCounts
      <4>5. Counts(at, len, n, lo, From(at, k + 2), c.left, l) BY <4>4 DEF a, left
      <4> HIDE DEF n, lo, l, at
      <4> QED BY <4>5 DEF Counts
    <3>3. l > 0 => got.vol.size[f] = n * Ptrs + lo
      <4>1. l > 0 => c.left > 0
        <5> HIDE DEF l
        <5> QED BY <2>5, <3>2
      <4> QED BY <1>1, <1>5, <2>2, <4>1
    <3>4. got.blk = Lookup(got.vol, f, n) BY <2>2, <2>7
    <3> HIDE DEF l, lo, n
    <3>5. /\ Sound(w) /\ Filled(w) /\ w.used = got.vol.used /\ w.ptr = got.vol.ptr
          /\ w.size[f] = got.vol.size[f] + l
          /\ \A g \in Files \ {f} : w.size[g] = got.vol.size[g]
          /\ \A g \in Files : \A m \in Nat : Lookup(w, g, m) = Lookup(got.vol, g, m)
      <4>1. Wrote(got.vol, w, f, l) BY <2>2, <2>3, <2>7, <3>2, <3>3, <3>4, CopiedGives
      <4> HIDE DEF w
      <4> QED BY <4>1 DEF Wrote
    <3> HIDE DEF w, d
    <3>6. Extends(v, w, f) BY <2>4, <3>5 DEF Extends
    <3>7. c.left - l \in 0 .. len BY <2>5, <3>2
    <3>8. w.size[f] = at + (len - (c.left - l))
      <4>1. w.size[f] = (at + (len - c.left)) + l BY <1>1, <2>2, <3>5
      <4> HIDE DEF at
      <4> QED BY <1>2, <2>5, <3>2, <4>1
    <3>9. w.size[f] # 0
      <4>1. c.left - l < len
        <5> QED BY <2>5, <3>2
      <4> HIDE DEF at
      <4> QED BY <1>2, <3>7, <3>8, <4>1
    <3>10. /\ s \in [vol : VolumeType, left : 0 .. len, stopped : BOOLEAN]
           /\ s.vol = w /\ s.left = c.left - l /\ s.stopped = FALSE
      BY <3>5, <3>7 DEF Sound
    <3>11. Lookup(w, f, n) # 0 BY <1>3, <2>7, <3>4, <3>5
    <3> HIDE DEF s
    <3>12. During(v, f, len, k + 1, s)
      <4>1. s.left > 0 => at + (len - s.left) = (at \div Ptrs + (k + 1)) * Ptrs + From(at, (k + 1) + 1)
        <5>1. (k + 1) + 1 = k + 2 OBVIOUS
        <5>2. at \div Ptrs + (k + 1) = n + 1 BY <1>3
        <5> QED BY <3>2, <3>10, <5>1, <5>2
      <4>2. Lookup(s.vol, f, (at \div Ptrs + (k + 1)) - 1) # 0 BY <1>3, <3>10, <3>11
      <4>3. s.vol.size[f] = at + (len - s.left) BY <3>8, <3>10
      <4> QED BY <3>5, <3>6, <3>9, <3>10, <4>1, <4>2, <4>3 DEF During
    <3>13. During(v, f, len, k + 1, d) BY <3>1, <3>12
    <3> QED BY <3>13 DEF d, n, lo
  <2> QED BY <2>6, <2>7
<1> QED BY <1>1, <1>4, <1>5


\* What a write of len cells to the end of f leaves: done of them are written, all
\* when a block is left over and the file is not too long for its pointers.
Appended(v, w, f, len) ==
  /\ Sound(w) /\ Filled(w) /\ Extends(v, w, f)
  /\ w.size[f] = 0 => \A i \in 0 .. Indir2 : w.ptr[f][i] = v.ptr[f][i]
  /\ \E done \in 0 .. len : w.size[f] = v.size[f] + done
  /\ w.used # Blocks /\ (v.size[f] + len) \div Ptrs < Reach2 =>
       w.size[f] = v.size[f] + len /\ Lookup(w, f, w.size[f] \div Ptrs) # 0

LEMMA DoWriteGives ==
  ASSUME NEW v, Sound(v), Filled(v), NEW f \in Files, NEW len \in Nat \ {0}
  PROVE  Appended(v, DoWrite(v, f, v.size[f], len), f, len)
<1> DEFINE at == v.size[f]
           first == at \div Ptrs
           last == (at + len) \div Ptrs
           m == Visits(at, len)
<1>1. Ptrs \in Nat \ {0} /\ at \in Nat /\ v \in VolumeType /\ len \in Nat
  BY Basics DEF Sound, VolumeType
<1>2. m \in Nat \ {0} /\ first \in Nat /\ last \in Nat /\ last = first + (m - 1)
  BY <1>1, VisitsAre
<1>3. PICK e : Visited(e, v, f, at, len, m) /\ DoWrite(v, f, at, len) = e[m].vol
  BY <1>1, DoWriteIs
<1> DEFINE Bad == {k \in Nat : k <= m /\ ~During(v, f, len, k, e[k])}
<1>4. During(v, f, len, 0, e[0])
  <2>1. e[0] = Starts(v, len) BY <1>3 DEF Visited
  <2> DEFINE c == Starts(v, len)
  <2>2. /\ c \in [vol : VolumeType, left : 0 .. len, stopped : BOOLEAN]
        /\ c.vol = v /\ c.left = len /\ c.stopped = FALSE
    BY <1>1 DEF Starts
  <2> HIDE DEF c
  <2>3. at + (len - len) = (first + 0) * Ptrs + From(at, 0 + 1)
    <3>1. at = first * Ptrs + (at % Ptrs) /\ first * Ptrs \in Nat BY <1>1, Division
    <3>2. From(at, 0 + 1) = at % Ptrs BY DEF From
    <3>3. first + 0 = first /\ at + (len - len) = at
      <4> HIDE DEF at, first
      <4> QED BY <1>1, <1>2
    <3> QED BY <3>1, <3>2, <3>3
  <2>4. Extends(v, v, f) BY DEF Extends
  <2>5. v.size[f] = at + (len - len)
    <3> DEFINE a == at
    <3>1. a = v.size[f] /\ a \in Nat BY <1>1
    <3> HIDE DEF a
    <3>2. a = a + (len - len) BY <1>1, <3>1
    <3> QED BY <3>2 DEF a
  <2>6. During(v, f, len, 0, c) BY <2>2, <2>3, <2>4, <2>5 DEF During
  <2> QED BY <2>1, <2>6 DEF c
<1>5. ASSUME Bad # {} PROVE FALSE
  <2>1. PICK k \in Bad : \A l \in Bad : k <= l
    <3>1. Bad \subseteq Nat OBVIOUS
    <3> HIDE DEF Bad
    <3> QED BY <1>5, <3>1, LeastOf
  <2>2. k \in Nat /\ k <= m /\ ~During(v, f, len, k, e[k]) BY <2>1
  <2>3. k # 0 BY <1>4, <2>2
  <2> DEFINE j == k - 1
  <2>4. j \in Nat /\ j < m /\ j <= m /\ ~(k <= j) /\ k = j + 1 /\ k \in 1 .. m
    <3> HIDE DEF m
    <3> QED BY <1>2, <2>2, <2>3
  <2>5. j \notin Bad
    <3> HIDE DEF Bad, j
    <3> QED BY <2>1, <2>4
  <2>6. During(v, f, len, j, e[j])
    <3> HIDE DEF m, j
    <3> QED BY <2>4, <2>5
  <2> DEFINE d == Visit(e[j], f, first + j, From(at, j + 1))
  <2>7. e[k] = d
    <3>1. e[k] = Visit(e[k - 1], f, first + k - 1, From(at, k)) BY <1>3, <2>4 DEF Visited
    <3>2. first + k - 1 = first + j
      <4> HIDE DEF first
      <4> QED BY <1>2, <2>2
    <3> QED BY <2>4, <3>1, <3>2
  <2>8. During(v, f, len, j + 1, d)
    <3> HIDE DEF j
    <3> QED BY <2>4, <2>6, VisitGives
  <2> HIDE DEF j, d
  <2> QED BY <2>2, <2>4, <2>7, <2>8
<1> DEFINE c == e[m]
           w == c.vol
<1>6. During(v, f, len, m, c)
  <2>1. m \notin Bad BY <1>5
  <2> HIDE DEF m
  <2> QED BY <1>2, <2>1
<1> HIDE DEF c
<1>7. /\ Sound(w) /\ Filled(w) /\ Extends(v, w, f)
      /\ c \in [vol : VolumeType, left : 0 .. len, stopped : BOOLEAN]
      /\ w.size[f] = at + (len - c.left)
      /\ ~c.stopped /\ c.left > 0 => at + (len - c.left) = (first + m) * Ptrs + From(at, m + 1)
      /\ ~c.stopped /\ m >= 1 => Lookup(w, f, (first + m) - 1) # 0
      /\ c.stopped => w.used = Blocks \/ Reach2 <= last
      /\ w.size[f] = 0 => \A i \in 0 .. Indir2 : w.ptr[f][i] = v.ptr[f][i]
  BY <1>6 DEF During
<1>8. c.left \in 0 .. len /\ c.left \in Nat /\ c.stopped \in BOOLEAN BY <1>7
<1>9. \E done \in 0 .. len : w.size[f] = at + done
  <2>1. len - c.left \in 0 .. len BY <1>1, <1>8
  <2> QED BY <1>7, <2>1
<1>10. ASSUME w.used # Blocks, last < Reach2
       PROVE  w.size[f] = at + len /\ Lookup(w, f, w.size[f] \div Ptrs) # 0
  <2>1. Reach2 \in Nat BY <1>1, Levels
  <2>2. c.stopped = FALSE
    <3> HIDE DEF last
    <3> QED BY <1>2, <1>7, <1>8, <1>10, <2>1
  <2>3. m >= 1 /\ (first + m) - 1 = last /\ first + m = last + 1
    <3> HIDE DEF m, first, last
    <3> QED BY <1>2
  <2>4. ~(c.left > 0)
    <3> SUFFICES ASSUME c.left > 0 PROVE FALSE OBVIOUS
    <3> DEFINE a == at
               s == at + len
               b == last * Ptrs
               left == c.left
    <3>1. s \in Nat BY <1>1
    <3>2. s % Ptrs \in 0 .. Ptrs - 1 /\ b \in Nat /\ s = b + (s % Ptrs)
      <4> HIDE DEF s
      <4>1. s % Ptrs \in 0 .. Ptrs - 1 /\ (s \div Ptrs) * Ptrs \in Nat /\ s = (s \div Ptrs) * Ptrs + (s % Ptrs)
        BY <1>1, <3>1, Division
      <4> QED BY <4>1 DEF s
    <3>3. From(at, m + 1) = 0
      <4> HIDE DEF m
      <4> QED BY <1>1, <1>2, <2>3, FromIs
    <3>4. a + (len - left) = (first + m) * Ptrs + From(at, m + 1) BY <1>7, <2>2
    <3>5. (last + 1) * Ptrs = b + Ptrs
      <4> HIDE DEF last
      <4> QED BY <1>1, <1>2
    <3>6. a + (len - left) = (b + Ptrs) + 0
      <4>1. (first + m) * Ptrs = b + Ptrs BY <2>3, <3>5
      <4> QED BY <3>3, <3>4, <4>1
    <3>7. s = a + len /\ a \in Nat /\ left \in Nat BY <1>1, <1>8
    <3>8. left > 0 OBVIOUS
    <3> HIDE DEF a, b, s, left
    <3> QED BY <1>1, <3>2, <3>6, <3>7, <3>8
  <2>5. c.left = 0 BY <1>8, <2>4
  <2>6. w.size[f] = at + len
    <3> DEFINE a == at
               s == w.size[f]
    <3>1. s = a + (len - 0) /\ a \in Nat BY <1>1, <1>7, <2>5
    <3> HIDE DEF a, s
    <3>2. s = a + len BY <1>1, <3>1
    <3> QED BY <3>2 DEF a, s
  <2>7. Lookup(w, f, last) # 0 BY <1>7, <2>2, <2>3
  <2> QED BY <2>6, <2>7
<1>11. Appended(v, w, f, len)
  <2> HIDE DEF w
  <2> QED BY <1>7, <1>9, <1>10 DEF Appended
<1> QED BY <1>3, <1>11 DEF c


-----------------------------------------------------------------------------
(* do_truncate to nothing. *)

\* the blocks of a file
Pointed(v, f) == {Pointer(v, f, q) : q \in Places(v, f)} \ {0}

NoPointers == [k \in 0 .. Indir2 |-> 0]

LEMMA FreedIs ==
  ASSUME NEW v, NEW f
  PROVE  LET p == v.ptr[f]
             heads == In(v, p[Indir2])
         IN UNION ({In(v, h) : h \in heads} \cup {heads, In(v, p[Indir1]), {p[k] : k \in 0 .. Indir2} \ {0}})
              = Pointed(v, f)
<1> DEFINE p == v.ptr[f]
           heads == In(v, p[Indir2])
           F == UNION ({In(v, h) : h \in heads} \cup
                       {heads, In(v, p[Indir1]), {p[k] : k \in 0 .. Indir2} \ {0}})
<1>1. \A h, c : c \in In(v, h) <=> h # 0 /\ c # 0 /\ \E k \in Cell : c = v.blocks[h][k] BY DEF In
<1>2. \A h : h \in Heads(v, f) <=> h # 0 /\ (h = p[Indir1] \/ h = p[Indir2] \/ h \in heads)
  BY DEF Heads
<1>3. \A h \in Heads(v, f) : h # 0 /\ \A k \in Cell :
        <<h, k>> \in Places(v, f) /\ Pointer(v, f, <<h, k>>) = v.blocks[h][k]
  BY DEF Heads, Places, Pointer
<1>4. \A k \in 0 .. Indir2 : <<0, k>> \in Places(v, f) /\ Pointer(v, f, <<0, k>>) = p[k]
  BY DEF Places, Pointer
<1>5. ASSUME NEW h \in Heads(v, f) PROVE In(v, h) \subseteq Pointed(v, f)
  <2> SUFFICES ASSUME NEW c \in In(v, h) PROVE c \in Pointed(v, f) OBVIOUS
  <2>1. PICK k \in Cell : c = v.blocks[h][k] /\ c # 0 BY <1>1
  <2>2. <<h, k>> \in Places(v, f) /\ Pointer(v, f, <<h, k>>) = c BY <1>3, <2>1
  <2> QED BY <2>1, <2>2 DEF Pointed
<1>6. \A c : c \in F <=> \/ \E h \in heads : c \in In(v, h)
                         \/ c \in heads \/ c \in In(v, p[Indir1])
                         \/ c # 0 /\ \E k \in 0 .. Indir2 : c = p[k]
  <2> HIDE DEF p, heads
  <2> QED OBVIOUS
<1> HIDE DEF F
<1>7. ASSUME NEW c \in F PROVE c \in Pointed(v, f)
  <2>1. CASE \E h \in heads : c \in In(v, h)
    <3>1. PICK h \in heads : c \in In(v, h) BY <2>1
    <3>2. h # 0 BY <1>1
    <3>3. h \in Heads(v, f) BY <1>2, <3>2
    <3> QED BY <1>5, <3>1, <3>3
  <2>2. CASE c \in heads
    <3>1. p[Indir2] # 0 BY <1>1, <2>2
    <3>2. p[Indir2] \in Heads(v, f) BY <1>2, <3>1
    <3> QED BY <1>5, <2>2, <3>2
  <2>3. CASE c \in In(v, p[Indir1])
    <3>1. p[Indir1] # 0 BY <1>1, <2>3
    <3>2. p[Indir1] \in Heads(v, f) BY <1>2, <3>1
    <3> QED BY <1>5, <2>3, <3>2
  <2>4. CASE c # 0 /\ \E k \in 0 .. Indir2 : c = p[k]
    <3>1. PICK k \in 0 .. Indir2 : c = p[k] BY <2>4
    <3> HIDE DEF p
    <3> QED BY <1>4, <2>4, <3>1 DEF Pointed
  <2> QED BY <1>6, <2>1, <2>2, <2>3, <2>4
<1>8. ASSUME NEW c \in Pointed(v, f) PROVE c \in F
  <2>1. PICK q \in Places(v, f) : c = Pointer(v, f, q) /\ c # 0 BY DEF Pointed
  <2>2. CASE q \in {0} \X (0 .. Indir2)
    <3>1. PICK k \in 0 .. Indir2 : q = <<0, k>> BY <2>2
    <3>2. c = p[k] BY <1>4, <2>1, <3>1
    <3> QED BY <1>6, <2>1, <3>2
  <2>3. CASE q \in Heads(v, f) \X Cell
    <3>1. PICK h \in Heads(v, f), k \in Cell : q = <<h, k>> BY <2>3
    <3>2. c = v.blocks[h][k] /\ h # 0 BY <1>3, <2>1, <3>1
    <3>3. c \in In(v, h) BY <1>1, <2>1, <3>2
    <3> QED BY <1>2, <1>6, <3>3
  <2> QED BY <2>2, <2>3 DEF Places
<1>9. F = Pointed(v, f) BY <1>7, <1>8
<1> QED BY <1>9 DEF F

LEMMA FreeAllIs ==
  ASSUME NEW v \in VolumeType, NEW f \in Files, NEW len \in Nat
  PROVE  LET w == FreeAll(v, f, len) IN
         /\ w \in VolumeType
         /\ w.size = [v.size EXCEPT ![f] = len] /\ w.ptr = [v.ptr EXCEPT ![f] = NoPointers]
         /\ w.used = v.used \ Pointed(v, f) /\ w.blocks = v.blocks
<1> DEFINE w == [[v EXCEPT !.used = @ \ Pointed(v, f)] EXCEPT !.ptr[f] = NoPointers, !.size[f] = len]
           x == [size |-> [v.size EXCEPT ![f] = len], ptr |-> [v.ptr EXCEPT ![f] = NoPointers],
                 used |-> v.used \ Pointed(v, f), blocks |-> v.blocks, beyond |-> v.beyond]
<1>1. FreeAll(v, f, len) = w
  <2>1. FreeAll(v, f, len) =
          [Freed(v, UNION ({In(v, h) : h \in In(v, v.ptr[f][Indir2])} \cup
                           {In(v, v.ptr[f][Indir2]), In(v, v.ptr[f][Indir1]),
                            {v.ptr[f][k] : k \in 0 .. Indir2} \ {0}}))
           EXCEPT !.ptr[f] = NoPointers, !.size[f] = len]
    BY DEF FreeAll, NoPointers
  <2>2. UNION ({In(v, h) : h \in In(v, v.ptr[f][Indir2])} \cup
               {In(v, v.ptr[f][Indir2]), In(v, v.ptr[f][Indir1]),
                {v.ptr[f][k] : k \in 0 .. Indir2} \ {0}}) = Pointed(v, f)
    BY FreedIs
  <2>3. FreeAll(v, f, len) = [Freed(v, Pointed(v, f)) EXCEPT !.ptr[f] = NoPointers, !.size[f] = len]
    BY <2>1, <2>2
  <2> QED BY <2>3 DEF Freed
<1>2. /\ v.size \in [Files -> Nat] /\ v.ptr \in [Files -> [0 .. Indir2 -> 0 .. NBlocks]]
      /\ v.used \subseteq Blocks /\ v.blocks \in [Blocks -> [Cell -> Stored]] /\ v.beyond \in BOOLEAN
  BY DEF VolumeType
<1>3. w = x
  <2> DEFINE D == v.used \ Pointed(v, f)
             y == [v EXCEPT !.used = D]
             z == [y EXCEPT !.ptr[f] = NoPointers]
  <2>1. w = [z EXCEPT !.size[f] = len] OBVIOUS
  <2>2. /\ y = [size |-> v.size, ptr |-> v.ptr, used |-> D, blocks |-> v.blocks, beyond |-> v.beyond]
        /\ y.ptr = v.ptr
    <3> HIDE DEF D
    <3> QED BY DEF VolumeType
  <2> HIDE DEF D, y
  <2>3. /\ z = [size |-> v.size, ptr |-> [v.ptr EXCEPT ![f] = NoPointers], used |-> D,
                blocks |-> v.blocks, beyond |-> v.beyond]
        /\ z.size = v.size
    BY <2>2
  <2> HIDE DEF z
  <2>4. [z EXCEPT !.size[f] = len] =
          [size |-> [v.size EXCEPT ![f] = len], ptr |-> [v.ptr EXCEPT ![f] = NoPointers],
           used |-> D, blocks |-> v.blocks, beyond |-> v.beyond]
    BY <2>3
  <2> QED BY <2>1, <2>4 DEF D
<1>4. NoPointers \in [0 .. Indir2 -> 0 .. NBlocks] BY Basics DEF NoPointers
<1>5. /\ x.size = [v.size EXCEPT ![f] = len] /\ x.ptr = [v.ptr EXCEPT ![f] = NoPointers]
      /\ x.used = v.used \ Pointed(v, f) /\ x.blocks = v.blocks
  OBVIOUS
<1>6. x \in VolumeType BY <1>2, <1>4 DEF VolumeType
<1> HIDE DEF w, x
<1> QED BY <1>1, <1>3, <1>5, <1>6

LEMMA Emptied ==
  ASSUME NEW v, Whole(v), NEW f \in Files
  PROVE  LET w == FreeAll(v, f, 0) IN
         Whole(w) /\ w.size = [v.size EXCEPT ![f] = 0]
         /\ \A g \in Files \ {f} : \A n \in Nat : Lookup(w, g, n) = Lookup(v, g, n)
<1> DEFINE w == FreeAll(v, f, 0)
<1>1. v \in VolumeType /\ Sound(v) /\ Filled(v) /\ Bare(v) /\ Fits(v) BY DEF Whole, Sound
<1>2. /\ w \in VolumeType
      /\ w.size = [v.size EXCEPT ![f] = 0] /\ w.ptr = [v.ptr EXCEPT ![f] = NoPointers]
      /\ w.used = v.used \ Pointed(v, f) /\ w.blocks = v.blocks
  BY <1>1, FreeAllIs
<1> HIDE DEF w
<1>3. /\ w.ptr[f] = NoPointers /\ w.size[f] = 0 /\ \A k \in 0 .. Indir2 : w.ptr[f][k] = 0
      /\ \A g \in Files \ {f} : w.ptr[g] = v.ptr[g] /\ w.size[g] = v.size[g]
  BY <1>1, <1>2 DEF VolumeType, NoPointers
<1>4. ASSUME NEW g \in Files \ {f}
      PROVE  Places(w, g) = Places(v, g) /\ \A q : Pointer(w, g, q) = Pointer(v, g, q)
  <2>1. Heads(w, g) = Heads(v, g) BY <1>2, <1>3 DEF Heads, In
  <2> QED BY <1>2, <1>3, <2>1 DEF Places, Pointer
<1>5. ASSUME NEW q \in Places(w, f) PROVE Pointer(w, f, q) = 0
  <2>1. Indir1 \in 0 .. Indir2 /\ Indir2 \in 0 .. Indir2 BY Basics
  <2>2. Heads(w, f) = {} BY <1>3, <2>1 DEF Heads, In
  <2>3. q \in {0} \X (0 .. Indir2) BY <2>2 DEF Places
  <2> QED BY <1>3, <2>3 DEF Pointer
<1>6. Owned(w)
  <2>1. ASSUME NEW g \in Files, NEW q \in Places(w, g)
        PROVE  Pointer(w, g, q) \in 0 .. NBlocks /\ (Pointer(w, g, q) # 0 => Pointer(w, g, q) \in w.used)
    <3>1. CASE g = f BY <1>5, <3>1, Basics
    <3>2. CASE g # f
      <4>1. q \in Places(v, g) /\ Pointer(w, g, q) = Pointer(v, g, q) BY <1>4, <3>2
      <4>2. Pointer(v, g, q) \in 0 .. NBlocks /\ Pointer(v, g, q) \in v.used \cup {0}
        BY <1>1, <4>1, Marked
      <4>3. ASSUME Pointer(v, g, q) # 0, Pointer(v, g, q) \in Pointed(v, f) PROVE FALSE
        <5>1. PICK r \in Places(v, f) : Pointer(v, g, q) = Pointer(v, f, r) BY <4>3 DEF Pointed
        <5> QED BY <1>1, <3>2, <4>1, <4>3, <5>1, Unique
      <4> QED BY <1>2, <4>1, <4>2, <4>3
    <3> QED BY <3>1, <3>2
  <2>2. ASSUME NEW g \in Files, NEW h \in Files, NEW q \in Places(w, g), NEW r \in Places(w, h),
               Pointer(w, g, q) = Pointer(w, h, r), Pointer(w, g, q) # 0
        PROVE  g = h /\ q = r
    <3>1. g # f /\ h # f BY <1>5, <2>2
    <3>2. /\ q \in Places(v, g) /\ r \in Places(v, h)
          /\ Pointer(v, g, q) = Pointer(v, h, r) /\ Pointer(v, g, q) # 0
      BY <1>4, <2>2, <3>1
    <3> QED BY <1>1, <3>2, Unique
  <2>3. ASSUME NEW c \in w.used PROVE \E g \in Files : \E q \in Places(w, g) : Pointer(w, g, q) = c
    <3>1. c \in v.used /\ c \notin Pointed(v, f) BY <1>2
    <3>2. PICK g \in Files : \E q \in Places(v, g) : Pointer(v, g, q) = c
      BY <1>1, <3>1 DEF Sound, Owned
    <3>3. PICK q \in Places(v, g) : Pointer(v, g, q) = c BY <3>2
    <3>4. c # 0 BY <1>1, <3>1, HeadsIn
    <3>5. g # f BY <3>1, <3>3, <3>4 DEF Pointed
    <3> QED BY <1>4, <3>3, <3>5
  <2> QED BY <2>1, <2>2, <2>3 DEF Owned
<1>7. ASSUME NEW g \in Files \ {f}, NEW n \in Nat PROVE Lookup(w, g, n) = Lookup(v, g, n)
  BY <1>2, <1>3 DEF Lookup
<1>8. Filled(w)
  <2> SUFFICES ASSUME NEW g \in Files, NEW n \in Nat, NEW k \in Cell, n * Ptrs + k < w.size[g]
               PROVE  Lookup(w, g, n) # 0 /\ w.blocks[Lookup(w, g, n)][k] = Byte[g]
    BY DEF Filled
  <2>1. g # f
    <3>1. n * Ptrs + k >= 0 /\ n * Ptrs + k \in Nat
      <4>1. Ptrs \in Nat /\ k \in Nat BY Basics
      <4>2. n * Ptrs \in Nat BY <4>1
      <4> QED BY <4>1, <4>2
    <3> QED BY <1>3, <3>1
  <2>2. Lookup(v, g, n) # 0 /\ v.blocks[Lookup(v, g, n)][k] = Byte[g] BY <1>1, <1>3, <2>1 DEF Filled
  <2> QED BY <1>2, <1>7, <2>1, <2>2
<1>9. Bare(w) BY <1>1, <1>3 DEF Bare
<1>10. Fits(w)
  <2>1. \A g \in Files : MaxSize[g] \in Nat BY Basics
  <2> QED BY <1>1, <1>3, <2>1 DEF Fits
<1>11. Whole(w) BY <1>2, <1>6, <1>8, <1>9, <1>10 DEF Whole, Sound
<1> QED BY <1>2, <1>7, <1>11 DEF w

LEMMA NothingFreed ==
  ASSUME NEW v, Whole(v), NEW f \in Files, v.size[f] = 0
  PROVE  FreeLast(v, f) = v
<1>1. \A k \in 0 .. Indir2 : v.ptr[f][k] = 0 BY DEF Whole, Bare
<1>2. /\ v.ptr[f][Indir1] = 0 /\ v.ptr[f][Indir2] = 0
      /\ \A k \in 0 .. NDirect - 1 : v.ptr[f][k] = 0
  <2>1. \A k \in 0 .. NDirect - 1 : k \in 0 .. Indir2 BY Basics
  <2> QED BY <1>1, <2>1, Basics
<1>3. {k \in 0 .. NDirect - 1 : v.ptr[f][k] # 0} = {} BY <1>2
<1>4. {k \in Cell : v.ptr[f][Indir2] # 0 /\ v.blocks[v.ptr[f][Indir2]][k] # 0} = {} BY <1>2
<1> QED BY <1>2, <1>3, <1>4 DEF FreeLast

LEMMA TruncateGives ==
  ASSUME NEW v, Whole(v), NEW f \in Files
  PROVE  LET w == DoTruncate(v, f, 0) IN
         Whole(w) /\ w.size = [v.size EXCEPT ![f] = 0]
         /\ \A g \in Files \ {f} : \A n \in Nat : Lookup(w, g, n) = Lookup(v, g, n)
<1>1. CASE v.size[f] = 0
  <2>1. DoTruncate(v, f, 0) = v BY <1>1, NothingFreed DEF DoTruncate
  <2>2. v.size \in [Files -> Nat] BY DEF Whole, Sound, VolumeType
  <2>3. v.size = [v.size EXCEPT ![f] = 0] BY <1>1, <2>2
  <2> QED BY <2>1, <2>3
<1>2. CASE v.size[f] # 0
  <2>1. DoTruncate(v, f, 0) = FreeAll(v, f, 0) BY <1>2 DEF DoTruncate
  <2> QED BY <2>1, Emptied
<1> QED BY <1>1, <1>2


-----------------------------------------------------------------------------
(* The invariant. *)

LEMMA VolumeFields ==
  /\ Volume.size = size /\ Volume.ptr = ptr /\ Volume.used = used /\ Volume.blocks = blocks
  /\ Volume.beyond = beyond
BY DEF Volume

LEMMA BecomesIs ==
  ASSUME NEW w \in VolumeType, Becomes(w)
  PROVE  Volume' = w
BY DEF Becomes, Volume, VolumeType

LEMMA InitSound ==
  ASSUME Init
  PROVE  IInv
<1> DEFINE v == Volume
<1>1. /\ v.size = [f \in Files |-> 0] /\ v.ptr = [f \in Files |-> [k \in 0 .. Indir2 |-> 0]]
      /\ v.used = {} /\ v.blocks = [b \in Blocks |-> Zeros]
  BY VolumeFields DEF Init
<1>2. v \in VolumeType
  <2>1. Zeros \in [Cell -> Stored] BY Basics DEF Zeros
  <2>2. 0 \in 0 .. NBlocks BY Basics
  <2> QED BY <2>1, <2>2 DEF Init, Volume, VolumeType
<1>3. ASSUME NEW f \in Files, NEW q \in Places(v, f) PROVE Pointer(v, f, q) = 0
  <2>1. Indir1 \in 0 .. Indir2 /\ Indir2 \in 0 .. Indir2 BY Basics
  <2>2. \A k \in 0 .. Indir2 : v.ptr[f][k] = 0 BY <1>1
  <2> HIDE DEF v
  <2>3. Heads(v, f) = {} BY <2>1, <2>2 DEF Heads, In
  <2>4. q \in {0} \X (0 .. Indir2) BY <2>3 DEF Places
  <2> QED BY <2>2, <2>4 DEF Pointer
<1>4. Owned(v)
  <2> HIDE DEF v
  <2> QED BY <1>1, <1>3, Basics DEF Owned
<1>5. Filled(v)
  <2> SUFFICES ASSUME NEW f \in Files, NEW n \in Nat, NEW k \in Cell, n * Ptrs + k < v.size[f]
               PROVE  FALSE
    BY DEF Filled
  <2>1. n * Ptrs \in Nat /\ k \in Nat BY Basics
  <2>2. n * Ptrs + k \in Nat BY <2>1
  <2> QED BY <1>1, <2>2
<1>6. Bare(v) BY <1>1 DEF Bare
<1>7. Fits(v)
  <2>1. \A f \in Files : MaxSize[f] \in Nat BY Basics
  <2> QED BY <1>1, <2>1 DEF Fits
<1> QED BY <1>2, <1>4, <1>5, <1>6, <1>7 DEF IInv, Whole, Sound

LEMMA WriteWhole ==
  ASSUME NEW v, Whole(v), NEW f \in Files, NEW len \in Nat \ {0}, v.size[f] + len <= MaxSize[f],
         NEW w, Appended(v, w, f, len)
  PROVE  Whole(w)
<1>1. /\ Sound(w) /\ Filled(w) /\ Extends(v, w, f)
      /\ w.size[f] = 0 => \A i \in 0 .. Indir2 : w.ptr[f][i] = v.ptr[f][i]
  BY DEF Appended
<1>2. PICK done \in 0 .. len : w.size[f] = v.size[f] + done BY DEF Appended
<1>3. /\ \A g \in Files : v.size[g] \in Nat /\ w.size[g] \in Nat /\ MaxSize[g] \in Nat
  BY <1>1, Basics DEF Whole, Sound, VolumeType
<1>4. \A g \in Files \ {f} :
        w.size[g] = v.size[g] /\ \A k \in 0 .. Indir2 : w.ptr[g][k] = v.ptr[g][k]
  BY <1>1 DEF Extends
<1>5. Bare(w)
  <2>1. w.size[f] = 0 => v.size[f] = 0 BY <1>2, <1>3
  <2> QED BY <1>1, <1>4, <2>1 DEF Whole, Bare
<1>6. Fits(w)
  <2>1. w.size[f] <= MaxSize[f] BY <1>2, <1>3
  <2> QED BY <1>4, <2>1 DEF Whole, Fits
<1> QED BY <1>1, <1>5, <1>6 DEF Whole

LEMMA WriteStep ==
  ASSUME IInv, NEW f \in Files, NEW len \in 1 .. MaxWrite, Write(f, size[f], len)
  PROVE  IInv' /\ Appended(Volume, Volume', f, len)
<1> DEFINE v == Volume
           w == DoWrite(v, f, v.size[f], len)
<1>1. Whole(v) /\ v.size = size BY VolumeFields DEF IInv
<1>2. len \in Nat \ {0} BY Basics
<1>3. Becomes(w) /\ v.size[f] + len <= MaxSize[f] BY <1>1 DEF Write
<1> HIDE DEF v
<1>4. Appended(v, w, f, len) BY <1>1, <1>2, DoWriteGives DEF Whole
<1> HIDE DEF w
<1>5. Whole(w) BY <1>1, <1>2, <1>3, <1>4, WriteWhole
<1>6. Volume' = w BY <1>3, <1>5, BecomesIs DEF Whole, Sound
<1>7. Whole(w) <=> IInv' BY <1>6 DEF IInv
<1> QED BY <1>4, <1>5, <1>6, <1>7 DEF v

LEMMA TruncateStep ==
  ASSUME IInv, NEW f \in Files, Truncate(f, 0)
  PROVE  /\ IInv' /\ size' = [size EXCEPT ![f] = 0]
         /\ \A g \in Files \ {f} : \A n \in Nat : Lookup(Volume', g, n) = Lookup(Volume, g, n)
<1> DEFINE v == Volume
           w == DoTruncate(v, f, 0)
<1>1. Whole(v) /\ v.size = size BY VolumeFields DEF IInv
<1>2. Becomes(w) BY DEF Truncate
<1> HIDE DEF v
<1>3. /\ Whole(w) /\ w.size = [v.size EXCEPT ![f] = 0]
      /\ \A g \in Files \ {f} : \A n \in Nat : Lookup(w, g, n) = Lookup(v, g, n)
  BY <1>1, TruncateGives
<1> HIDE DEF w
<1>4. Volume' = w BY <1>2, <1>3, BecomesIs DEF Whole, Sound
<1>5. Whole(w) <=> IInv' BY <1>4 DEF IInv
<1>6. size' = w.size BY <1>2 DEF Becomes
<1> QED BY <1>1, <1>3, <1>4, <1>5, <1>6 DEF v

LEMMA StutterStep ==
  ASSUME UNCHANGED vars
  PROVE  Volume' = Volume /\ (IInv' <=> IInv)
<1>1. Volume' = Volume BY DEF vars, Volume
<1> QED BY <1>1 DEF IInv

\* The volume is sound, what was written is in the blocks of the files, and files of no
\* size have no blocks.
THEOREM Invariance == SpecAppend => []IInv
<1>1. Init => IInv BY InitSound
<1>2. IInv /\ [AppendOnly]_vars => IInv'
  <2> SUFFICES ASSUME IInv, [AppendOnly]_vars PROVE IInv' OBVIOUS
  <2>1. ASSUME NEW f \in Files, NEW len \in 1 .. MaxWrite, Write(f, size[f], len) PROVE IInv'
    BY <2>1, WriteStep
  <2>2. ASSUME NEW f \in Files, Truncate(f, 0) PROVE IInv' BY <2>2, TruncateStep
  <2>3. CASE UNCHANGED vars BY <2>3, StutterStep
  <2> QED BY <2>1, <2>2, <2>3 DEF AppendOnly
<1> QED BY <1>1, <1>2, PTL DEF SpecAppend


-----------------------------------------------------------------------------
(* The blocks marked are those the files reach, each on one path. *)

\* the place at the end of a path
PlaceOf(v, f, r, q) ==
  \/ \E k \in 0 .. Indir2 : r = <<k, 0, 0, v.ptr[f][k]>> /\ q = <<0, k>>
  \/ \E i \in {Indir1, Indir2}, k \in Cell :
       /\ v.ptr[f][i] # 0 /\ r = <<i, k, 0, v.blocks[v.ptr[f][i]][k]>> /\ q = <<v.ptr[f][i], k>>
  \/ \E k, l \in Cell : LET h == v.blocks[v.ptr[f][Indir2]][k] IN
       /\ v.ptr[f][Indir2] # 0 /\ h # 0
       /\ r = <<Indir2, k, l + 1, v.blocks[h][l]>> /\ q = <<h, l>>

LEMMA PlaceOfReached ==
  ASSUME NEW f \in Files, NEW r \in Reached(f), r[4] # 0
  PROVE  \E q : PlaceOf(Volume, f, r, q)
<1> DEFINE v == Volume
           p == ptr[f]
<1>1. v.ptr = ptr /\ v.blocks = blocks BY VolumeFields
<1> HIDE DEF v
<1>2. CASE \E k \in 0 .. Indir2 : r = <<k, 0, 0, p[k]>>
  <2>1. PICK k \in 0 .. Indir2 : r = <<k, 0, 0, p[k]>> BY <1>2
  <2>2. PlaceOf(v, f, r, <<0, k>>) BY <1>1, <2>1 DEF PlaceOf
  <2> QED BY <2>2 DEF v
<1>3. ASSUME NEW i \in {Indir1, Indir2}, NEW k \in Cell,
             r = <<i, k, 0, IF p[i] = 0 THEN 0 ELSE blocks[p[i]][k]>>
      PROVE  \E q : PlaceOf(Volume, f, r, q)
  <2>1. p[i] # 0 /\ r = <<i, k, 0, blocks[p[i]][k]>> BY <1>3
  <2>2. PlaceOf(v, f, r, <<p[i], k>>) BY <1>1, <2>1 DEF PlaceOf
  <2> QED BY <2>2 DEF v
<1>4. CASE \E k \in Cell \X Cell :
             r = <<Indir2, k[1], k[2] + 1,
                   LET h == IF p[Indir2] = 0 THEN 0 ELSE blocks[p[Indir2]][k[1]]
                   IN IF h = 0 THEN 0 ELSE blocks[h][k[2]]>>
  <2>1. PICK x \in Cell \X Cell :
               r = <<Indir2, x[1], x[2] + 1,
                     LET h == IF p[Indir2] = 0 THEN 0 ELSE blocks[p[Indir2]][x[1]]
                     IN IF h = 0 THEN 0 ELSE blocks[h][x[2]]>>
    BY <1>4
  <2> DEFINE k == x[1]
             l == x[2]
             h == blocks[p[Indir2]][k]
  <2>2. k \in Cell /\ l \in Cell OBVIOUS
  <2>3. p[Indir2] # 0 /\ h # 0 /\ r = <<Indir2, k, l + 1, blocks[h][l]>> BY <2>1
  <2> HIDE DEF k, l
  <2>4. PlaceOf(v, f, r, <<h, l>>) BY <1>1, <2>2, <2>3 DEF PlaceOf
  <2> QED BY <2>4 DEF v
<1>5. \/ \E k \in 0 .. Indir2 : r = <<k, 0, 0, p[k]>>
      \/ \E k \in Cell : r = <<Indir1, k, 0, IF p[Indir1] = 0 THEN 0 ELSE blocks[p[Indir1]][k]>>
      \/ \E k \in Cell : r = <<Indir2, k, 0, IF p[Indir2] = 0 THEN 0 ELSE blocks[p[Indir2]][k]>>
      \/ \E k \in Cell \X Cell :
             r = <<Indir2, k[1], k[2] + 1,
                   LET h == IF p[Indir2] = 0 THEN 0 ELSE blocks[p[Indir2]][k[1]]
                   IN IF h = 0 THEN 0 ELSE blocks[h][k[2]]>>
  BY DEF Reached
<1> HIDE DEF p
<1> QED BY <1>2, <1>3, <1>4, <1>5

LEMMA PlaceOfGives ==
  ASSUME NEW v, Sound(v), NEW f \in Files, NEW r, NEW q, PlaceOf(v, f, r, q)
  PROVE  q \in Places(v, f) /\ Pointer(v, f, q) = r[4]
<1>1. Indir1 \in 0 .. Indir2 /\ Indir2 \in 0 .. Indir2 BY Basics
<1>2. CASE \E k \in 0 .. Indir2 : r = <<k, 0, 0, v.ptr[f][k]>> /\ q = <<0, k>>
  BY <1>2 DEF Places, Pointer
<1>3. ASSUME NEW i \in {Indir1, Indir2}, NEW k \in Cell, v.ptr[f][i] # 0,
             r = <<i, k, 0, v.blocks[v.ptr[f][i]][k]>>, q = <<v.ptr[f][i], k>>
      PROVE  q \in Places(v, f) /\ Pointer(v, f, q) = r[4]
  <2>1. v.ptr[f][i] \in Heads(v, f) BY <1>3 DEF Heads
  <2> QED BY <1>3, <2>1 DEF Places, Pointer
<1>4. ASSUME NEW k \in Cell, NEW l \in Cell, v.ptr[f][Indir2] # 0,
             NEW h, h = v.blocks[v.ptr[f][Indir2]][k], h # 0,
             r = <<Indir2, k, l + 1, v.blocks[h][l]>>, q = <<h, l>>
      PROVE  q \in Places(v, f) /\ Pointer(v, f, q) = r[4]
  <2>1. h \in Heads(v, f) BY <1>4 DEF Heads, In
  <2> QED BY <1>4, <2>1 DEF Places, Pointer
<1> QED BY <1>2, <1>3, <1>4, Zenon DEF PlaceOf

LEMMA PathOfOne ==
  ASSUME NEW v, Sound(v), NEW f \in Files, NEW r, NEW s, NEW q,
         PlaceOf(v, f, r, q), PlaceOf(v, f, s, q)
  PROVE  r = s
<1> DEFINE p == v.ptr[f]
           h(k) == v.blocks[p[Indir2]][k]
           A(t) == \E k \in 0 .. Indir2 : t = <<k, 0, 0, p[k]>> /\ q = <<0, k>>
           B(t, i) == \E k \in Cell : p[i] # 0 /\ t = <<i, k, 0, v.blocks[p[i]][k]>> /\ q = <<p[i], k>>
           C(t) == \E k, l \in Cell : /\ p[Indir2] # 0 /\ h(k) # 0
                                      /\ t = <<Indir2, k, l + 1, v.blocks[h(k)][l]>> /\ q = <<h(k), l>>
<1>1. /\ Indir1 \in 0 .. Indir2 /\ Indir2 \in 0 .. Indir2 /\ Indir1 # Indir2
      /\ Cell = 0 .. Ptrs - 1 /\ Ptrs \in Nat
  BY Basics
<1>2. ASSUME NEW t, PlaceOf(v, f, t, q) PROVE A(t) \/ B(t, Indir1) \/ B(t, Indir2) \/ C(t)
  BY <1>2, Zenon DEF PlaceOf
<1>3. \A i \in 0 .. Indir2 : <<0, i>> \in Places(v, f) /\ Pointer(v, f, <<0, i>>) = p[i]
  BY DEF Places, Pointer
<1>4. ASSUME NEW k \in Cell, p[Indir2] # 0
      PROVE  <<p[Indir2], k>> \in Places(v, f) /\ Pointer(v, f, <<p[Indir2], k>>) = h(k)
  <2>1. p[Indir2] \in Heads(v, f) BY <1>4 DEF Heads
  <2> QED BY <1>4, <2>1 DEF Places, Pointer
<1>5. ASSUME NEW k \in Cell, p[Indir2] # 0, h(k) # 0, NEW i \in 0 .. Indir2 PROVE p[i] # h(k)
  <2> DEFINE x == <<0, i>>
             y == <<p[Indir2], k>>
  <2>1. x # y BY <1>5
  <2>2. x \in Places(v, f) /\ y \in Places(v, f) /\ Pointer(v, f, x) = p[i] /\ Pointer(v, f, y) = h(k)
    BY <1>3, <1>4, <1>5
  <2> HIDE DEF x, y, h, p
  <2>3. ASSUME p[i] = h(k) PROVE FALSE
    <3>1. Pointer(v, f, x) = Pointer(v, f, y) /\ Pointer(v, f, x) # 0 BY <1>5, <2>2, <2>3
    <3> QED BY <2>1, <2>2, <3>1, Unique
  <2> QED BY <2>3
<1>6. ASSUME NEW k \in Cell, NEW l \in Cell, p[Indir2] # 0, h(k) # 0, h(k) = h(l) PROVE k = l
  <2> DEFINE x == <<p[Indir2], k>>
             y == <<p[Indir2], l>>
  <2>1. x \in Places(v, f) /\ y \in Places(v, f) /\ Pointer(v, f, x) = h(k) /\ Pointer(v, f, y) = h(l)
    BY <1>4, <1>6
  <2>2. Pointer(v, f, x) = Pointer(v, f, y) /\ Pointer(v, f, x) # 0 BY <1>6, <2>1
  <2> HIDE DEF x, y
  <2>3. x = y BY <2>1, <2>2, Unique
  <2> QED BY <2>3 DEF x, y
<1>7. p[Indir1] # 0 => p[Indir1] # p[Indir2]
  <2> DEFINE x == <<0, Indir1>>
             y == <<0, Indir2>>
  <2>1. x # y BY <1>1
  <2>2. /\ x \in Places(v, f) /\ y \in Places(v, f)
        /\ Pointer(v, f, x) = p[Indir1] /\ Pointer(v, f, y) = p[Indir2]
    BY <1>1, <1>3
  <2> HIDE DEF x, y, p
  <2> QED BY <2>1, <2>2, Unique
<1> HIDE DEF p, h
<1>8. ASSUME NEW t, NEW u, A(t) PROVE (A(u) => t = u) /\ ~B(u, Indir1) /\ ~B(u, Indir2) /\ ~C(u)
  BY <1>8
<1>9. ASSUME NEW t, NEW u, B(t, Indir1)
      PROVE  (B(u, Indir1) => t = u) /\ ~B(u, Indir2) /\ ~C(u)
  <2>1. B(u, Indir1) => t = u BY <1>9
  <2>2. ~B(u, Indir2) BY <1>7, <1>9
  <2>3. ~C(u) BY <1>1, <1>5, <1>9
  <2> QED BY <2>1, <2>2, <2>3
<1>10. ASSUME NEW t, NEW u, B(t, Indir2) PROVE (B(u, Indir2) => t = u) /\ ~C(u)
  <2>1. B(u, Indir2) => t = u BY <1>10
  <2>2. ~C(u) BY <1>1, <1>5, <1>10
  <2> QED BY <2>1, <2>2
<1>11. ASSUME NEW t, NEW u, C(t), C(u) PROVE t = u
  <2>1. PICK k \in Cell, l \in Cell :
          /\ p[Indir2] # 0 /\ h(k) # 0
          /\ t = <<Indir2, k, l + 1, v.blocks[h(k)][l]>> /\ q = <<h(k), l>>
    BY <1>11
  <2>2. PICK m \in Cell, n \in Cell :
          /\ p[Indir2] # 0 /\ h(m) # 0
          /\ u = <<Indir2, m, n + 1, v.blocks[h(m)][n]>> /\ q = <<h(m), n>>
    BY <1>11
  <2>3. h(k) = h(m) /\ l = n BY <2>1, <2>2
  <2>4. k = m BY <1>6, <2>1, <2>3
  <2> QED BY <2>1, <2>2, <2>3, <2>4
<1> HIDE DEF A, B, C
<1>12. A(r) \/ B(r, Indir1) \/ B(r, Indir2) \/ C(r) BY <1>2
<1>13. A(s) \/ B(s, Indir1) \/ B(s, Indir2) \/ C(s) BY <1>2
<1> QED BY <1>8, <1>9, <1>10, <1>11, <1>12, <1>13


LEMMA PathTo ==
  ASSUME NEW f \in Files, NEW q \in Places(Volume, f), Pointer(Volume, f, q) # 0
  PROVE  \E r \in Reached(f) : r[4] = Pointer(Volume, f, q)
<1> DEFINE v == Volume
           p == ptr[f]
<1>1. v.ptr = ptr /\ v.blocks = blocks BY VolumeFields
<1>2. q \in Places(v, f) /\ Pointer(v, f, q) # 0 OBVIOUS
<1> HIDE DEF v
<1>3. \A k \in 0 .. Indir2 : <<k, 0, 0, p[k]>> \in Reached(f) BY DEF Reached
<1>4. \A i \in {Indir1, Indir2}, k \in Cell :
        <<i, k, 0, IF p[i] = 0 THEN 0 ELSE blocks[p[i]][k]>> \in Reached(f)
  BY DEF Reached
<1>5. \A k, l \in Cell : p[Indir2] # 0 /\ blocks[p[Indir2]][k] # 0
        => <<Indir2, k, l + 1, blocks[blocks[p[Indir2]][k]][l]>> \in Reached(f)
  <2> SUFFICES ASSUME NEW k \in Cell, NEW l \in Cell, p[Indir2] # 0, blocks[p[Indir2]][k] # 0
               PROVE  <<Indir2, k, l + 1, blocks[blocks[p[Indir2]][k]][l]>> \in Reached(f)
    OBVIOUS
  <2> DEFINE x == <<k, l>>
             Path(y) == <<Indir2, y[1], y[2] + 1,
                          LET h == IF p[Indir2] = 0 THEN 0 ELSE blocks[p[Indir2]][y[1]]
                          IN IF h = 0 THEN 0 ELSE blocks[h][y[2]]>>
  <2>1. x \in Cell \X Cell /\ x[1] = k /\ x[2] = l OBVIOUS
  <2>2. Path(x) = <<Indir2, k, l + 1, blocks[blocks[p[Indir2]][k]][l]>> OBVIOUS
  <2>3. {Path(y) : y \in Cell \X Cell} \subseteq Reached(f) BY DEF Reached
  <2> HIDE DEF Path, x
  <2>4. Path(x) \in Reached(f) BY <2>1, <2>3
  <2> QED BY <2>2, <2>4
<1>6. CASE q \in {0} \X (0 .. Indir2)
  <2>1. PICK k \in 0 .. Indir2 : q = <<0, k>> BY <1>6
  <2>2. Pointer(v, f, q) = p[k] BY <1>1, <2>1 DEF Pointer
  <2>3. <<k, 0, 0, p[k]>> \in Reached(f) BY <1>3
  <2> DEFINE r == <<k, 0, 0, p[k]>>
  <2>4. r \in Reached(f) /\ r[4] = Pointer(v, f, q) BY <2>2, <2>3
  <2> QED BY <2>4 DEF v
<1>7. ASSUME NEW i \in {Indir1, Indir2}, NEW k \in Cell, p[i] # 0, q = <<p[i], k>>
      PROVE  \E r \in Reached(f) : r[4] = Pointer(Volume, f, q)
  <2> DEFINE r == <<i, k, 0, blocks[p[i]][k]>>
  <2>1. r \in Reached(f) /\ r[4] = blocks[p[i]][k] BY <1>4, <1>7
  <2>2. Pointer(v, f, q) = blocks[p[i]][k] BY <1>1, <1>7 DEF Pointer
  <2> QED BY <2>1, <2>2 DEF v
<1>8. CASE q \in Heads(v, f) \X Cell
  <2>1. PICK h \in Heads(v, f), l \in Cell : q = <<h, l>> BY <1>8
  <2>2. h # 0 /\ (h = p[Indir1] \/ h = p[Indir2] \/ h \in In(v, p[Indir2])) BY <1>1 DEF Heads
  <2>3. CASE h = p[Indir1] BY <1>7, <2>1, <2>2, <2>3
  <2>4. CASE h = p[Indir2] BY <1>7, <2>1, <2>2, <2>4
  <2>5. CASE h \in In(v, p[Indir2])
    <3>1. PICK k \in Cell : p[Indir2] # 0 /\ h = blocks[p[Indir2]][k] BY <1>1, <2>5 DEF In
    <3> DEFINE r == <<Indir2, k, l + 1, blocks[h][l]>>
    <3>2. r \in Reached(f) /\ r[4] = blocks[h][l] BY <1>5, <2>2, <3>1
    <3>3. Pointer(v, f, q) = blocks[h][l] BY <1>1, <2>1, <2>2 DEF Pointer
    <3> QED BY <3>2, <3>3 DEF v
  <2> QED BY <2>2, <2>3, <2>4, <2>5
<1> QED BY <1>2, <1>6, <1>8 DEF Places

LEMMA Exact ==
  ASSUME IInv
  PROVE  BlocksExact
<1> DEFINE v == Volume
<1>1. Sound(v) /\ v.used = used BY VolumeFields DEF IInv, Whole
<1> HIDE DEF v
<1>2. ASSUME NEW x \in Owners
      PROVE  /\ x[1] \in Files /\ x[2] \in Reached(x[1]) /\ x[2][4] # 0 /\ x = <<x[1], x[2]>>
             /\ x[2][4] \in used /\ \E q : PlaceOf(v, x[1], x[2], q)
  <2>1. PICK f \in Files : x \in {f} \X Reached(f) /\ x[2][4] # 0 BY DEF Owners
  <2>2. PICK r \in Reached(f) : x = <<f, r>> BY <2>1
  <2>3. r[4] # 0 BY <2>1, <2>2
  <2>4. PICK q : PlaceOf(v, f, r, q) BY <2>3, PlaceOfReached DEF v
  <2>5. q \in Places(v, f) /\ Pointer(v, f, q) = r[4] BY <1>1, <2>4, PlaceOfGives
  <2>6. r[4] \in used BY <1>1, <2>3, <2>5, Marked
  <2> QED BY <2>2, <2>3, <2>4, <2>6
<1>3. ASSUME NEW b \in used PROVE \E x \in Owners : x[2][4] = b
  <2>1. PICK f \in Files : \E q \in Places(v, f) : Pointer(v, f, q) = b
    BY <1>1 DEF Sound, Owned
  <2>2. PICK q \in Places(v, f) : Pointer(v, f, q) = b BY <2>1
  <2>3. b # 0 BY <1>1, HeadsIn
  <2>4. PICK r \in Reached(f) : r[4] = b BY <2>2, <2>3, PathTo DEF v
  <2> DEFINE x == <<f, r>>
  <2>5. x \in {f} \X Reached(f) /\ x[2][4] = b BY <2>4
  <2> HIDE DEF x
  <2>6. x \in Owners BY <2>3, <2>5 DEF Owners
  <2> QED BY <2>5, <2>6
<1>4. ASSUME NEW x \in Owners, NEW y \in Owners, x[2][4] = y[2][4] PROVE x = y
  <2> DEFINE f == x[1]
             g == y[1]
             r == x[2]
             s == y[2]
  <2>1. f \in Files /\ g \in Files /\ r[4] # 0 /\ x = <<f, r>> /\ y = <<g, s>> /\ r[4] = s[4]
    BY <1>2, <1>4
  <2>2. PICK q : PlaceOf(v, f, r, q) BY <1>2
  <2>3. PICK t : PlaceOf(v, g, s, t) BY <1>2
  <2> HIDE DEF f, g, r, s
  <2>4. q \in Places(v, f) /\ Pointer(v, f, q) = r[4] BY <1>1, <2>1, <2>2, PlaceOfGives
  <2>5. t \in Places(v, g) /\ Pointer(v, g, t) = s[4] BY <1>1, <2>1, <2>3, PlaceOfGives
  <2>6. Pointer(v, f, q) = Pointer(v, g, t) /\ Pointer(v, f, q) # 0 BY <2>1, <2>4, <2>5
  <2>7. f = g /\ q = t BY <1>1, <2>1, <2>4, <2>5, <2>6, Unique
  <2>8. PlaceOf(v, f, s, q) BY <2>3, <2>7
  <2>9. r = s BY <1>1, <2>1, <2>2, <2>8, PathOfOne
  <2> QED BY <2>1, <2>7, <2>9
<1>5. used = {x[2][4] : x \in Owners} BY <1>2, <1>3
<1>6. IsFiniteSet(used)
  <2>1. used \in SUBSET (1 .. NBlocks) /\ NBlocks \in Int /\ 1 \in Int
    BY <1>1, Basics DEF Sound, VolumeType
  <2>2. IsFiniteSet(1 .. NBlocks) BY <2>1, FS_Interval
  <2> QED BY <2>1, <2>2, FS_Subset
<1>7. ExistsBijection(Owners, used)
  <2> DEFINE F == [x \in Owners |-> x[2][4]]
  <2>1. F \in [Owners -> used] BY <1>2
  <2>2. \A x, y \in Owners : F[x] = F[y] => x = y BY <1>4
  <2>3. \A b \in used : \E x \in Owners : F[x] = b BY <1>3
  <2> HIDE DEF F
  <2>4. F \in Bijection(Owners, used)
    BY <2>1, <2>2, <2>3 DEF Bijection, Injection, Surjection, IsInjective
  <2> QED BY <2>4 DEF ExistsBijection
<1>8. ExistsBijection(used, Owners) BY <1>7, Fun_ExistsBijSymmetric
<1>9. Cardinality(Owners) = Cardinality(used) BY <1>6, <1>8, FS_Bijection
<1> QED BY <1>5, <1>9 DEF BlocksExact

LEMMA Typed ==
  ASSUME IInv
  PROVE  TypeOK
<1>1. Volume \in VolumeType /\ Fits(Volume) BY DEF IInv, Whole, Sound
<1>2. /\ size \in [Files -> Nat] /\ \A f \in Files : size[f] <= MaxSize[f]
      /\ ptr \in [Files -> [0 .. Indir2 -> 0 .. NBlocks]] /\ used \subseteq Blocks
      /\ blocks \in [Blocks -> [Cell -> Stored]] /\ beyond \in BOOLEAN
  BY <1>1, VolumeFields DEF VolumeType, Fits
<1> QED BY <1>2 DEF TypeOK, Stored

\* cell k of a file
LEMMA FilledAt ==
  ASSUME NEW v, Filled(v), NEW f \in Files, NEW k \in Nat, k < v.size[f]
  PROVE  Lookup(v, f, k \div Ptrs) # 0 /\ v.blocks[Lookup(v, f, k \div Ptrs)][k % Ptrs] = Byte[f]
<1> DEFINE n == k \div Ptrs
           x == k % Ptrs
<1>1. n \in Nat /\ x \in Cell /\ k = n * Ptrs + x BY Division, Basics
<1> HIDE DEF n, x
<1>2. Lookup(v, f, n) # 0 /\ v.blocks[Lookup(v, f, n)][x] = Byte[f] BY <1>1 DEF Filled
<1> QED BY <1>2 DEF n, x

LEMMA Holes ==
  ASSUME IInv
  PROVE  NoHoles
<1> SUFFICES ASSUME NEW f \in Files, NEW k \in 0 .. size[f] - 1
             PROVE  Lookup(Volume, f, k \div Ptrs) # 0
  BY DEF NoHoles
<1>1. Filled(Volume) /\ Volume.size[f] = size[f] BY VolumeFields DEF IInv, Whole
<1>2. size[f] \in Nat BY Typed DEF TypeOK
<1>3. k \in Nat /\ k < size[f] BY <1>2
<1> QED BY <1>1, <1>3, FilledAt

\* On a full volume too, the blocks marked are those the files reach, each on one path
\* of one file, and every file has a block for each cell of its size (do_write counts in
\* the size only what it found a block for, do_truncate returns all it clears).
THEOREM BlocksStored == SpecAppend => []StoredExact
<1>1. IInv => StoredExact BY Exact, Typed, Holes DEF StoredExact
<1> QED BY <1>1, Invariance, PTL


-----------------------------------------------------------------------------
(* Reading, as long as the volume is never full. *)

\* no file is so long that its end is past the last block its pointers lead to
SizesFit == \A f \in Files : MaxSize[f] < Reach2 * Ptrs

\* the block that a read to the end of a file visits last exists
EndStored(v) == \A f \in Files : v.size[f] > 0 => Lookup(v, f, v.size[f] \div Ptrs) # 0

RInv == IInv /\ EndStored(Volume)

\* n cells of f
CellsOf(f, n) == [j \in 1 .. n |-> Byte[f]]

LEMMA BelowReach ==
  ASSUME SizesFit, NEW f \in Files, NEW n \in Nat, n <= MaxSize[f]
  PROVE  n \div Ptrs < Reach2
<1> DEFINE q == n \div Ptrs
<1>1. Ptrs \in Nat \ {0} /\ Reach2 \in Nat /\ MaxSize[f] \in Nat /\ MaxSize[f] < Reach2 * Ptrs
  BY Basics, Levels DEF SizesFit
<1>2. q \in Nat /\ q * Ptrs \in Nat /\ q * Ptrs <= n
  <2>1. q \in Nat /\ q * Ptrs \in Nat /\ n % Ptrs \in 0 .. Ptrs - 1 /\ n = q * Ptrs + (n % Ptrs)
    BY <1>1, Division
  <2> HIDE DEF q
  <2> QED BY <1>1, <2>1
<1> HIDE DEF q
<1>3. Reach2 * Ptrs \in Nat BY <1>1
<1>4. CASE Reach2 < q
  <2>1. Reach2 * Ptrs + Ptrs <= q * Ptrs BY <1>1, <1>2, <1>4, Multiples
  <2> QED BY <1>1, <1>2, <1>3, <2>1
<1>5. CASE Reach2 = q BY <1>1, <1>2, <1>3, <1>5
<1>6. q < Reach2 BY <1>1, <1>2, <1>4, <1>5
<1> QED BY <1>6 DEF q

LEMMA EndWritten ==
  ASSUME SizesFit, NEW v, Whole(v), EndStored(v), NEW f \in Files, NEW len \in Nat \ {0},
         v.size[f] + len <= MaxSize[f], NEW w, Appended(v, w, f, len), w.used # Blocks
  PROVE  EndStored(w) /\ w.size = [v.size EXCEPT ![f] = v.size[f] + len]
<1>1. /\ Sound(w) /\ Extends(v, w, f)
      /\ w.used # Blocks /\ (v.size[f] + len) \div Ptrs < Reach2 =>
           w.size[f] = v.size[f] + len /\ Lookup(w, f, w.size[f] \div Ptrs) # 0
  BY DEF Appended
<1>2. v.size \in [Files -> Nat] /\ w.size \in [Files -> Nat]
  BY <1>1 DEF Whole, Sound, VolumeType
<1>3. (v.size[f] + len) \div Ptrs < Reach2
  <2>1. v.size[f] + len \in Nat BY <1>2
  <2> QED BY <2>1, BelowReach
<1>4. w.size[f] = v.size[f] + len /\ Lookup(w, f, w.size[f] \div Ptrs) # 0 BY <1>1, <1>3
<1>5. \A g \in Files \ {f} : w.size[g] = v.size[g] BY <1>1 DEF Extends
<1>6. w.size = [v.size EXCEPT ![f] = v.size[f] + len] BY <1>2, <1>4, <1>5
<1>7. ASSUME NEW g \in Files, w.size[g] > 0, g # f PROVE Lookup(w, g, w.size[g] \div Ptrs) # 0
  <2> DEFINE n == v.size[g] \div Ptrs
  <2>1. n \in Nat BY <1>2, Division, Basics
  <2>2. Lookup(v, g, n) # 0 BY <1>5, <1>7 DEF EndStored
  <2>3. Lookup(w, g, n) = Lookup(v, g, n) BY <1>1, <2>1, <2>2 DEF Extends
  <2> QED BY <1>5, <1>7, <2>2, <2>3
<1>8. EndStored(w) BY <1>4, <1>7 DEF EndStored
<1> QED BY <1>6, <1>8

LEMMA BytesApart ==
  ASSUME NEW f \in Files, NEW n \in Nat
  PROVE  CellsOf(f, n) # NoData
<1>1. DOMAIN CellsOf(f, n) = 1 .. n /\ DOMAIN NoData = 1 .. 1 /\ NoData[1] = -1
  BY DEF CellsOf, NoData
<1>2. CASE n = 0
  <2>1. 1 \notin 1 .. n /\ 1 \in 1 .. 1 BY <1>2
  <2> QED BY <1>1, <2>1
<1>3. CASE n # 0
  <2>1. CellsOf(f, n)[1] = Byte[f] BY <1>3 DEF CellsOf
  <2>2. Byte[f] # -1 BY Basics
  <2> QED BY <1>1, <2>1, <2>2
<1> QED BY <1>2, <1>3

\* how many cells of a file of s cells a read of len cells from offset on gives
Got(s, offset, len) == IF offset >= s THEN 0 ELSE Lower(len, s - offset)

LEMMA ReadGives ==
  ASSUME NEW v, Sound(v), Filled(v), EndStored(v), NEW f \in Files, NEW offset \in Nat, NEW len \in Nat
  PROVE  /\ Got(v.size[f], offset, len) \in Nat
         /\ DoRead(v, f, offset, len) = CellsOf(f, Got(v.size[f], offset, len))
<1> DEFINE s == v.size[f]
           n == Got(s, offset, len)
           first == offset \div Ptrs
           last == (offset + n) \div Ptrs
<1>1. s \in Nat /\ Ptrs \in Nat \ {0} /\ Ptrs \in Nat BY Basics DEF Sound, VolumeType
<1>2. n \in Nat /\ (n # 0 => offset + n <= s)
  <2> HIDE DEF s
  <2> QED BY <1>1 DEF Got, Lower
<1>3. DoRead(v, f, offset, len) =
        IF n = 0 THEN <<>>
        ELSE IF \E k \in first .. last : Lookup(v, f, k) = 0 THEN NoData
        ELSE [j \in 1 .. n |-> v.blocks[Lookup(v, f, (offset + j - 1) \div Ptrs)][(offset + j - 1) % Ptrs]]
  BY Zenon DEF DoRead, Got
<1> HIDE DEF n
<1>4. CASE n = 0
  <2>1. CellsOf(f, n) = <<>> BY <1>4 DEF CellsOf
  <2> QED BY <1>2, <1>3, <1>4, <2>1 DEF n
<1>5. CASE n # 0
  <2>1. ASSUME NEW k \in first .. last PROVE Lookup(v, f, k) # 0
    <3> DEFINE m == offset + n
    <3>1. m \in Nat /\ m <= s BY <1>2, <1>5
    <3>2. first \in Nat /\ last \in Nat /\ k \in Nat /\ k <= last /\ last * Ptrs <= m /\ last * Ptrs \in Nat
      <4>1. first \in Nat BY <1>1, Division
      <4> HIDE DEF m
      <4>2. /\ m \div Ptrs \in Nat /\ m % Ptrs \in 0 .. Ptrs - 1
            /\ (m \div Ptrs) * Ptrs \in Nat /\ m = (m \div Ptrs) * Ptrs + (m % Ptrs)
        BY <1>1, <3>1, Division
      <4> DEFINE q == m \div Ptrs
      <4>3. q = last BY DEF m
      <4> HIDE DEF q, first
      <4>4. q \in Nat /\ q * Ptrs \in Nat /\ q * Ptrs <= m BY <1>1, <3>1, <4>2 DEF q
      <4> HIDE DEF last
      <4>5. k \in Nat /\ k <= last BY <4>1, <4>3, <4>4
      <4> QED BY <4>1, <4>3, <4>4, <4>5
    <3> HIDE DEF first, last, m
    <3>3. k * Ptrs \in Nat /\ k * Ptrs <= s
      <4>1. k * Ptrs \in Nat BY <1>1, <3>2
      <4>2. CASE k < last
        <5>1. k * Ptrs + Ptrs <= last * Ptrs BY <1>1, <3>2, <4>2, Multiples
        <5> QED BY <1>1, <3>1, <3>2, <4>1, <5>1
      <4>3. CASE k = last BY <1>1, <3>1, <3>2, <4>1, <4>3
      <4> QED BY <3>2, <4>2, <4>3
    <3> DEFINE x == k * Ptrs
    <3>4. x \div Ptrs = k /\ x \in Nat /\ x <= s
      <4>1. 0 \in 0 .. Ptrs - 1 BY <1>1
      <4>2. (k * Ptrs + 0) \div Ptrs = k BY <1>1, <3>2, <4>1, Divided
      <4>3. k * Ptrs + 0 = k * Ptrs BY <3>3
      <4> QED BY <3>3, <4>2, <4>3
    <3> HIDE DEF x
    <3>5. CASE x < s BY <3>4, <3>5, FilledAt
    <3>6. CASE x = s
      <4>1. s > 0 BY <1>1, <1>2, <1>5
      <4> QED BY <3>4, <3>6, <4>1 DEF EndStored
    <3> QED BY <1>1, <3>4, <3>5, <3>6
  <2>2. ASSUME NEW j \in 1 .. n
        PROVE  v.blocks[Lookup(v, f, (offset + j - 1) \div Ptrs)][(offset + j - 1) % Ptrs] = Byte[f]
    <3> DEFINE at == offset + j - 1
    <3>1. at \in Nat /\ at < s
      <4> HIDE DEF s
      <4> QED BY <1>1, <1>2, <1>5
    <3> HIDE DEF at
    <3>2. v.blocks[Lookup(v, f, at \div Ptrs)][at % Ptrs] = Byte[f] BY <3>1, FilledAt
    <3> QED BY <3>2 DEF at
  <2>3. DoRead(v, f, offset, len) =
          [j \in 1 .. n |-> v.blocks[Lookup(v, f, (offset + j - 1) \div Ptrs)][(offset + j - 1) % Ptrs]]
    <3> HIDE DEF first, last
    <3> QED BY <1>3, <1>5, <2>1
  <2>4. DoRead(v, f, offset, len) = CellsOf(f, n) BY <2>2, <2>3 DEF CellsOf
  <2> QED BY <1>2, <2>4 DEF n
<1> QED BY <1>4, <1>5


\* do_get: the pieces are the cells of the file
LEMMA GetGives ==
  ASSUME NEW v, Sound(v), Filled(v), EndStored(v), NEW f \in Files
  PROVE  DoGet(v, f) = CellsOf(f, v.size[f])
<1> DEFINE s == v.size[f]
           m == s \div MaxWrite
           read == [k \in 0 .. m |-> DoRead(v, f, k * MaxWrite, MaxWrite)]
           whole == [j \in 1 .. s |-> read[(j - 1) \div MaxWrite][((j - 1) % MaxWrite) + 1]]
<1>1. s \in Nat /\ MaxWrite \in Nat \ {0} /\ Byte[f] \in Nat BY Basics DEF Sound, VolumeType
<1>2. DoGet(v, f) = IF NoData \in {read[k] : k \in DOMAIN read} THEN NoData ELSE whole
  BY Zenon DEF DoGet
<1>3. /\ m \in Nat /\ m * MaxWrite \in Nat /\ s % MaxWrite \in 0 .. MaxWrite - 1
      /\ s = m * MaxWrite + (s % MaxWrite)
  <2> HIDE DEF s
  <2> QED BY <1>1, Division
<1>4. ASSUME NEW k \in 0 .. m
      PROVE  /\ k * MaxWrite \in Nat /\ Got(s, k * MaxWrite, MaxWrite) \in Nat
             /\ read[k] = CellsOf(f, Got(s, k * MaxWrite, MaxWrite))
  <2>1. k \in Nat /\ MaxWrite \in Nat
    <3> HIDE DEF m
    <3> QED BY <1>1, <1>3
  <2> DEFINE at == k * MaxWrite
  <2>2. at \in Nat BY <2>1
  <2>3. read[k] = DoRead(v, f, at, MaxWrite) OBVIOUS
  <2> HIDE DEF at, read
  <2>4. Got(s, at, MaxWrite) \in Nat /\ DoRead(v, f, at, MaxWrite) = CellsOf(f, Got(s, at, MaxWrite))
    BY <2>1, <2>2, ReadGives
  <2> QED BY <2>2, <2>3, <2>4 DEF at
<1>5. NoData \notin {read[k] : k \in DOMAIN read}
  <2>1. DOMAIN read = 0 .. m OBVIOUS
  <2> HIDE DEF read, m
  <2>2. ASSUME NEW k \in 0 .. m PROVE read[k] # NoData BY <1>4, BytesApart
  <2> QED BY <2>1, <2>2
<1>6. ASSUME NEW j \in 1 .. s
      PROVE  read[(j - 1) \div MaxWrite][((j - 1) % MaxWrite) + 1] = Byte[f]
  <2> DEFINE i == j - 1
             k == i \div MaxWrite
             x == i % MaxWrite
             at == k * MaxWrite
  <2>1. i \in Nat /\ i < s
    <3> HIDE DEF s
    <3> QED BY <1>1
  <2>2. k \in Nat /\ at \in Nat /\ x \in 0 .. MaxWrite - 1 /\ i = at + x
    <3> HIDE DEF i
    <3> QED BY <1>1, <2>1, Division
  <2> HIDE DEF s, m, i, k, x, read
  <2>3. ~(m < k)
    <3>1. ASSUME m < k PROVE FALSE
      <4>1. m * MaxWrite + MaxWrite <= k * MaxWrite BY <1>1, <1>3, <2>2, <3>1, Multiples
      <4>2. at \in Nat /\ m * MaxWrite + MaxWrite <= at BY <2>2, <4>1
      <4> HIDE DEF at
      <4> QED BY <1>1, <1>3, <2>1, <2>2, <4>2
    <3> QED BY <3>1
  <2>4. k \in 0 .. m BY <1>3, <2>2, <2>3
  <2>5. Got(s, at, MaxWrite) \in Nat /\ read[k] = CellsOf(f, Got(s, at, MaxWrite)) BY <1>4, <2>4
  <2> HIDE DEF at
  <2>6. x + 1 \in 1 .. Got(s, at, MaxWrite)
    <3>1. ~(at >= s) BY <1>1, <2>1, <2>2
    <3>2. Got(s, at, MaxWrite) = IF MaxWrite < s - at THEN MaxWrite ELSE s - at
      BY <3>1 DEF Got, Lower
    <3>3. x + 1 <= MaxWrite /\ x + 1 <= s - at BY <1>1, <2>1, <2>2
    <3>4. x + 1 \in Nat /\ x + 1 >= 1 BY <1>1, <2>2
    <3> QED BY <1>1, <2>2, <2>5, <3>2, <3>3, <3>4
  <2>7. read[k][x + 1] = Byte[f] BY <2>5, <2>6 DEF CellsOf
  <2> QED BY <2>7 DEF k, x, i
<1>7. whole = CellsOf(f, s)
  <2> HIDE DEF read
  <2> QED BY <1>6 DEF CellsOf
<1> HIDE DEF whole, read
<1> QED BY <1>2, <1>5, <1>7

LEMMA ReadsAll ==
  ASSUME RInv
  PROVE  ReadableToEnd /\ Contents = [f \in Files |-> CellsOf(f, size[f])]
<1> DEFINE v == Volume
<1>1. Sound(v) /\ Filled(v) /\ EndStored(v) /\ v.size = size BY VolumeFields DEF RInv, IInv, Whole
<1>2. size \in [Files -> Nat] BY <1>1 DEF Sound, VolumeType
<1> HIDE DEF v
<1>3. ASSUME NEW f \in Files PROVE DoGet(v, f) = CellsOf(f, size[f]) /\ DoGet(v, f) # NoData
  BY <1>1, <1>2, GetGives, BytesApart
<1>4. ASSUME NEW f \in Files PROVE DoRead(v, f, 0, size[f]) # NoData
  <2> DEFINE s == size[f]
             n == Got(s, 0, s)
  <2>1. s \in Nat /\ v.size[f] = s BY <1>1, <1>2
  <2> HIDE DEF s
  <2>2. n \in Nat /\ DoRead(v, f, 0, s) = CellsOf(f, n) BY <1>1, <2>1, ReadGives
  <2> HIDE DEF n
  <2> QED BY <2>2, BytesApart DEF s
<1>5. ReadableToEnd BY <1>3, <1>4 DEF ReadableToEnd, v
<1>6. Contents = [f \in Files |-> CellsOf(f, size[f])] BY <1>3 DEF Contents, v
<1> QED BY <1>5, <1>6

LEMMA InitReads ==
  ASSUME Init
  PROVE  RInv
<1>1. Volume.size = [f \in Files |-> 0] BY VolumeFields DEF Init
<1>2. EndStored(Volume) BY <1>1 DEF EndStored
<1> QED BY <1>2, InitSound DEF RInv

LEMMA WriteReads ==
  ASSUME SizesFit, RInv, NEW f \in Files, NEW len \in 1 .. MaxWrite, Write(f, size[f], len),
         used' # Blocks
  PROVE  RInv' /\ size' = [size EXCEPT ![f] = size[f] + len]
<1> DEFINE v == Volume
           w == Volume'
<1>1. IInv' /\ Appended(v, w, f, len) BY WriteStep DEF RInv
<1>2. Whole(v) /\ EndStored(v) /\ v.size = size BY VolumeFields DEF RInv, IInv
<1>3. w.used = used' /\ w.size = size' BY DEF Volume
<1>4. len \in Nat \ {0} /\ v.size[f] + len <= MaxSize[f]
  BY <1>2, Basics DEF Write
<1>5. EndStored(w) <=> EndStored(Volume)' BY DEF EndStored
<1> HIDE DEF v, w
<1>6. w.used # Blocks BY <1>3
<1>7. EndStored(w) /\ w.size = [v.size EXCEPT ![f] = v.size[f] + len]
  BY <1>1, <1>2, <1>4, <1>6, EndWritten
<1> QED BY <1>1, <1>2, <1>3, <1>5, <1>7 DEF RInv

LEMMA TruncateReads ==
  ASSUME RInv, NEW f \in Files, Truncate(f, 0)
  PROVE  RInv' /\ size' = [size EXCEPT ![f] = 0]
<1> DEFINE v == Volume
           w == Volume'
<1>1. /\ IInv' /\ size' = [size EXCEPT ![f] = 0]
      /\ \A g \in Files \ {f} : \A n \in Nat : Lookup(w, g, n) = Lookup(v, g, n)
  BY TruncateStep DEF RInv
<1>2. EndStored(v) /\ v.size = size /\ size \in [Files -> Nat]
  <2>1. Volume \in VolumeType BY DEF RInv, IInv, Whole, Sound
  <2> QED BY <2>1, VolumeFields DEF RInv, VolumeType
<1>3. w.size = size' BY DEF Volume
<1>4. EndStored(w) <=> EndStored(Volume)' BY DEF EndStored
<1> HIDE DEF v, w
<1>5. ASSUME NEW g \in Files, w.size[g] > 0 PROVE Lookup(w, g, w.size[g] \div Ptrs) # 0
  <2>1. g # f /\ w.size[g] = size[g] BY <1>1, <1>2, <1>3, <1>5
  <2>2. size[g] \div Ptrs \in Nat BY <1>2, Division, Basics
  <2>3. Lookup(v, g, size[g] \div Ptrs) # 0 BY <1>2, <1>5, <2>1 DEF EndStored
  <2> QED BY <1>1, <2>1, <2>2, <2>3
<1>6. EndStored(w) BY <1>5 DEF EndStored
<1> QED BY <1>1, <1>4, <1>6 DEF RInv

LEMMA StutterReads ==
  ASSUME RInv, UNCHANGED vars
  PROVE  RInv' /\ size' = size
<1>1. Volume' = Volume /\ IInv' BY StutterStep DEF RInv
<1>2. EndStored(Volume') <=> EndStored(Volume)' BY DEF EndStored
<1> QED BY <1>1, <1>2 DEF RInv, vars


LEMMA AppendReads ==
  ASSUME SizesFit, RInv, [AppendOnly]_vars, (used # Blocks)'
  PROVE  RInv'
<1>1. ASSUME NEW f \in Files, NEW len \in 1 .. MaxWrite, Write(f, size[f], len) PROVE RInv'
  BY <1>1, WriteReads
<1>2. ASSUME NEW f \in Files, Truncate(f, 0) PROVE RInv' BY <1>2, TruncateReads
<1>3. ASSUME UNCHANGED vars PROVE RInv' BY <1>3, StutterReads
<1> QED BY <1>1, <1>2, <1>3 DEF AppendOnly

\* While a block is free, get reads every file to its end, at once or in pieces: do_read
\* visits one block more than it needs, and do_write has made it.  On a full volume that
\* block may be missing and the read fails.
THEOREM ReadsWhileRoom ==
  ASSUME SizesFit
  PROVE  SpecAppend /\ [](used # Blocks) => []ReadableToEnd
<1>1. Init => RInv BY InitReads
<1>2. RInv /\ [AppendOnly]_vars /\ (used # Blocks)' => RInv' BY AppendReads
<1>3. RInv => ReadableToEnd BY ReadsAll
<1> QED BY <1>1, <1>2, <1>3, PTL DEF SpecAppend

LEMMA CellsJoined ==
  ASSUME NEW f \in Files, NEW a \in Nat, NEW b \in Nat
  PROVE  CellsOf(f, a) \o CellsOf(f, b) = CellsOf(f, a + b)
<1> DEFINE S == {Byte[f]}
           x == CellsOf(f, a)
           y == CellsOf(f, b)
           z == CellsOf(f, a + b)
<1>1. x \in [1 .. a -> S] /\ y \in [1 .. b -> S] /\ z \in [1 .. a + b -> S] BY DEF CellsOf
<1>2. x \in Seq(S) /\ y \in Seq(S) /\ z \in Seq(S) /\ Len(x) = a /\ Len(y) = b /\ Len(z) = a + b
  <2>1. a + b \in Nat OBVIOUS
  <2> HIDE DEF x, y, z, S
  <2> QED BY <1>1, <2>1
<1> HIDE DEF x, y, z
<1>3. x \o y \in Seq(S) /\ Len(x \o y) = a + b BY <1>2
<1>4. ASSUME NEW i \in 1 .. a + b PROVE (x \o y)[i] = z[i]
  <2>1. (x \o y)[i] = Byte[f] BY <1>2, <1>3, ElementOfSeq
  <2>2. z[i] = Byte[f] BY <1>2, ElementOfSeq
  <2> QED BY <2>1, <2>2
<1>5. x \o y = z BY <1>2, <1>3, <1>4, SeqEqual
<1> QED BY <1>5 DEF x, y, z

LEMMA GetsAll == RInv => Contents = [g \in Files |-> CellsOf(g, size[g])]
BY ReadsAll

LEMMA InitStores ==
  ASSUME Init
  PROVE  Store!Init
<1>1. Contents = [f \in Files |-> CellsOf(f, size[f])] BY InitReads, ReadsAll
<1>2. \A f \in Files : CellsOf(f, size[f]) = <<>> BY DEF Init, CellsOf
<1> QED BY <1>1, <1>2 DEF Store!Init

LEMMA WriteStores ==
  ASSUME SizesFit, RInv, NEW f \in Files, NEW len \in 1 .. MaxWrite, Write(f, size[f], len),
         used' # Blocks
  PROVE  Store!Next
<1>1. RInv' /\ size' = [size EXCEPT ![f] = size[f] + len] BY WriteReads
<1>2. Contents = [g \in Files |-> CellsOf(g, size[g])] BY ReadsAll
<1>3. (Contents = [g \in Files |-> CellsOf(g, size[g])])' BY <1>1, GetsAll, PTL
<1>4. size \in [Files -> Nat] BY Typed DEF RInv, TypeOK
<1>5. len \in Nat /\ len \in 0 .. MaxWrite BY Basics
<1>6. CellsOf(f, size[f]) \o CellsOf(f, len) = CellsOf(f, size[f] + len) BY <1>4, <1>5, CellsJoined
<1>7. CellsOf(f, len) \in [1 .. len -> {Byte[g] : g \in Files}] BY DEF CellsOf
<1>8. Contents' = [Contents EXCEPT ![f] = Contents[f] \o CellsOf(f, len)]
  BY <1>1, <1>2, <1>3, <1>4, <1>6
<1>9. Store!Extend(f, CellsOf(f, len)) BY <1>8 DEF Store!Extend
<1> QED BY <1>5, <1>7, <1>9 DEF Store!Next

LEMMA TruncateStores ==
  ASSUME RInv, NEW f \in Files, Truncate(f, 0)
  PROVE  Store!Next
<1>1. RInv' /\ size' = [size EXCEPT ![f] = 0] BY TruncateReads
<1>2. Contents = [g \in Files |-> CellsOf(g, size[g])] BY ReadsAll
<1>3. (Contents = [g \in Files |-> CellsOf(g, size[g])])' BY <1>1, GetsAll, PTL
<1>4. size \in [Files -> Nat] BY Typed DEF RInv, TypeOK
<1>5. CellsOf(f, 0) = <<>> BY DEF CellsOf
<1>6. Contents' = [Contents EXCEPT ![f] = <<>>] BY <1>1, <1>2, <1>3, <1>4, <1>5
<1>7. Store!Empty(f) BY <1>6 DEF Store!Empty
<1> QED BY <1>7 DEF Store!Next

LEMMA StutterStores ==
  ASSUME RInv, UNCHANGED vars
  PROVE  Contents' = Contents
<1>1. RInv' /\ size' = size BY StutterReads
<1>2. Contents = [g \in Files |-> CellsOf(g, size[g])] BY ReadsAll
<1>3. (Contents = [g \in Files |-> CellsOf(g, size[g])])' BY <1>1, GetsAll, PTL
<1> QED BY <1>1, <1>2, <1>3

\* While a block is free, what get reads is a store of files: put adds its cells at the end
\* of its file, do_truncate empties it, and neither changes another file.
THEOREM ContentsKept ==
  ASSUME SizesFit
  PROVE  SpecAppend /\ [](used # Blocks) => ImplementsContents
<1>1. Init => RInv /\ Store!Init BY InitReads, InitStores
<1>2. RInv /\ [AppendOnly]_vars /\ (used # Blocks)' => RInv' BY AppendReads
<1>3. ASSUME RInv, [AppendOnly]_vars, (used # Blocks)' PROVE [Store!Next]_Contents
  <2>1. ASSUME NEW f \in Files, NEW len \in 1 .. MaxWrite, Write(f, size[f], len)
        PROVE  Store!Next
    BY <1>3, <2>1, WriteStores
  <2>2. ASSUME NEW f \in Files, Truncate(f, 0) PROVE Store!Next BY <1>3, <2>2, TruncateStores
  <2>3. ASSUME UNCHANGED vars PROVE Contents' = Contents BY <1>3, <2>3, StutterStores
  <2> QED BY <1>3, <2>1, <2>2, <2>3 DEF AppendOnly
<1> QED BY <1>1, <1>2, <1>3, PTL DEF SpecAppend, ImplementsContents, Store!Spec

=============================================================================
