-------------------------- MODULE BoundaryTagsProofs --------------------------
(***************************************************************************)
(* Theorems about BoundaryTags, for every size of the area, every page     *)
(* size and all requests.                                                  *)
(***************************************************************************)
EXTENDS BoundaryTags, WellFoundedInduction, NaturalsInduction, FiniteSetTheorems, TLAPS

-----------------------------------------------------------------------------
(* The heap as blocks: those on the list, L, and those in use, D. *)

Unit == [next : Units, prev : Units, size : Units, isFree : Units]
HeapType == [unit : [Units -> Unit], freep : Units, brk : First .. NUnits]

\* The blocks B fill the units from the first to the break, each ending where the next
\* begins and with its size at either end.
Tiled(w, brk, B) ==
  /\ B \subseteq First .. brk - 1
  /\ First \in B \cup {brk}
  /\ \A b \in B : /\ w[b].size >= 2 /\ b + w[b].size \in B \cup {brk}
                  /\ w[b + w[b].size - 1].size = w[b].size
  /\ \A b, c \in B : b < c => b + w[b].size <= c

\* On P, prev undoes next, and next leads round all of it: no smaller set is closed.
Ring(w, P) ==
  /\ \A x \in P : /\ w[x].next \in P /\ w[x].prev \in P
                  /\ w[w[x].next].prev = x /\ w[w[x].prev].next = x
  /\ \A S \in SUBSET P : S # {} /\ (\A x \in S : w[x].next \in S) => S = P

\* The flags: the blocks F are free, at their first unit at least; the blocks E are in
\* use at either end; what lies before the first block and after the last is in use.
Flagged(w, brk, F, E) ==
  /\ w[0].isFree = 1 /\ w[2].isFree = 1
  /\ brk = First \/ w[brk].isFree = 1
  /\ \A b \in F : w[b].isFree = 0
  /\ \A b \in E : w[b].isFree = 1 /\ w[b + w[b].size - 1].isFree = 1

\* The same where mm_free is under way and the flags of a block are not set yet: the
\* flags of F and E are right.
Loose(h, L, D, F, E) ==
  /\ h \in HeapType
  /\ L \cap D = {}
  /\ Tiled(h.unit, h.brk, L \cup D)
  /\ Ring(h.unit, L \cup {0})
  /\ Flagged(h.unit, h.brk, F, E)

Shape(h, L, D) == Loose(h, L, D, L, D) /\ h.freep \in L \cup {0}

\* What the client has written into its block b is there.
Holds(w, b, s) ==
  /\ s \in Seq(Vals) /\ Len(s) + 2 <= w[b].size
  /\ \A i \in 1 .. Len(s) : w[b + i] = Blob(s[i])

Good(h, held) ==
  /\ \E L \in SUBSET Units : Shape(h, L, DOMAIN held)
  /\ \A b \in DOMAIN held : Holds(h.unit, b, held[b])
  /\ held \in [DOMAIN held -> Seq(Vals)]

IInv == Good(heap, live)

-----------------------------------------------------------------------------
(* Numbers. *)

LEMMA LeastOf ==
  ASSUME NEW S, S \subseteq Nat, S # {}
  PROVE  \E n \in S : \A m \in S : n <= m
<1>1. \A m, n \in Nat : m < n => <<m, n>> \in OpToRel(<, Nat)
  BY DEF OpToRel
<1>2. PICK R : IsWellFoundedOn(R, Nat) /\ \A m, n \in Nat : m < n => <<m, n>> \in R
  BY <1>1, NatLessThanWellFounded, Zenon
<1>3. PICK n \in S : \A m \in S : ~(<<m, n>> \in R)
  BY <1>2, WFMin, ZenonT(40)
<1>4. ASSUME NEW m \in S PROVE n <= m
  <2>1. m \in Nat /\ n \in Nat /\ <<m, n>> \notin R BY <1>3
  <2>2. ~(m < n) BY <1>2, <2>1, Zenon
  <2> QED BY <2>1, <2>2
<1> QED BY <1>4

LEMMA MinIs ==
  ASSUME NEW S, S \subseteq Nat, S # {}
  PROVE  Min(S) \in S /\ \A m \in S : Min(S) <= m
BY LeastOf DEF Min

LEMMA GreatestOf ==
  ASSUME NEW S, NEW n \in Nat, S \subseteq 0 .. n, S # {}
  PROVE  \E m \in S : \A k \in S : k <= m
<1> DEFINE T == {k \in Nat : n - k \in S}
<1>1. T # {}
  <2>1. PICK m : m \in S OBVIOUS
  <2>2. n - m \in Nat /\ n - (n - m) = m BY <2>1
  <2> QED BY <2>1, <2>2
<1>2. PICK k \in T : \A m \in T : k <= m
  <2> HIDE DEF T
  <2>1. T \subseteq Nat BY DEF T
  <2> QED BY <1>1, <2>1, LeastOf
<1>3. ASSUME NEW m \in S PROVE m <= n - k
  <2>1. n - m \in Nat /\ n - (n - m) = m BY <1>3
  <2>2. n - m \in T BY <2>1
  <2>3. k <= n - m BY <1>2, <2>2
  <2> QED BY <2>1, <2>3
<1> QED BY <1>2, <1>3

LEMMA MinOfTwo ==
  ASSUME NEW m \in Nat, NEW n \in Nat
  PROVE  Min({m, n}) = IF m <= n THEN m ELSE n
<1> DEFINE M == IF m <= n THEN m ELSE n
<1>1. M \in {m, n} /\ \A x \in {m, n} : M <= x OBVIOUS
<1>2. \A y \in {m, n} : (\A x \in {m, n} : y <= x) => y = M OBVIOUS
<1> HIDE DEF M
<1>3. Min({m, n}) = M BY <1>1, <1>2 DEF Min
<1> QED BY <1>3 DEF M

LEMMA MaxOfTwo ==
  ASSUME NEW m \in Nat, NEW n \in Nat
  PROVE  Max({m, n}) \in {m, n} /\ Max({m, n}) \in Nat /\ Max({m, n}) >= m /\ Max({m, n}) >= n
<1> DEFINE M == IF m >= n THEN m ELSE n
<1>1. M \in {m, n} /\ \A x \in {m, n} : M >= x OBVIOUS
<1>2. \A y \in {m, n} : (\A x \in {m, n} : y >= x) => y = M OBVIOUS
<1> HIDE DEF M
<1>3. Max({m, n}) = M BY <1>1, <1>2 DEF Max
<1> QED BY <1>3 DEF M

-----------------------------------------------------------------------------
(* What is written to the fields of the units. *)

LEMMA Basics ==
  /\ NUnits \in Nat /\ NUnits >= 3 /\ Units = 0 .. NUnits /\ First = 3
  /\ 0 \in Units /\ 1 \in Units /\ 2 \in Units
BY HeapAssumption DEF Units, First

LEMMA HeapIs ==
  ASSUME NEW h
  PROVE  h \in HeapType <=> /\ h = [unit |-> h.unit, freep |-> h.freep, brk |-> h.brk]
                            /\ h.unit \in [Units -> Unit] /\ h.freep \in Units /\ h.brk \in First .. NUnits
BY DEF HeapType

LEMMA UnitIs ==
  ASSUME NEW x \in Unit, NEW y \in Unit,
         x.next = y.next, x.prev = y.prev, x.size = y.size, x.isFree = y.isFree
  PROVE  x = y
BY DEF Unit

\* A heap in which only units change.
Rewritten(h, w) == [h EXCEPT !.unit = w]

LEMMA RewrittenIs ==
  ASSUME NEW h \in HeapType, NEW w \in [Units -> Unit]
  PROVE  /\ Rewritten(h, w) \in HeapType /\ Rewritten(h, w).unit = w
         /\ Rewritten(h, w).freep = h.freep /\ Rewritten(h, w).brk = h.brk
BY DEF Rewritten, HeapType

SameLinks(v, w) == \A u \in Units : w[u].next = v[u].next /\ w[u].prev = v[u].prev
SameSizes(v, w) == \A u \in Units : w[u].size = v[u].size
SameFlags(v, w) == \A u \in Units : w[u].isFree = v[u].isFree
SameBut(v, w, T) == \A u \in Units \ T : w[u] = v[u]

\* g is h with other units.
OnlyUnits(h, g) == g \in HeapType /\ g.freep = h.freep /\ g.brk = h.brk

LEMMA SizedIs ==
  ASSUME NEW h \in HeapType, NEW b \in Units, NEW n \in Units, b + n - 1 \in Units
  PROVE  LET g == Sized(h, b, n) IN
         /\ OnlyUnits(h, g)
         /\ SameLinks(h.unit, g.unit) /\ SameFlags(h.unit, g.unit)
         /\ SameBut(h.unit, g.unit, {b, b + n - 1})
         /\ g.unit[b].size = n /\ g.unit[b + n - 1].size = n
<1> DEFINE e == b + n - 1
           v == h.unit
           w == [v EXCEPT ![b].size = n, ![e].size = n]
           g == Sized(h, b, n)
<1>1. g = Rewritten(h, w)
  <2>1. Sized(h, b, n) = [h EXCEPT !.unit[b].size = n, !.unit[e].size = n] BY DEF Sized
  <2> QED BY <2>1 DEF Rewritten, HeapType
<1>2. v \in [Units -> Unit] BY HeapIs
<1> HIDE DEF v
<1>3. e \in Units OBVIOUS
<1> HIDE DEF e
<1>4. w \in [Units -> Unit] /\ \A u \in Units :
        /\ w[u].next = v[u].next /\ w[u].prev = v[u].prev /\ w[u].isFree = v[u].isFree
        /\ w[u].size = IF u \in {b, e} THEN n ELSE v[u].size
        /\ u \notin {b, e} => w[u] = v[u]
  BY <1>2, <1>3 DEF Unit
<1> HIDE DEF w
<1>5. g \in HeapType /\ g.unit = w /\ g.freep = h.freep /\ g.brk = h.brk BY <1>1, <1>4, RewrittenIs
<1> QED BY <1>3, <1>4, <1>5 DEF SameLinks, SameFlags, SameBut, OnlyUnits, v, e

\* g is h with the flag of a block at b, of n units, set to t.
TagsSet(h, g, b, n, t) ==
  /\ OnlyUnits(h, g)
  /\ SameLinks(h.unit, g.unit) /\ SameSizes(h.unit, g.unit)
  /\ SameBut(h.unit, g.unit, {b, b + n - 1})
  /\ g.unit[b].isFree = t /\ g.unit[b + n - 1].isFree = t

LEMMA TaggedIs ==
  ASSUME NEW h \in HeapType, NEW b \in Units, NEW n \in Units, b + n - 1 \in Units, NEW t \in Units
  PROVE  TagsSet(h, Tagged(h, b, n, t), b, n, t)
<1> DEFINE e == b + n - 1
           v == h.unit
           w == [v EXCEPT ![b].isFree = t, ![e].isFree = t]
           g == Tagged(h, b, n, t)
<1>1. g = Rewritten(h, w)
  <2>1. Tagged(h, b, n, t) = [h EXCEPT !.unit[b].isFree = t, !.unit[e].isFree = t] BY DEF Tagged
  <2> QED BY <2>1 DEF Rewritten, HeapType
<1>2. v \in [Units -> Unit] BY HeapIs
<1> HIDE DEF v
<1>3. e \in Units OBVIOUS
<1> HIDE DEF e
<1>4. w \in [Units -> Unit] /\ \A u \in Units :
        /\ w[u].next = v[u].next /\ w[u].prev = v[u].prev /\ w[u].size = v[u].size
        /\ w[u].isFree = IF u \in {b, e} THEN t ELSE v[u].isFree
        /\ u \notin {b, e} => w[u] = v[u]
  BY <1>2, <1>3 DEF Unit
<1> HIDE DEF w
<1>5. g \in HeapType /\ g.unit = w /\ g.freep = h.freep /\ g.brk = h.brk BY <1>1, <1>4, RewrittenIs
<1> QED BY <1>3, <1>4, <1>5 DEF SameLinks, SameSizes, SameBut, OnlyUnits, TagsSet, v, e

\* One link is set.
WithNext(w, b, n) == [w EXCEPT ![b].next = n]
WithPrev(w, b, n) == [w EXCEPT ![b].prev = n]

\* At b, w has the size and the flag of v; elsewhere it is v.
Relinked(v, w, b) ==
  /\ w \in [Units -> Unit] /\ w[b].size = v[b].size /\ w[b].isFree = v[b].isFree
  /\ \A u \in Units : u # b => w[u] = v[u]

LEMMA NextSet ==
  ASSUME NEW w \in [Units -> Unit], NEW b \in Units, NEW n \in Units
  PROVE  /\ Relinked(w, WithNext(w, b, n), b)
         /\ WithNext(w, b, n)[b].prev = w[b].prev /\ WithNext(w, b, n)[b].next = n
BY DEF WithNext, Relinked, Unit

LEMMA PrevSet ==
  ASSUME NEW w \in [Units -> Unit], NEW b \in Units, NEW n \in Units
  PROVE  /\ Relinked(w, WithPrev(w, b, n), b)
         /\ WithPrev(w, b, n)[b].next = w[b].next /\ WithPrev(w, b, n)[b].prev = n
BY DEF WithPrev, Relinked, Unit

\* One flag is set.
WithFlag(w, b, t) == [w EXCEPT ![b].isFree = t]

LEMMA FlagSet ==
  ASSUME NEW w \in [Units -> Unit], NEW b \in Units, NEW t \in Units
  PROVE  /\ WithFlag(w, b, t) \in [Units -> Unit] /\ WithFlag(w, b, t)[b].isFree = t
         /\ \A u \in Units : /\ WithFlag(w, b, t)[u].next = w[u].next /\ WithFlag(w, b, t)[u].prev = w[u].prev
                             /\ WithFlag(w, b, t)[u].size = w[u].size
                             /\ u # b => WithFlag(w, b, t)[u] = w[u]
BY DEF WithFlag, Unit

\* b is put after f, and before what followed f, a; f and a may be the same.
Between(v, w, b, f, a) ==
  /\ w[b].prev = f /\ w[b].next = a /\ w[f].next = b /\ w[a].prev = b
  /\ f # a => w[f].prev = v[f].prev /\ w[a].next = v[a].next

LEMMA LinkedIs ==
  ASSUME NEW h \in HeapType, NEW b \in Units, b # h.freep, b # h.unit[h.freep].next
  PROVE  LET g == Linked(h, b)
             f == h.freep
             a == h.unit[f].next IN
         /\ OnlyUnits(h, g)
         /\ SameSizes(h.unit, g.unit) /\ SameFlags(h.unit, g.unit)
         /\ SameBut(h.unit, g.unit, {b, f, a})
         /\ Between(h.unit, g.unit, b, f, a)
<1> DEFINE v == h.unit
           f == h.freep
           a == v[f].next
           w == [v EXCEPT ![b].prev = f, ![b].next = a, ![a].prev = b, ![f].next = b]
           g == Linked(h, b)
<1>1. g = Rewritten(h, w)
  <2>1. Linked(h, b) = [h EXCEPT !.unit[b].prev = f, !.unit[b].next = a, !.unit[a].prev = b, !.unit[f].next = b]
    BY DEF Linked
  <2> HIDE DEF f, a
  <2> QED BY <2>1 DEF Rewritten, HeapType
<1>2. v \in [Units -> Unit] /\ f \in Units BY HeapIs
<1>3. a \in Units BY <1>2 DEF Unit
<1>4. b # f /\ b # a OBVIOUS
<1> HIDE DEF a, f, v
<1> DEFINE w1 == WithPrev(v, b, f)
           w2 == WithNext(w1, b, a)
           w3 == WithPrev(w2, a, b)
<1>5. w = WithNext(w3, f, b) BY DEF WithNext, WithPrev
<1> HIDE DEF w
<1>6. Relinked(v, w1, b) /\ w1[b].next = v[b].next /\ w1[b].prev = f BY <1>2, PrevSet
<1> HIDE DEF w1
<1>7. Relinked(w1, w2, b) /\ w2[b].prev = w1[b].prev /\ w2[b].next = a
  <2>1. w1 \in [Units -> Unit] BY <1>6 DEF Relinked
  <2> QED BY <1>3, <2>1, NextSet
<1> HIDE DEF w2
<1>8. Relinked(w2, w3, a) /\ w3[a].next = w2[a].next /\ w3[a].prev = b
  <2>1. w2 \in [Units -> Unit] BY <1>7 DEF Relinked
  <2> QED BY <1>3, <2>1, PrevSet
<1> HIDE DEF w3
<1>9. Relinked(w3, w, f) /\ w[f].prev = w3[f].prev /\ w[f].next = b
  <2>1. w3 \in [Units -> Unit] BY <1>8 DEF Relinked
  <2> QED BY <1>2, <1>5, <2>1, NextSet
<1>10. w \in [Units -> Unit] BY <1>9 DEF Relinked
<1>11. SameSizes(v, w) /\ SameFlags(v, w) /\ SameBut(v, w, {b, f, a})
  <2>1. \A u \in Units : w1[u].size = v[u].size /\ w1[u].isFree = v[u].isFree /\ (u # b => w1[u] = v[u])
    BY <1>6 DEF Relinked
  <2>2. \A u \in Units : w2[u].size = w1[u].size /\ w2[u].isFree = w1[u].isFree /\ (u # b => w2[u] = w1[u])
    BY <1>7 DEF Relinked
  <2>3. \A u \in Units : w3[u].size = w2[u].size /\ w3[u].isFree = w2[u].isFree /\ (u # a => w3[u] = w2[u])
    BY <1>8 DEF Relinked
  <2>4. \A u \in Units : w[u].size = w3[u].size /\ w[u].isFree = w3[u].isFree /\ (u # f => w[u] = w3[u])
    BY <1>9 DEF Relinked
  <2>5. \A u \in Units : w[u].size = v[u].size BY <2>1, <2>2, <2>3, <2>4
  <2>6. \A u \in Units : w[u].isFree = v[u].isFree BY <2>1, <2>2, <2>3, <2>4
  <2>7. \A u \in Units : u # b /\ u # f /\ u # a => w[u] = v[u] BY <2>1, <2>2, <2>3, <2>4
  <2> QED BY <2>5, <2>6, <2>7 DEF SameSizes, SameFlags, SameBut
<1>12. Between(v, w, b, f, a)
  <2>1. \A u \in Units : u # b => w1[u] = v[u] /\ w2[u] = w1[u] BY <1>6, <1>7 DEF Relinked
  <2>2. \A u \in Units : u # a => w3[u] = w2[u] BY <1>8 DEF Relinked
  <2>3. \A u \in Units : u # f => w[u] = w3[u] BY <1>9 DEF Relinked
  <2>4. w[b].prev = f /\ w[b].next = a BY <1>4, <1>6, <1>7, <2>2, <2>3
  <2>5. w[f].next = b BY <1>9
  <2>6. w[a].prev = b BY <1>3, <1>8, <1>9, <2>3
  <2>7. ASSUME f # a PROVE w[f].prev = v[f].prev /\ w[a].next = v[a].next
    <3>1. w[f].prev = v[f].prev BY <1>2, <1>4, <1>9, <2>1, <2>2, <2>7
    <3>2. w[a].next = v[a].next BY <1>3, <1>4, <1>8, <2>1, <2>3, <2>7
    <3> QED BY <3>1, <3>2
  <2> QED BY <2>4, <2>5, <2>6, <2>7 DEF Between
<1>13. g \in HeapType /\ g.unit = w /\ g.freep = h.freep /\ g.brk = h.brk BY <1>1, <1>10, RewrittenIs
<1> QED BY <1>11, <1>12, <1>13 DEF OnlyUnits, a, f, v

\* b is taken from between p and n.
Without(v, w, p, n) ==
  /\ w[p].next = n /\ w[n].prev = p
  /\ p # n => w[p].prev = v[p].prev /\ w[n].next = v[n].next

LEMMA UnlinkedIs ==
  ASSUME NEW h \in HeapType, NEW b \in Units
  PROVE  LET g == Unlinked(h, b)
             p == h.unit[b].prev
             n == h.unit[b].next IN
         /\ OnlyUnits(h, g)
         /\ SameSizes(h.unit, g.unit) /\ SameFlags(h.unit, g.unit)
         /\ SameBut(h.unit, g.unit, {p, n})
         /\ Without(h.unit, g.unit, p, n)
<1> DEFINE v == h.unit
           p == v[b].prev
           n == v[b].next
           w == [v EXCEPT ![p].next = n, ![n].prev = p]
           g == Unlinked(h, b)
<1>1. g = Rewritten(h, w)
  <2>1. Unlinked(h, b) = [h EXCEPT !.unit[p].next = n, !.unit[n].prev = p] BY DEF Unlinked
  <2> HIDE DEF p, n
  <2> QED BY <2>1 DEF Rewritten, HeapType
<1>2. v \in [Units -> Unit] BY HeapIs
<1>3. p \in Units /\ n \in Units BY <1>2 DEF Unit
<1> HIDE DEF p, n, v
<1> DEFINE w1 == WithNext(v, p, n)
<1>4. w = WithPrev(w1, n, p) BY DEF WithNext, WithPrev
<1> HIDE DEF w
<1>5. Relinked(v, w1, p) /\ w1[p].prev = v[p].prev /\ w1[p].next = n BY <1>2, <1>3, NextSet
<1> HIDE DEF w1
<1>6. Relinked(w1, w, n) /\ w[n].next = w1[n].next /\ w[n].prev = p
  <2>1. w1 \in [Units -> Unit] BY <1>5 DEF Relinked
  <2> QED BY <1>3, <1>4, <2>1, PrevSet
<1>7. w \in [Units -> Unit] BY <1>6 DEF Relinked
<1>8. \A u \in Units : w1[u].size = v[u].size /\ w1[u].isFree = v[u].isFree /\ (u # p => w1[u] = v[u])
  BY <1>5 DEF Relinked
<1>9. \A u \in Units : w[u].size = w1[u].size /\ w[u].isFree = w1[u].isFree /\ (u # n => w[u] = w1[u])
  BY <1>6 DEF Relinked
<1>10. SameSizes(v, w) /\ SameFlags(v, w) /\ SameBut(v, w, {p, n})
  BY <1>8, <1>9 DEF SameSizes, SameFlags, SameBut
<1>11. Without(v, w, p, n)
  <2>1. w[p].next = n BY <1>3, <1>5, <1>6, <1>9
  <2>2. p # n => w[p].prev = v[p].prev /\ w[n].next = v[n].next BY <1>3, <1>5, <1>6, <1>8, <1>9
  <2> QED BY <1>6, <2>1, <2>2 DEF Without
<1>12. g \in HeapType /\ g.unit = w /\ g.freep = h.freep /\ g.brk = h.brk BY <1>1, <1>7, RewrittenIs
<1> QED BY <1>10, <1>11, <1>12 DEF OnlyUnits, p, n, v

-----------------------------------------------------------------------------
(* Blocks that fill the area. *)

\* What is known of the units, of the break and of the blocks B.
Area(w, brk, B) == w \in [Units -> Unit] /\ brk \in First .. NUnits /\ Tiled(w, brk, B)

LEMMA TileTypes ==
  ASSUME NEW w, NEW brk, NEW B, Area(w, brk, B), NEW b \in B
  PROVE  /\ brk \in Nat /\ brk >= 3 /\ brk <= NUnits /\ brk \in Units
         /\ b \in Nat /\ b >= 3 /\ b < brk /\ b \in Units
         /\ w[b].size \in Nat /\ w[b].size >= 2
         /\ b + w[b].size \in B \cup {brk} /\ b + w[b].size \in Nat /\ b + w[b].size <= brk
         /\ b + w[b].size - 1 \in Units /\ b + w[b].size \in Units
         /\ w[b + w[b].size - 1].size = w[b].size
<1> DEFINE n == w[b].size
<1>1. /\ w \in [Units -> Unit] /\ brk \in First .. NUnits
      /\ B \subseteq First .. brk - 1
      /\ n >= 2 /\ b + n \in B \cup {brk}
      /\ w[b + n - 1].size = n
  BY DEF Area, Tiled
<1>2. brk \in Nat /\ brk >= 3 /\ brk <= NUnits /\ brk \in Units BY <1>1, Basics
<1>3. \A c \in B : c \in Nat /\ c >= 3 /\ c < brk /\ c \in Units BY <1>1, <1>2, Basics
<1>4. n \in Nat
  <2>1. n \in Units BY <1>1, <1>3 DEF Unit
  <2> QED BY <2>1, Basics
<1>5. b \in Nat /\ b >= 3 /\ b < brk /\ b \in Units BY <1>3
<1> HIDE DEF n
<1>6. b + n \in Nat /\ b + n <= brk
  <2>1. CASE b + n \in B BY <1>2, <1>3, <2>1
  <2>2. CASE b + n = brk BY <1>2, <2>2
  <2> QED BY <1>1, <2>1, <2>2
<1>7. b + n - 1 \in Units /\ b + n \in Units BY <1>1, <1>2, <1>4, <1>5, <1>6, Basics
<1> QED BY <1>1, <1>2, <1>4, <1>5, <1>6, <1>7 DEF n

\* Two blocks have no unit in common.
LEMMA TilesApart ==
  ASSUME NEW w, NEW brk, NEW B, Area(w, brk, B), NEW b \in B, NEW c \in B, b # c,
         NEW i \in 0 .. w[b].size - 1, NEW j \in 0 .. w[c].size - 1
  PROVE  b + i # c + j
<1>1. /\ b \in Nat /\ w[b].size \in Nat
  BY TileTypes
<1>2. /\ c \in Nat /\ w[c].size \in Nat
  BY TileTypes
<1>3. b < c => b + w[b].size <= c BY DEF Area, Tiled
<1>4. c < b => c + w[c].size <= b BY DEF Area, Tiled
<1>5. i \in Nat /\ i < w[b].size /\ j \in Nat /\ j < w[c].size BY <1>1, <1>2
<1> QED BY <1>1, <1>2, <1>3, <1>4, <1>5

\* The first and the last units of two blocks.
LEMMA EndsApart ==
  ASSUME NEW w, NEW brk, NEW B, Area(w, brk, B), NEW b \in B, NEW c \in B, b # c
  PROVE  /\ b + w[b].size - 1 # c /\ b # c + w[c].size - 1
         /\ b + w[b].size - 1 # c + w[c].size - 1
         /\ b + w[b].size # c + w[c].size
<1>1. b \in Nat /\ w[b].size \in Nat /\ w[b].size >= 2 BY TileTypes
<1>2. c \in Nat /\ w[c].size \in Nat /\ w[c].size >= 2 BY TileTypes
<1>3. b < c => b + w[b].size <= c BY DEF Area, Tiled
<1>4. c < b => c + w[c].size <= b BY DEF Area, Tiled
<1> QED BY <1>1, <1>2, <1>3, <1>4

\* A unit of a block is not the first of another, nor base, nor past the break.
LEMMA InsideOne ==
  ASSUME NEW w, NEW brk, NEW B, Area(w, brk, B), NEW b \in B, NEW i \in 0 .. w[b].size - 1
  PROVE  /\ b + i \in Units /\ b + i >= 3 /\ b + i < brk
         /\ \A c \in B \ {b} : b + i # c /\ b + i # c + w[c].size - 1
<1>1. /\ b \in Nat /\ b >= 3 /\ w[b].size \in Nat /\ b + w[b].size <= brk /\ brk <= NUnits /\ brk \in Nat
  BY TileTypes
<1>2. b + i \in Units /\ b + i >= 3 /\ b + i < brk BY <1>1, Basics
<1>3. ASSUME NEW c \in B \ {b} PROVE b + i # c /\ b + i # c + w[c].size - 1
  <2>1. c \in Nat /\ w[c].size \in Nat /\ w[c].size >= 2 BY TileTypes
  <2>2. b < c => b + w[b].size <= c BY DEF Area, Tiled
  <2>3. c < b => c + w[c].size <= b BY DEF Area, Tiled
  <2> QED BY <1>1, <2>1, <2>2, <2>3
<1> QED BY <1>2, <1>3

\* What ends where b begins.
EndsAt(w, c, b) == c + w[c].size = b

LEMMA Before ==
  ASSUME NEW w, NEW brk, NEW B, Area(w, brk, B), NEW b \in B, b # First
  PROVE  \E c \in B \ {b} : EndsAt(w, c, b)
<1>1. \A c \in B : c \in Nat /\ c >= 3 /\ c < brk /\ w[c].size \in Nat /\ w[c].size >= 2
                   /\ c + w[c].size \in B \cup {brk}
  BY TileTypes
<1>2. brk \in Nat /\ First = 3 /\ First \in B \cup {brk} BY TileTypes, Basics DEF Area, Tiled
<1> DEFINE S == {c \in B : c < b}
<1>3. b \in Nat /\ b < brk /\ b >= 3 /\ b # 3 BY <1>1, <1>2
<1>4. S # {}
  <2>1. First # brk BY <1>2, <1>3
  <2> QED BY <1>2, <1>3, <2>1
<1>5. PICK c \in S : \A k \in S : k <= c
  <2>1. \A c \in S : c \in 0 .. b
    <3> SUFFICES ASSUME NEW c \in B, c < b PROVE c \in 0 .. b OBVIOUS
    <3>1. c \in Nat BY <1>1
    <3> QED BY <1>3, <3>1
  <2> HIDE DEF S
  <2> QED BY <1>3, <1>4, <2>1, GreatestOf
<1>6. c \in B /\ c < b BY <1>5
<1>7. c + w[c].size <= b BY <1>6 DEF Area, Tiled
<1>8. c + w[c].size = b
  <2> SUFFICES ASSUME c + w[c].size # b PROVE FALSE OBVIOUS
  <2>1. c \in Nat /\ w[c].size \in Nat /\ w[c].size >= 2 BY <1>1, <1>6
  <2>2. c + w[c].size < b BY <1>3, <1>7, <2>1
  <2>3. c + w[c].size \in B
    <3>1. c + w[c].size # brk BY <1>2, <1>3, <2>1, <2>2
    <3> QED BY <1>1, <1>6, <3>1
  <2>4. c + w[c].size <= c BY <1>5, <2>2, <2>3
  <2> QED BY <2>1, <2>4
<1>9. c # b BY <1>3, <1>6
<1> QED BY <1>6, <1>8, <1>9 DEF EndsAt

\* Sizes of blocks that stay as they are.
LEMMA TiledKept ==
  ASSUME NEW v, NEW brk, NEW B, Area(v, brk, B), NEW w \in [Units -> Unit], SameSizes(v, w)
  PROVE  Area(w, brk, B)
<1>1. \A b \in B : w[b].size = v[b].size /\ w[b + v[b].size - 1].size = v[b + v[b].size - 1].size
  BY TileTypes DEF SameSizes
<1>2. Tiled(w, brk, B) BY <1>1 DEF Area, Tiled
<1> QED BY <1>2 DEF Area

\* Two blocks become one.
Merged(v, w, b, n) ==
  /\ w[b].size = n /\ w[b + n - 1].size = n
  /\ \A u \in Units \ {b, b + n - 1} : w[u].size = v[u].size

LEMMA MergeTiled ==
  ASSUME NEW v, NEW brk, NEW B, Area(v, brk, B), NEW b \in B, NEW c \in B, EndsAt(v, b, c),
         NEW w \in [Units -> Unit], Merged(v, w, b, v[b].size + v[c].size)
  PROVE  Area(w, brk, B \ {c}) /\ \A x \in B \ {b, c} : w[x].size = v[x].size
<1> DEFINE n == v[b].size + v[c].size
           size(x) == v[x].size
<1>1. \A x \in B : /\ x \in Nat /\ x \in Units /\ x >= 3 /\ x < brk /\ size(x) \in Nat /\ size(x) >= 2
                   /\ x + size(x) \in B \cup {brk} /\ x + size(x) - 1 \in Units
                   /\ v[x + size(x) - 1].size = size(x)
  BY TileTypes
<1>2. \A x, y \in B : x < y => x + size(x) <= y BY DEF Area, Tiled
<1>3. \A x, y \in B : x # y => /\ x + size(x) - 1 # y /\ x # y + size(y) - 1
                               /\ x + size(x) - 1 # y + size(y) - 1
                               /\ x + size(x) # y + size(y)
  BY EndsApart
<1>4. b + size(b) = c BY DEF EndsAt
<1>5. /\ w[b].size = n /\ w[b + n - 1].size = n
      /\ \A u \in Units \ {b, b + n - 1} : w[u].size = v[u].size
  BY DEF Merged
<1>6. n = size(b) + size(c) OBVIOUS
<1>7. First \in B \cup {brk} /\ B \subseteq First .. brk - 1 /\ First = 3 BY Basics DEF Area, Tiled
<1> HIDE DEF n, size
<1>8. c # b /\ b + n - 1 = c + size(c) - 1 /\ b + n = c + size(c) /\ n \in Nat /\ n >= 2
  BY <1>1, <1>4, <1>6
<1>9. ASSUME NEW x \in B \ {b, c} PROVE w[x].size = size(x) /\ w[x + size(x) - 1].size = size(x)
  <2>1. x # b /\ x # b + n - 1 BY <1>3, <1>8
  <2>2. x + size(x) - 1 # b /\ x + size(x) - 1 # b + n - 1 BY <1>3, <1>8
  <2> QED BY <1>1, <1>5, <2>1, <2>2 DEF size
<1> DEFINE C == B \ {c}
<1>10. C \subseteq First .. brk - 1 /\ First \in C \cup {brk}
  <2>1. First # c BY <1>1, <1>4, <1>7
  <2> QED BY <1>7, <2>1
<1>11. ASSUME NEW x \in C
       PROVE  w[x].size >= 2 /\ x + w[x].size \in C \cup {brk} /\ w[x + w[x].size - 1].size = w[x].size
  <2>1. CASE x = b
    <3>1. b + n # c BY <1>1, <1>8
    <3> QED BY <1>1, <1>5, <1>8, <2>1, <3>1
  <2>2. CASE x # b
    <3>1. x \in B \ {b, c} BY <2>2
    <3>2. x + size(x) # c BY <1>3, <1>4, <3>1
    <3> QED BY <1>1, <1>9, <3>1, <3>2
  <2> QED BY <2>1, <2>2
<1>12. ASSUME NEW x \in C, NEW y \in C, x < y PROVE x + w[x].size <= y
  <2>1. CASE x = b
    <3>1. b + size(b) <= y BY <1>2, <1>12, <2>1
    <3>2. c < y
      <4>1. y \in Nat /\ c \in Nat /\ y # c BY <1>1
      <4> QED BY <1>4, <3>1, <4>1
    <3>3. c + size(c) <= y BY <1>2, <3>2
    <3> QED BY <1>5, <1>8, <2>1, <3>3
  <2>2. CASE x # b
    <3>1. x + size(x) <= y BY <1>2, <1>12
    <3> QED BY <1>9, <2>2, <3>1
  <2> QED BY <2>1, <2>2
<1> HIDE DEF C
<1>13. Tiled(w, brk, C) BY <1>10, <1>11, <1>12 DEF Tiled
<1>14. Area(w, brk, C) BY <1>13 DEF Area
<1> QED BY <1>9, <1>14 DEF C, size

\* One block becomes two.
Cut(v, w, b, r, n) ==
  /\ w[b].size = r /\ w[b + r - 1].size = r /\ w[b + r].size = n /\ w[b + r + n - 1].size = n
  /\ \A u \in Units \ {b, b + r - 1, b + r, b + r + n - 1} : w[u].size = v[u].size

LEMMA SplitTiled ==
  ASSUME NEW v, NEW brk, NEW B, Area(v, brk, B), NEW b \in B,
         NEW r \in Nat, NEW n \in Nat, r >= 2, n >= 2, v[b].size = r + n,
         NEW w \in [Units -> Unit], Cut(v, w, b, r, n)
  PROVE  Area(w, brk, B \cup {b + r}) /\ b + r \notin B /\ \A x \in B \ {b} : w[x].size = v[x].size
<1> DEFINE t == b + r
           size(x) == v[x].size
<1>1. \A x \in B : /\ x \in Nat /\ x \in Units /\ x >= 3 /\ x < brk /\ size(x) \in Nat /\ size(x) >= 2
                   /\ x + size(x) \in B \cup {brk} /\ x + size(x) - 1 \in Units
                   /\ v[x + size(x) - 1].size = size(x) /\ x + size(x) <= brk
  BY TileTypes
<1>2. \A x, y \in B : x < y => x + size(x) <= y BY DEF Area, Tiled
<1>3. /\ w[b].size = r /\ w[b + r - 1].size = r /\ w[t].size = n /\ w[t + n - 1].size = n
      /\ \A u \in Units \ {b, b + r - 1, t, t + n - 1} : w[u].size = v[u].size
  BY DEF Cut
<1>4. size(b) = r + n /\ brk \in Nat BY TileTypes
<1>5. First \in B \cup {brk} /\ B \subseteq First .. brk - 1 /\ First = 3 BY Basics DEF Area, Tiled
<1>6. t = b + r /\ t \in Nat BY <1>1
<1> HIDE DEF t, size
<1>7. ASSUME NEW x \in B \ {b} PROVE x + size(x) <= b \/ b + size(b) <= x
  BY <1>1, <1>2
<1>8. ASSUME NEW x \in B \ {b} PROVE w[x].size = size(x) /\ w[x + size(x) - 1].size = size(x)
  <2>1. x + size(x) <= b \/ b + size(b) <= x BY <1>7
  <2>2. x \notin {b, b + r - 1, t, t + n - 1} BY <1>1, <1>4, <1>6, <2>1
  <2>3. x + size(x) - 1 \notin {b, b + r - 1, t, t + n - 1} BY <1>1, <1>4, <1>6, <2>1
  <2> QED BY <1>1, <1>3, <2>2, <2>3 DEF size
<1>9. t \notin B
  <2>1. t # b BY <1>1, <1>6
  <2>2. \A x \in B \ {b} : x # t BY <1>1, <1>4, <1>6, <1>7
  <2> QED BY <2>1, <2>2
<1> DEFINE C == B \cup {t}
<1>10. C \subseteq First .. brk - 1 /\ First \in C \cup {brk}
  <2>1. t \in First .. brk - 1 BY <1>1, <1>4, <1>5, <1>6
  <2> QED BY <1>5, <2>1
<1>11. ASSUME NEW x \in C
       PROVE  w[x].size >= 2 /\ x + w[x].size \in C \cup {brk} /\ w[x + w[x].size - 1].size = w[x].size
  <2>1. CASE x = b BY <1>3, <1>6, <2>1
  <2>2. CASE x = t
    <3>1. t + n = b + size(b) BY <1>1, <1>4, <1>6
    <3> QED BY <1>1, <1>3, <2>2, <3>1
  <2>3. CASE x \in B \ {b} BY <1>1, <1>8, <2>3
  <2> QED BY <2>1, <2>2, <2>3
<1>12. ASSUME NEW x \in C, NEW y \in C, x < y PROVE x + w[x].size <= y
  <2>1. CASE x = b
    <3>1. CASE y = t BY <1>3, <1>6, <2>1, <3>1
    <3>2. CASE y # t
      <4>1. b + size(b) <= y BY <1>2, <1>12, <2>1, <3>2
      <4>2. y \in Nat /\ b \in Nat BY <1>1, <3>2
      <4> QED BY <1>3, <1>4, <2>1, <4>1, <4>2
    <3> QED BY <3>1, <3>2
  <2>2. CASE x = t
    <3>1. y \in B \ {b} BY <1>1, <1>6, <1>12, <2>2
    <3>2. b + size(b) <= y BY <1>1, <1>4, <1>6, <1>7, <1>12, <2>2, <3>1
    <3> QED BY <1>1, <1>3, <1>4, <1>6, <2>2, <3>1, <3>2
  <2>3. CASE x \in B \ {b}
    <3>1. w[x].size = size(x) BY <1>8, <2>3
    <3>2. CASE y = t
      <4>1. x + size(x) <= b BY <1>1, <1>4, <1>6, <1>7, <1>12, <2>3, <3>2
      <4> QED BY <1>1, <1>6, <2>3, <3>1, <3>2, <4>1
    <3>3. CASE y # t BY <1>2, <1>12, <2>3, <3>1, <3>3
    <3> QED BY <3>2, <3>3
  <2> QED BY <2>1, <2>2, <2>3
<1> HIDE DEF C
<1>13. Tiled(w, brk, C) BY <1>10, <1>11, <1>12 DEF Tiled
<1>14. Area(w, brk, C) BY <1>13 DEF Area
<1> QED BY <1>8, <1>9, <1>14 DEF C, size, t

\* A block is added at the break.
LEMMA ExtendTiled ==
  ASSUME NEW v, NEW brk, NEW B, Area(v, brk, B), NEW n \in Nat, n >= 2, brk + n <= NUnits,
         NEW w \in [Units -> Unit], w[brk].size = n, w[brk + n - 1].size = n,
         \A u \in Units : u < brk => w[u].size = v[u].size
  PROVE  Area(w, brk + n, B \cup {brk})
<1> DEFINE size(x) == v[x].size
<1>1. \A x \in B : /\ x \in Nat /\ x \in Units /\ x >= 3 /\ x < brk /\ size(x) \in Nat /\ size(x) >= 2
                   /\ x + size(x) \in B \cup {brk} /\ x + size(x) - 1 \in Units
                   /\ v[x + size(x) - 1].size = size(x) /\ x + size(x) <= brk
  BY TileTypes
<1>2. \A x, y \in B : x < y => x + size(x) <= y BY DEF Area, Tiled
<1>3. brk \in Nat /\ brk >= 3 /\ brk + n \in First .. NUnits /\ First = 3 BY Basics DEF Area
<1>4. First \in B \cup {brk} /\ B \subseteq First .. brk - 1 BY DEF Area, Tiled
<1> HIDE DEF size
<1>5. ASSUME NEW x \in B PROVE w[x].size = size(x) /\ w[x + size(x) - 1].size = size(x)
  <2>1. x + size(x) - 1 < brk BY <1>1, <1>3
  <2> QED BY <1>1, <2>1 DEF size
<1> DEFINE C == B \cup {brk}
<1>6. C \subseteq First .. (brk + n) - 1 /\ First \in C \cup {brk + n} BY <1>3, <1>4
<1>7. ASSUME NEW x \in C
      PROVE  w[x].size >= 2 /\ x + w[x].size \in C \cup {brk + n} /\ w[x + w[x].size - 1].size = w[x].size
  <2>1. CASE x = brk BY <2>1
  <2>2. CASE x \in B BY <1>1, <1>5, <2>2
  <2> QED BY <2>1, <2>2
<1>8. ASSUME NEW x \in C, NEW y \in C, x < y PROVE x + w[x].size <= y
  <2>1. x \in B
    <3>1. x # brk BY <1>1, <1>3, <1>8
    <3> QED BY <3>1
  <2>2. w[x].size = size(x) BY <1>5, <2>1
  <2>3. CASE y \in B BY <1>2, <1>8, <2>1, <2>2, <2>3
  <2>4. CASE y = brk BY <1>1, <2>1, <2>2, <2>4
  <2> QED BY <2>3, <2>4
<1> HIDE DEF C
<1> DEFINE e == brk + n
<1>9. C \subseteq First .. e - 1 /\ First \in C \cup {e} BY <1>6
<1>10. \A x \in C : w[x].size >= 2 /\ x + w[x].size \in C \cup {e} /\ w[x + w[x].size - 1].size = w[x].size
  BY <1>7
<1>11. \A x, y \in C : x < y => x + w[x].size <= y BY <1>8
<1>12. e \in First .. NUnits BY <1>3
<1> HIDE DEF e
<1>13. Tiled(w, e, C) BY <1>9, <1>10, <1>11 DEF Tiled
<1>14. Area(w, e, C) BY <1>12, <1>13 DEF Area
<1> QED BY <1>14 DEF C, e

-----------------------------------------------------------------------------
(* The circular list. *)

SameOn(v, w, P) == \A x \in P : w[x].next = v[x].next /\ w[x].prev = v[x].prev

LEMMA RingKept ==
  ASSUME NEW v, NEW w, NEW P, Ring(v, P), SameOn(v, w, P)
  PROVE  Ring(w, P)
<1>1. ASSUME NEW x \in P
      PROVE  /\ w[x].next \in P /\ w[x].prev \in P
             /\ w[w[x].next].prev = x /\ w[w[x].prev].next = x
  BY DEF Ring, SameOn
<1>2. ASSUME NEW S \in SUBSET P, S # {}, \A x \in S : w[x].next \in S PROVE S = P
  <2>1. \A x \in S : v[x].next \in S BY <1>2 DEF SameOn
  <2> QED BY <1>2, <2>1 DEF Ring
<1> QED BY <1>1, <1>2 DEF Ring

LEMMA RingInsert ==
  ASSUME NEW v, NEW w, NEW P, Ring(v, P), NEW b, b \notin P, NEW f \in P,
         Between(v, w, b, f, v[f].next), SameOn(v, w, P \ {f, v[f].next})
  PROVE  Ring(w, P \cup {b})
<1> DEFINE a == v[f].next
           Q == P \cup {b}
<1>1. /\ w[b].prev = f /\ w[b].next = a /\ w[f].next = b /\ w[a].prev = b
      /\ f # a => w[f].prev = v[f].prev /\ w[a].next = v[a].next
  BY DEF Between
<1>2. \A x \in P : /\ v[x].next \in P /\ v[x].prev \in P
                   /\ v[v[x].next].prev = x /\ v[v[x].prev].next = x
  BY DEF Ring
<1>3. \A x \in P : x # f /\ x # a => w[x].next = v[x].next /\ w[x].prev = v[x].prev BY DEF SameOn
<1>4. a \in P /\ v[a].prev = f /\ v[f].next = a BY <1>2
<1> HIDE DEF a
<1>5. \A x \in P : x # f => w[x].next = v[x].next BY <1>1, <1>3
<1>6. \A x \in P : x # a => w[x].prev = v[x].prev BY <1>1, <1>3
<1>7. ASSUME NEW x \in P, x # f PROVE w[x].next \in P /\ w[w[x].next].prev = x
  <2>1. v[x].next \in P /\ v[v[x].next].prev = x BY <1>2
  <2>2. v[x].next # a BY <1>4, <1>7, <2>1
  <2> QED BY <1>5, <1>6, <1>7, <2>1, <2>2
<1>8. ASSUME NEW x \in P, x # a PROVE w[x].prev \in P /\ w[w[x].prev].next = x
  <2>1. v[x].prev \in P /\ v[v[x].prev].next = x BY <1>2
  <2>2. v[x].prev # f BY <1>4, <1>8, <2>1
  <2> QED BY <1>5, <1>6, <1>8, <2>1, <2>2
<1>9. ASSUME NEW x \in Q
      PROVE  /\ w[x].next \in Q /\ w[x].prev \in Q
             /\ w[w[x].next].prev = x /\ w[w[x].prev].next = x
  <2>1. w[x].next \in Q /\ w[w[x].next].prev = x
    <3>1. CASE x = b BY <1>1, <1>4, <3>1
    <3>2. CASE x = f BY <1>1, <3>2
    <3>3. CASE x \in P /\ x # f BY <1>7, <3>3
    <3> QED BY <3>1, <3>2, <3>3
  <2>2. w[x].prev \in Q /\ w[w[x].prev].next = x
    <3>1. CASE x = b BY <1>1, <3>1
    <3>2. CASE x = a BY <1>1, <3>2
    <3>3. CASE x \in P /\ x # a BY <1>8, <3>3
    <3> QED BY <3>1, <3>2, <3>3
  <2> QED BY <2>1, <2>2
<1>10. ASSUME NEW S \in SUBSET Q, S # {}, \A x \in S : w[x].next \in S PROVE S = Q
  <2> DEFINE T == S \ {b}
  <2>1. b \in S => a \in T BY <1>1, <1>4, <1>10
  <2>2. T # {} /\ T \in SUBSET P BY <1>10, <2>1
  <2>3. ASSUME NEW x \in T PROVE v[x].next \in T
    <3>1. CASE x = f
      <4>1. b \in S BY <1>1, <1>10, <3>1
      <4> QED BY <1>4, <2>1, <3>1, <4>1
    <3>2. CASE x # f
      <4>1. w[x].next = v[x].next /\ x \in P BY <1>5, <3>2
      <4>2. v[x].next \in S /\ v[x].next \in P BY <1>2, <1>10, <4>1
      <4> QED BY <4>2
    <3> QED BY <3>1, <3>2
  <2> HIDE DEF T
  <2>4. T = P BY <2>2, <2>3 DEF Ring
  <2>5. b \in S BY <1>1, <1>10, <2>4 DEF T
  <2> QED BY <1>10, <2>4, <2>5 DEF T
<1> HIDE DEF Q
<1>11. Ring(w, Q) BY <1>9, <1>10 DEF Ring
<1> QED BY <1>11 DEF Q

LEMMA RingDelete ==
  ASSUME NEW v, NEW w, NEW P, Ring(v, P), NEW b \in P, P # {b},
         Without(v, w, v[b].prev, v[b].next), SameOn(v, w, P \ {v[b].prev, v[b].next})
  PROVE  Ring(w, P \ {b}) /\ v[b].prev \in P \ {b} /\ v[b].next \in P \ {b}
<1> DEFINE p == v[b].prev
           n == v[b].next
           Q == P \ {b}
<1>1. /\ w[p].next = n /\ w[n].prev = p
      /\ p # n => w[p].prev = v[p].prev /\ w[n].next = v[n].next
  BY DEF Without
<1>2. \A x \in P : /\ v[x].next \in P /\ v[x].prev \in P
                   /\ v[v[x].next].prev = x /\ v[v[x].prev].next = x
  BY DEF Ring
<1>3. \A x \in P : x # p /\ x # n => w[x].next = v[x].next /\ w[x].prev = v[x].prev BY DEF SameOn
<1>4. p \in P /\ n \in P /\ v[p].next = b /\ v[n].prev = b BY <1>2
<1>5. v[b].prev = p /\ v[b].next = n OBVIOUS
<1> HIDE DEF p, n
<1>6. n # b
  <2>1. ASSUME n = b PROVE FALSE
    <3>1. {b} \in SUBSET P /\ {b} # {} /\ \A x \in {b} : v[x].next \in {b} BY <1>5, <2>1
    <3>2. {b} = P BY <3>1 DEF Ring
    <3> QED BY <3>2
  <2> QED BY <2>1
<1>7. p # b BY <1>4, <1>5, <1>6
<1>8. \A x \in P : x # p => w[x].next = v[x].next BY <1>1, <1>3
<1>9. \A x \in P : x # n => w[x].prev = v[x].prev BY <1>1, <1>3
<1>10. ASSUME NEW x \in Q
       PROVE  /\ w[x].next \in Q /\ w[x].prev \in Q
              /\ w[w[x].next].prev = x /\ w[w[x].prev].next = x
  <2>1. w[x].next \in Q /\ w[w[x].next].prev = x
    <3>1. CASE x = p BY <1>1, <1>4, <1>6, <3>1
    <3>2. CASE x # p
      <4>1. v[x].next \in P /\ v[v[x].next].prev = x BY <1>2
      <4>2. v[x].next # b /\ v[x].next # n BY <1>4, <1>5, <3>2, <4>1
      <4> QED BY <1>8, <1>9, <3>2, <4>1, <4>2
    <3> QED BY <3>1, <3>2
  <2>2. w[x].prev \in Q /\ w[w[x].prev].next = x
    <3>1. CASE x = n BY <1>1, <1>4, <1>7, <3>1
    <3>2. CASE x # n
      <4>1. v[x].prev \in P /\ v[v[x].prev].next = x BY <1>2
      <4>2. v[x].prev # b /\ v[x].prev # p BY <1>4, <1>5, <3>2, <4>1
      <4> QED BY <1>8, <1>9, <3>2, <4>1, <4>2
    <3> QED BY <3>1, <3>2
  <2> QED BY <2>1, <2>2
<1>11. ASSUME NEW S \in SUBSET Q, S # {}, \A x \in S : w[x].next \in S PROVE S = Q
  <2>1. CASE p \in S
    <3> DEFINE T == S \cup {b}
    <3>1. T # {} /\ T \in SUBSET P BY <1>11
    <3>2. ASSUME NEW x \in T PROVE v[x].next \in T
      <4>1. CASE x = b BY <1>1, <1>5, <1>11, <2>1, <4>1
      <4>2. CASE x = p BY <1>4, <4>2
      <4>3. CASE x # b /\ x # p BY <1>8, <1>11, <4>3
      <4> QED BY <4>1, <4>2, <4>3
    <3> HIDE DEF T
    <3>3. T = P BY <3>1, <3>2 DEF Ring
    <3> QED BY <1>11, <3>3 DEF T
  <2>2. CASE p \notin S
    <3>1. \A x \in S : v[x].next \in S BY <1>8, <1>11, <2>2
    <3>2. S = P BY <1>11, <3>1 DEF Ring
    <3> QED BY <1>11, <3>2
  <2> QED BY <2>1, <2>2
<1> HIDE DEF Q
<1>12. Ring(w, Q) BY <1>10, <1>11 DEF Ring
<1>13. p \in Q /\ n \in Q BY <1>4, <1>6, <1>7 DEF Q
<1> QED BY <1>12, <1>13 DEF Q, p, n

-----------------------------------------------------------------------------
(* What is known of a heap of that shape, and of what stays. *)

LEMMA LooseIs ==
  ASSUME NEW h, NEW L, NEW D, NEW F, NEW E, Loose(h, L, D, F, E)
  PROVE  /\ Area(h.unit, h.brk, L \cup D) /\ h \in HeapType /\ h.unit \in [Units -> Unit]
         /\ h.brk \in First .. NUnits /\ h.freep \in Units
         /\ L \cap D = {} /\ 0 \notin L /\ 0 \notin D /\ L \subseteq Units /\ D \subseteq Units
         /\ Ring(h.unit, L \cup {0}) /\ Flagged(h.unit, h.brk, F, E)
<1>1. /\ h \in HeapType /\ L \cap D = {} /\ Tiled(h.unit, h.brk, L \cup D)
      /\ Ring(h.unit, L \cup {0}) /\ Flagged(h.unit, h.brk, F, E)
  BY DEF Loose
<1>2. h.unit \in [Units -> Unit] /\ h.freep \in Units /\ h.brk \in First .. NUnits BY <1>1, HeapIs
<1>3. Area(h.unit, h.brk, L \cup D) BY <1>1, <1>2 DEF Area
<1>4. \A b \in L \cup D : b \in Units /\ b >= 3 BY <1>3, TileTypes
<1>5. 0 \notin L /\ 0 \notin D /\ L \subseteq Units /\ D \subseteq Units BY <1>4
<1> QED BY <1>1, <1>2, <1>3, <1>5

LEMMA LooseOf ==
  ASSUME NEW h \in HeapType, NEW L, NEW D, NEW F, NEW E, L \cap D = {},
         Area(h.unit, h.brk, L \cup D), Ring(h.unit, L \cup {0}), Flagged(h.unit, h.brk, F, E)
  PROVE  Loose(h, L, D, F, E)
BY DEF Loose, Area

\* The units of the blocks D are as they were.
Kept(v, w, D) == \A b \in D : /\ w[b] = v[b]
                              /\ \A i \in 1 .. v[b].size - 1 : w[b + i] = v[b + i]

LEMMA KeptKept ==
  ASSUME NEW u, NEW v, NEW w, NEW D, Kept(u, v, D), Kept(v, w, D)
  PROVE  Kept(u, w, D)
BY DEF Kept

\* Only the first and last units of other blocks, and what is outside the blocks, change.
LEMMA KeptBut ==
  ASSUME NEW v, NEW brk, NEW B, Area(v, brk, B), NEW D, D \subseteq B,
         NEW w, NEW T, SameBut(v, w, T),
         \A t \in T : \/ t \in B \ D \/ t = 0 \/ t >= brk
                      \/ \E c \in B \ D : t = c + v[c].size - 1
  PROVE  Kept(v, w, D)
<1>1. ASSUME NEW b \in D, NEW i \in 0 .. v[b].size - 1 PROVE w[b + i] = v[b + i]
  <2>1. b \in B OBVIOUS
  <2>2. /\ b + i \in Units /\ b + i >= 3 /\ b + i < brk
        /\ \A c \in B \ {b} : b + i # c /\ b + i # c + v[c].size - 1
    BY <2>1, InsideOne
  <2>3. b + i \in Nat /\ brk \in Nat BY <2>1, <2>2, TileTypes, Basics
  <2>4. b + i \notin T
    <3> SUFFICES ASSUME b + i \in T PROVE FALSE OBVIOUS
    <3>1. b + i \notin B \ D BY <2>2
    <3>2. b + i # 0 /\ ~ (b + i >= brk) BY <2>2, <2>3
    <3>3. \A c \in B \ D : b + i # c + v[c].size - 1 BY <2>2
    <3> QED BY <3>1, <3>2, <3>3
  <2> QED BY <2>2, <2>4 DEF SameBut
<1>2. ASSUME NEW b \in D PROVE w[b] = v[b]
  <2>1. b \in B OBVIOUS
  <2>2. b \in Nat /\ v[b].size \in Nat /\ v[b].size >= 2 BY <2>1, TileTypes
  <2>3. 0 \in 0 .. v[b].size - 1 /\ b + 0 = b BY <2>2
  <2> QED BY <1>1, <2>3
<1>3. ASSUME NEW b \in D, NEW i \in 1 .. v[b].size - 1 PROVE w[b + i] = v[b + i]
  <2>1. b \in B OBVIOUS
  <2>2. v[b].size \in Nat BY <2>1, TileTypes
  <2>3. i \in 0 .. v[b].size - 1 BY <2>2
  <2> QED BY <1>1, <2>3
<1> QED BY <1>2, <1>3 DEF Kept

\* The flags stay where nothing writes one.
LEMMA FlagsKept ==
  ASSUME NEW v, NEW brk, NEW B, Area(v, brk, B), NEW F, NEW E, F \subseteq B, E \subseteq B,
         NEW w, SameFlags(v, w), Flagged(v, brk, F, E), NEW G, G \subseteq F,
         \A c \in E : w[c].size = v[c].size
  PROVE  Flagged(w, brk, G, E)
<1>1. /\ v[0].isFree = 1 /\ v[2].isFree = 1
      /\ brk = First \/ v[brk].isFree = 1
      /\ \A b \in F : v[b].isFree = 0
      /\ \A b \in E : v[b].isFree = 1 /\ v[b + v[b].size - 1].isFree = 1
  BY DEF Flagged
<1>2. \A u \in Units : w[u].isFree = v[u].isFree BY DEF SameFlags
<1>3. brk \in Units
  <2>1. brk \in First .. NUnits BY DEF Area
  <2> QED BY <2>1, Basics
<1>4. \A b \in B : b \in Units /\ b + v[b].size - 1 \in Units BY TileTypes
<1>5. w[0].isFree = 1 /\ w[2].isFree = 1 BY <1>1, <1>2, Basics
<1>6. brk = First \/ w[brk].isFree = 1 BY <1>1, <1>2, <1>3
<1>7. \A b \in G : w[b].isFree = 0 BY <1>1, <1>2, <1>4
<1>8. \A b \in E : w[b].isFree = 1 /\ w[b + w[b].size - 1].isFree = 1 BY <1>1, <1>2, <1>4
<1> QED BY <1>5, <1>6, <1>7, <1>8 DEF Flagged

\* The flags of one block are set.
LEMMA FlagsSet ==
  ASSUME NEW v, NEW brk, NEW B, Area(v, brk, B), NEW F, NEW E, F \subseteq B, E \subseteq B, NEW b \in B,
         NEW w, SameSizes(v, w), SameBut(v, w, {b, b + v[b].size - 1}),
         Flagged(v, brk, F, E)
  PROVE  Flagged(w, brk, F \ {b}, E \ {b})
<1>1. /\ v[0].isFree = 1 /\ v[2].isFree = 1
      /\ brk = First \/ v[brk].isFree = 1
      /\ \A c \in F : v[c].isFree = 0
      /\ \A c \in E : v[c].isFree = 1 /\ v[c + v[c].size - 1].isFree = 1
  BY DEF Flagged
<1> DEFINE e == b + v[b].size - 1
<1>2. \A u \in Units : u # b /\ u # e => w[u] = v[u] BY DEF SameBut
<1>3. brk \in Units /\ brk # b /\ brk # e /\ 0 # b /\ 0 # e /\ 2 # b /\ 2 # e
  <2>1. /\ brk \in Nat /\ brk \in Units /\ b \in Nat /\ b >= 3 /\ b < brk
        /\ v[b].size \in Nat /\ v[b].size >= 2 /\ b + v[b].size <= brk
    BY TileTypes
  <2> QED BY <2>1
<1>4. \A c \in B : c \in Units /\ c + v[c].size - 1 \in Units BY TileTypes
<1>5. \A c \in B \ {b} : c # e /\ c + v[c].size - 1 # b /\ c + v[c].size - 1 # e BY EndsApart
<1> HIDE DEF e
<1>6. w[0].isFree = 1 /\ w[2].isFree = 1 BY <1>1, <1>2, <1>3, Basics
<1>7. brk = First \/ w[brk].isFree = 1 BY <1>1, <1>2, <1>3
<1>8. \A c \in B \ {b} : w[c] = v[c] /\ w[c + v[c].size - 1] = v[c + v[c].size - 1]
  BY <1>2, <1>4, <1>5
<1>9. \A c \in F \ {b} : w[c].isFree = 0 BY <1>1, <1>8
<1>10. \A c \in E \ {b} : w[c].isFree = 1 /\ w[c + w[c].size - 1].isFree = 1 BY <1>1, <1>8
<1> QED BY <1>6, <1>7, <1>9, <1>10 DEF Flagged

-----------------------------------------------------------------------------
(* mm_free. *)

\* b is to be freed: it is among the blocks in use, but its flags no longer count.
Freeing(h, L, D, b) == Loose(h, L, D, L, D \ {b}) /\ b \in D /\ h.freep \in L \cup {0}

\* The block at, on the list, will be tagged as free; the blocks E are in use.
Joining(h, M, E, at) == Loose(h, M, E, M \ {at}, E) /\ at \in M /\ M \subseteq Units

\* With the upper neighbour, or on the list; with the lower neighbour.
Upper(h, b) == IF h.unit[b - 1].isFree # 0 THEN [heap |-> Linked(h, b), at |-> b] ELSE JoinUpper(h, b)
Lower(h, b) == IF h.unit[b + h.unit[b].size].isFree = 0 THEN JoinLower(h, b) ELSE h

\* What a step of mm_free leaves of h where the blocks E are in use.
Joined(h, E, g, at, n) ==
  /\ \E M : Joining(g, M, E, at)
  /\ Kept(h.unit, g.unit, E)
  /\ g.unit[at].size >= n

LEMMA FreeingIs ==
  ASSUME NEW h, NEW L, NEW D, NEW b, Freeing(h, L, D, b)
  PROVE  /\ Area(h.unit, h.brk, L \cup D) /\ h \in HeapType /\ h.unit \in [Units -> Unit]
         /\ L \cap D = {} /\ 0 \notin L /\ 0 \notin D /\ L \subseteq Units /\ D \subseteq Units
         /\ Ring(h.unit, L \cup {0}) /\ Flagged(h.unit, h.brk, L, D \ {b})
<1> DEFINE E == D \ {b}
<1>1. Loose(h, L, D, L, E) BY DEF Freeing
<1> HIDE DEF E
<1>2. /\ Area(h.unit, h.brk, L \cup D) /\ h \in HeapType /\ h.unit \in [Units -> Unit]
      /\ L \cap D = {} /\ 0 \notin L /\ 0 \notin D /\ L \subseteq Units /\ D \subseteq Units
      /\ Ring(h.unit, L \cup {0}) /\ Flagged(h.unit, h.brk, L, E)
  BY <1>1, LooseIs
<1> QED BY <1>2 DEF E

LEMMA JoiningIs ==
  ASSUME NEW h, NEW M, NEW E, NEW b, Joining(h, M, E, b)
  PROVE  /\ Area(h.unit, h.brk, M \cup E) /\ h \in HeapType /\ h.unit \in [Units -> Unit]
         /\ M \cap E = {} /\ 0 \notin M /\ 0 \notin E /\ M \subseteq Units /\ E \subseteq Units
         /\ Ring(h.unit, M \cup {0}) /\ Flagged(h.unit, h.brk, M \ {b}, E)
<1> DEFINE F == M \ {b}
<1>1. Loose(h, M, E, F, E) BY DEF Joining
<1> HIDE DEF F
<1>2. /\ Area(h.unit, h.brk, M \cup E) /\ h \in HeapType /\ h.unit \in [Units -> Unit]
      /\ M \cap E = {} /\ 0 \notin M /\ 0 \notin E /\ M \subseteq Units /\ E \subseteq Units
      /\ Ring(h.unit, M \cup {0}) /\ Flagged(h.unit, h.brk, F, E)
  BY <1>1, LooseIs
<1> QED BY <1>2 DEF F

LEMMA LinkedJoins ==
  ASSUME NEW h, NEW L, NEW D, NEW b, Freeing(h, L, D, b)
  PROVE  Joined(h, D \ {b}, Linked(h, b), b, h.unit[b].size)
<1> DEFINE v == h.unit
           f == h.freep
           a == v[f].next
           g == Linked(h, b)
           w == g.unit
           E == D \ {b}
           P == L \cup {0}
           M == L \cup {b}
           B == L \cup D
<1>1. /\ Area(v, h.brk, B) /\ h \in HeapType /\ v \in [Units -> Unit]
      /\ L \cap D = {} /\ 0 \notin L /\ 0 \notin D /\ L \subseteq Units /\ D \subseteq Units
      /\ Ring(v, P) /\ Flagged(v, h.brk, L, E)
  BY FreeingIs
<1>2. b \in D /\ b \in Units /\ f \in P /\ b \notin P BY <1>1 DEF Freeing
<1>3. a \in P /\ b # f /\ b # a BY <1>1, <1>2 DEF Ring
<1>4. /\ OnlyUnits(h, g) /\ SameSizes(v, w) /\ SameFlags(v, w)
      /\ SameBut(v, w, {b, f, a}) /\ Between(v, w, b, f, a)
  BY <1>1, <1>2, <1>3, LinkedIs
<1> HIDE DEF g, w
<1>5. g \in HeapType /\ g.brk = h.brk /\ w = g.unit /\ w \in [Units -> Unit]
  BY <1>4, HeapIs DEF OnlyUnits, w
<1> HIDE DEF v, a, f
<1>6. Area(w, h.brk, B) BY <1>1, <1>4, <1>5, TiledKept
<1>7. Ring(w, P \cup {b})
  <2>1. P \subseteq Units BY <1>1, Basics
  <2>2. SameOn(v, w, P \ {f, a}) BY <1>2, <1>4, <2>1 DEF SameBut, SameOn
  <2> QED BY <1>1, <1>2, <1>4, <2>2, RingInsert DEF a
<1>8. Flagged(w, h.brk, M \ {b}, E)
  <2>1. L \subseteq B /\ E \subseteq B /\ M \ {b} \subseteq L OBVIOUS
  <2>2. \A c \in E : w[c].size = v[c].size BY <1>1, <1>4 DEF SameSizes
  <2> QED BY <1>1, <1>4, <2>1, <2>2, FlagsKept
<1>9. Kept(v, w, E)
  <2>1. E \subseteq B OBVIOUS
  <2>2. \A t \in {b, f, a} : t \in B \ E \/ t = 0 BY <1>1, <1>2, <1>3
  <2> QED BY <1>1, <1>4, <2>1, <2>2, KeptBut
<1>10. M \cup E = B /\ M \cap E = {} /\ P \cup {b} = M \cup {0} /\ b \in M /\ M \subseteq Units
  BY <1>1, <1>2
<1>11. Loose(g, M, E, M \ {b}, E)
  <2>1. Area(g.unit, g.brk, M \cup E) BY <1>5, <1>6, <1>10
  <2>2. Ring(g.unit, M \cup {0}) BY <1>5, <1>7, <1>10
  <2>3. Flagged(g.unit, g.brk, M \ {b}, E) BY <1>5, <1>8
  <2> HIDE DEF M, E
  <2> QED BY <1>5, <1>10, <2>1, <2>2, <2>3, LooseOf
<1>12. Joining(g, M, E, b) BY <1>10, <1>11 DEF Joining
<1>13. w[b].size >= v[b].size
  <2>1. v[b].size \in Nat BY <1>1, <1>2, TileTypes
  <2>2. w[b].size = v[b].size BY <1>2, <1>4 DEF SameSizes
  <2> QED BY <2>1, <2>2
<1> QED BY <1>5, <1>9, <1>12, <1>13 DEF Joined, g, v

\* The upper neighbour: what ends at b.  Its flag is 0 only where it is on the list.
LEMMA UpperJoins ==
  ASSUME NEW h, NEW L, NEW D, NEW b, Freeing(h, L, D, b), h.unit[b - 1].isFree = 0
  PROVE  Joined(h, D \ {b}, JoinUpper(h, b).heap, JoinUpper(h, b).at, h.unit[b].size)
<1> DEFINE v == h.unit
           E == D \ {b}
           B == L \cup D
           size(c) == v[c].size
<1>1. /\ Area(v, h.brk, B) /\ h \in HeapType /\ v \in [Units -> Unit]
      /\ L \cap D = {} /\ 0 \notin L /\ 0 \notin D /\ L \subseteq Units /\ D \subseteq Units
      /\ Ring(v, L \cup {0}) /\ Flagged(v, h.brk, L, E)
  BY FreeingIs
<1>2. b \in D /\ b \in B BY DEF Freeing
<1>3. v[2].isFree = 1 /\ \A c \in E : v[c + size(c) - 1].isFree = 1 BY <1>1 DEF Flagged
<1>4. b # First
  <2>1. 3 - 1 = 2 OBVIOUS
  <2> QED BY <1>3, <2>1, Basics
<1>5. PICK c \in B \ {b} : EndsAt(v, c, b) BY <1>1, <1>2, <1>4, Before
<1>6. c + size(c) = b BY <1>5 DEF EndsAt
<1>7. /\ c \in Nat /\ c \in Units /\ size(c) \in Nat /\ size(c) >= 2 /\ v[c + size(c) - 1].size = size(c)
      /\ c + size(c) - 1 \in Units
  BY <1>1, <1>5, TileTypes
<1>8. /\ b \in Nat /\ size(b) \in Nat /\ size(b) >= 2 /\ b + size(b) - 1 \in Units /\ b + size(b) <= h.brk
      /\ h.brk \in Nat /\ h.brk <= NUnits
  BY <1>1, <1>2, TileTypes
<1>9. b - 1 = c + size(c) - 1
  <2> HIDE DEF size
  <2> QED BY <1>6, <1>7
<1>10. c \in L
  <2>1. c \notin E BY <1>3, <1>9
  <2> QED BY <1>5, <2>1
<1> DEFINE n == v[b].size + v[c].size
           g == Sized(h, c, n)
           w == g.unit
<1>11. JoinUpper(h, b) = [heap |-> g, at |-> c]
  <2>1. v[b - 1].size = size(c) BY <1>7, <1>9
  <2>2. b - size(c) = c
    <3> HIDE DEF size
    <3> QED BY <1>6, <1>7
  <2>3. b - v[b - 1].size = c BY <2>1, <2>2
  <2> QED BY <2>3 DEF JoinUpper
<1>12. n = size(b) + size(c) /\ size(b) = v[b].size /\ n = v[c].size + v[b].size BY <1>7, <1>8
<1> HIDE DEF n, size
<1>13. c + n - 1 = b + size(b) - 1 /\ n \in Units /\ n >= size(b) /\ c + n - 1 \in Units
  <2>1. n \in Nat /\ n = size(b) + size(c) /\ c + n = b + size(b) BY <1>6, <1>7, <1>8, <1>12
  <2>2. n <= NUnits
    <3>1. c + n <= h.brk BY <1>8, <2>1
    <3>2. NUnits \in Nat BY Basics
    <3> QED BY <1>7, <1>8, <2>1, <3>1, <3>2
  <2>3. n \in Units BY <2>1, <2>2, Basics
  <2>4. c + n - 1 = b + size(b) - 1 BY <1>7, <1>8, <2>1
  <2>5. n >= size(b) BY <1>7, <1>8, <2>1
  <2> QED BY <1>8, <2>3, <2>4, <2>5
<1>14. /\ OnlyUnits(h, g) /\ SameLinks(v, w) /\ SameFlags(v, w)
       /\ SameBut(v, w, {c, c + n - 1}) /\ w[c].size = n /\ w[c + n - 1].size = n
  <2>1. h \in HeapType /\ c \in Units /\ n \in Units /\ c + n - 1 \in Units BY <1>1, <1>7, <1>13
  <2> QED BY <2>1, SizedIs
<1> HIDE DEF g, w
<1>15. g \in HeapType /\ g.brk = h.brk /\ w = g.unit /\ w \in [Units -> Unit]
  BY <1>14, HeapIs DEF OnlyUnits, w
<1> HIDE DEF v
<1>16. Merged(v, w, c, n) BY <1>14 DEF Merged, SameBut
<1>17. Area(w, h.brk, B \ {b}) /\ \A x \in B \ {c, b} : w[x].size = v[x].size
  <2>1. c \in B /\ EndsAt(v, c, b) BY <1>5
  <2>2. Merged(v, w, c, v[c].size + v[b].size) BY <1>12, <1>16
  <2>3. Area(v, h.brk, B) /\ b \in B /\ w \in [Units -> Unit] BY <1>1, <1>2, <1>15
  <2> HIDE DEF B
  <2> QED BY <2>1, <2>2, <2>3, MergeTiled
<1>18. Ring(w, L \cup {0})
  <2>1. L \cup {0} \subseteq Units BY <1>1, Basics
  <2>2. SameOn(v, w, L \cup {0}) BY <1>14, <2>1 DEF SameLinks, SameOn
  <2> QED BY <1>1, <2>2, RingKept
<1>19. Flagged(w, h.brk, L \ {c}, E)
  <2>1. L \subseteq B /\ E \subseteq B /\ L \ {c} \subseteq L OBVIOUS
  <2>2. \A x \in E : w[x].size = v[x].size BY <1>1, <1>10, <1>17
  <2> QED BY <1>1, <1>14, <2>1, <2>2, FlagsKept
<1>20. Kept(v, w, E)
  <2>1. E \subseteq B /\ c \in B \ E /\ b \in B \ E BY <1>1, <1>2, <1>10
  <2>2. c + n - 1 = b + v[b].size - 1 BY <1>12, <1>13
  <2>3. \A t \in {c, c + n - 1} : t \in B \ E \/ \E x \in B \ E : t = x + v[x].size - 1
    BY <2>1, <2>2
  <2>4. SameBut(v, w, {c, c + n - 1}) BY <1>14
  <2> HIDE DEF E, B
  <2> QED BY <1>1, <2>1, <2>3, <2>4, KeptBut
<1>21. L \cup E = B \ {b} /\ L \cap E = {} BY <1>1, <1>2
<1>22. Loose(g, L, E, L \ {c}, E)
  <2>1. Area(g.unit, g.brk, L \cup E) BY <1>15, <1>17, <1>21
  <2>2. Ring(g.unit, L \cup {0}) BY <1>15, <1>18
  <2>3. Flagged(g.unit, g.brk, L \ {c}, E) BY <1>15, <1>19
  <2> HIDE DEF E
  <2> QED BY <1>15, <1>21, <2>1, <2>2, <2>3, LooseOf
<1>23. Joining(g, L, E, c) BY <1>1, <1>10, <1>22 DEF Joining
<1>24. w[c].size >= v[b].size BY <1>12, <1>13, <1>14
<1>25. Joined(h, E, g, c, v[b].size) BY <1>15, <1>20, <1>23, <1>24 DEF Joined, v
<1> QED BY <1>11, <1>25 DEF v

\* The lower neighbour: what begins where the block ends.
LEMMA LowerJoins ==
  ASSUME NEW h, NEW M, NEW E, NEW b, Joining(h, M, E, b)
  PROVE  Joined(h, E, Lower(h, b), b, h.unit[b].size)
<1> DEFINE v == h.unit
           B == M \cup E
           c == b + v[b].size
<1>1. /\ Area(v, h.brk, B) /\ h \in HeapType /\ v \in [Units -> Unit]
      /\ M \cap E = {} /\ 0 \notin M /\ 0 \notin E /\ M \subseteq Units /\ E \subseteq Units
      /\ Ring(v, M \cup {0}) /\ Flagged(v, h.brk, M \ {b}, E)
  BY JoiningIs
<1>2. b \in M /\ b \in B /\ b \in Units BY <1>1 DEF Joining
<1>3. /\ b \in Nat /\ b >= 3 /\ b < h.brk /\ v[b].size \in Nat /\ v[b].size >= 2 /\ c \in B \cup {h.brk}
      /\ h.brk \in Nat
  BY <1>1, <1>2, TileTypes
<1>4. CASE v[c].isFree # 0
  <2>1. Lower(h, b) = h BY <1>4 DEF Lower
  <2>2. Kept(v, v, E) BY DEF Kept
  <2>3. Joined(h, E, h, b, v[b].size) BY <1>3, <2>2 DEF Joined
  <2> QED BY <2>1, <2>3
<1>5. CASE v[c].isFree = 0
  <2>1. c \in M /\ c # b /\ c # 0
    <3>1. h.brk # First BY <1>3, Basics
    <3>2. v[h.brk].isFree = 1 /\ \A x \in E : v[x].isFree = 1 BY <1>1, <3>1 DEF Flagged
    <3>3. c # b /\ c # 0 BY <1>3
    <3> QED BY <1>3, <1>5, <3>2, <3>3
  <2> DEFINE g1 == Unlinked(h, c)
             w1 == g1.unit
             n == v[b].size + v[c].size
             g == Sized(g1, b, n)
             w == g.unit
             p == v[c].prev
             q == v[c].next
             N == M \ {c}
             P == M \cup {0}
  <2>2. Lower(h, b) = g BY <1>5 DEF Lower, JoinLower
  <2>3. c \in Units /\ c \in B BY <1>1, <2>1
  <2>4. /\ c \in Nat /\ v[c].size \in Nat /\ v[c].size >= 2 /\ c + v[c].size <= h.brk
        /\ h.brk <= NUnits /\ c + v[c].size - 1 \in Units
    BY <1>1, <2>3, TileTypes
  <2>5. /\ OnlyUnits(h, g1) /\ SameSizes(v, w1) /\ SameFlags(v, w1)
        /\ SameBut(v, w1, {p, q}) /\ Without(v, w1, p, q)
    BY <1>1, <2>3, UnlinkedIs
  <2>6. c = b + v[b].size /\ n = v[b].size + v[c].size OBVIOUS
  <2> HIDE DEF g1, w1, c, n
  <2>7. g1 \in HeapType /\ g1.brk = h.brk /\ g1.unit = w1 /\ w1 \in [Units -> Unit]
    BY <2>5, HeapIs DEF OnlyUnits, w1
  <2>8. b + n - 1 = c + v[c].size - 1 /\ n \in Units /\ n >= v[b].size
    <3>1. n \in Nat /\ n = v[b].size + v[c].size /\ b + n = c + v[c].size BY <1>3, <2>4, <2>6
    <3>2. n <= NUnits BY <1>3, <2>4, <3>1, Basics
    <3>3. n \in Units BY <3>1, <3>2, Basics
    <3>4. b + n - 1 = c + v[c].size - 1 BY <1>3, <2>4, <3>1
    <3>5. n >= v[b].size BY <1>3, <2>4, <3>1
    <3> QED BY <3>3, <3>4, <3>5
  <2>9. /\ OnlyUnits(g1, g) /\ SameLinks(w1, w) /\ SameFlags(w1, w)
        /\ SameBut(w1, w, {b, b + n - 1}) /\ w[b].size = n /\ w[b + n - 1].size = n
    BY <1>2, <2>4, <2>7, <2>8, SizedIs
  <2> HIDE DEF g, w
  <2>10. g \in HeapType /\ g.brk = h.brk /\ w = g.unit /\ w \in [Units -> Unit]
    BY <2>7, <2>9, HeapIs DEF OnlyUnits, w
  <2> HIDE DEF v
  <2>11. P \subseteq Units BY <1>1, Basics
  <2>12. Ring(w1, P \ {c}) /\ p \in P \ {c} /\ q \in P \ {c}
    <3>1. c \in P /\ P # {c} BY <2>1
    <3>2. SameOn(v, w1, P \ {p, q}) BY <2>5, <2>11 DEF SameBut, SameOn
    <3>3. Without(v, w1, v[c].prev, v[c].next) BY <2>5
    <3>4. SameOn(v, w1, P \ {v[c].prev, v[c].next}) BY <3>2
    <3> HIDE DEF P
    <3> QED BY <1>1, <3>1, <3>3, <3>4, RingDelete DEF P
  <2>13. N \cup {0} = P \ {c} BY <2>1
  <2>14. Ring(w, N \cup {0})
    <3>1. Ring(w1, N \cup {0}) /\ N \cup {0} \subseteq Units BY <2>11, <2>12, <2>13
    <3>2. SameOn(w1, w, N \cup {0}) BY <2>9, <3>1 DEF SameLinks, SameOn
    <3> QED BY <3>1, <3>2, RingKept
  <2>15. Area(w1, h.brk, B) BY <1>1, <2>5, <2>7, TiledKept
  <2>16. \A x \in B : w1[x].size = v[x].size
    <3>1. \A x \in B : x \in Units BY <1>1
    <3> QED BY <2>5, <3>1 DEF SameSizes
  <2>17. Area(w, h.brk, B \ {c}) /\ \A x \in B \ {b, c} : w[x].size = w1[x].size
    <3>1. EndsAt(w1, b, c) BY <1>2, <2>6, <2>16 DEF EndsAt
    <3>2. n = w1[b].size + w1[c].size BY <1>2, <2>3, <2>6, <2>16
    <3>3. Merged(w1, w, b, n) BY <2>9 DEF Merged, SameBut
    <3>4. Merged(w1, w, b, w1[b].size + w1[c].size) BY <3>2, <3>3
    <3> QED BY <1>2, <2>3, <2>10, <2>15, <3>1, <3>4, MergeTiled
  <2>18. \A x \in B \ {b, c} : w[x].size = v[x].size BY <2>16, <2>17
  <2>19. SameFlags(v, w) BY <2>5, <2>9 DEF SameFlags
  <2>20. Flagged(w, h.brk, N \ {b}, E)
    <3>1. M \ {b} \subseteq B /\ E \subseteq B /\ N \ {b} \subseteq M \ {b} OBVIOUS
    <3>2. \A x \in E : w[x].size = v[x].size BY <1>1, <1>2, <2>1, <2>18
    <3> QED BY <1>1, <2>19, <3>1, <3>2, FlagsKept
  <2>21. Kept(v, w, E)
    <3>1. E \subseteq B /\ M \subseteq B /\ b \in B \ E /\ c \in B \ E BY <1>1, <1>2, <2>1
    <3>2. Kept(v, w1, E)
      <4>1. \A t \in {p, q} : t \in B \ E \/ t = 0 BY <1>1, <2>12
      <4> HIDE DEF B
      <4> QED BY <1>1, <2>5, <3>1, <4>1, KeptBut
    <3>3. Kept(w1, w, E)
      <4>1. b + n - 1 = c + w1[c].size - 1 BY <2>3, <2>8, <2>16
      <4>2. \A t \in {b, b + n - 1} : t \in B \ E \/ \E x \in B \ E : t = x + w1[x].size - 1
        BY <3>1, <4>1
      <4>3. SameBut(w1, w, {b, b + n - 1}) BY <2>9
      <4> HIDE DEF B
      <4> QED BY <2>15, <3>1, <4>2, <4>3, KeptBut
    <3> QED BY <3>2, <3>3, KeptKept
  <2>22. N \cup E = B \ {c} /\ N \cap E = {} /\ b \in N /\ N \subseteq Units BY <1>1, <1>2, <2>1
  <2>23. Loose(g, N, E, N \ {b}, E)
    <3>1. Area(g.unit, g.brk, N \cup E) BY <2>10, <2>17, <2>22
    <3>2. Ring(g.unit, N \cup {0}) BY <2>10, <2>14
    <3>3. Flagged(g.unit, g.brk, N \ {b}, E) BY <2>10, <2>20
    <3> HIDE DEF N
    <3> QED BY <2>10, <2>22, <3>1, <3>2, <3>3, LooseOf
  <2>24. Joining(g, N, E, b) BY <2>22, <2>23 DEF Joining
  <2>25. w[b].size >= v[b].size BY <2>8, <2>9
  <2>26. Joined(h, E, g, b, v[b].size) BY <2>10, <2>21, <2>24, <2>25 DEF Joined, v
  <2> QED BY <2>2, <2>26 DEF v
<1> QED BY <1>4, <1>5

\* The block is tagged as free at either end, and the list begins with it.
TagFree(h, b) == [Tagged(h, b, h.unit[b].size, 0) EXCEPT !.freep = b]

\* f is a heap where the blocks E are in use and freep is a free block of n units or more.
Freed(h, E, f, n) ==
  /\ \E M \in SUBSET Units : Shape(f, M, E) /\ f.freep \in M
  /\ Kept(h.unit, f.unit, E)
  /\ f.unit[f.freep].size >= n

LEMMA TagFrees ==
  ASSUME NEW h, NEW M, NEW E, NEW b, Joining(h, M, E, b)
  PROVE  Freed(h, E, TagFree(h, b), h.unit[b].size)
<1> DEFINE v == h.unit
           n == v[b].size
           g == Tagged(h, b, n, 0)
           w == g.unit
           f == TagFree(h, b)
           B == M \cup E
<1>1. /\ Area(v, h.brk, B) /\ h \in HeapType /\ v \in [Units -> Unit]
      /\ M \cap E = {} /\ 0 \notin M /\ 0 \notin E /\ M \subseteq Units /\ E \subseteq Units
      /\ Ring(v, M \cup {0}) /\ Flagged(v, h.brk, M \ {b}, E)
  BY JoiningIs
<1>2. b \in M /\ b \in B /\ b \in Units BY <1>1 DEF Joining
<1>3. b \in Nat /\ n \in Nat /\ n >= 2 /\ b + n <= h.brk /\ h.brk <= NUnits /\ b + n - 1 \in Units /\ h.brk \in Nat
  BY <1>1, <1>2, TileTypes
<1>4. n = v[b].size OBVIOUS
<1> HIDE DEF n
<1>5. n \in Units BY <1>3, Basics
<1>6. /\ OnlyUnits(h, g) /\ SameLinks(v, w) /\ SameSizes(v, w)
      /\ SameBut(v, w, {b, b + n - 1}) /\ w[b].isFree = 0
  <2>1. h \in HeapType /\ b \in Units /\ n \in Units /\ b + n - 1 \in Units BY <1>1, <1>2, <1>3, <1>5
  <2>2. 0 \in Units BY Basics
  <2>3. TagsSet(h, g, b, n, 0) BY <2>1, <2>2, TaggedIs
  <2> QED BY <2>3 DEF TagsSet
<1>7. f = [g EXCEPT !.freep = b] BY DEF TagFree, n
<1> HIDE DEF g, w, f
<1>8. g \in HeapType /\ g.brk = h.brk /\ w = g.unit /\ w \in [Units -> Unit]
  BY <1>6, HeapIs DEF OnlyUnits, w
<1>9. f \in HeapType /\ f.unit = w /\ f.brk = h.brk /\ f.freep = b
  BY <1>2, <1>7, <1>8 DEF HeapType
<1> HIDE DEF v
<1>10. Area(w, h.brk, B) BY <1>1, <1>6, <1>8, TiledKept
<1>11. Ring(w, M \cup {0})
  <2>1. M \cup {0} \subseteq Units BY <1>1, Basics
  <2>2. SameOn(v, w, M \cup {0}) BY <1>6, <2>1 DEF SameLinks, SameOn
  <2> QED BY <1>1, <2>2, RingKept
<1>12. Flagged(w, h.brk, M, E)
  <2> DEFINE F == M \ {b}
  <2>1. F \subseteq B /\ E \subseteq B /\ F \ {b} = F /\ E \ {b} = E BY <1>1, <1>2
  <2>2. SameBut(v, w, {b, b + v[b].size - 1}) /\ Flagged(v, h.brk, F, E) BY <1>1, <1>4, <1>6
  <2> HIDE DEF F, B
  <2>3. Flagged(w, h.brk, F \ {b}, E \ {b}) BY <1>1, <1>2, <1>6, <2>1, <2>2, FlagsSet
  <2>4. \A x \in M : x \in F \/ x = b BY DEF F
  <2> QED BY <1>6, <2>1, <2>3, <2>4 DEF Flagged
<1>13. Kept(v, w, E)
  <2>1. E \subseteq B /\ b \in B \ E BY <1>1, <1>2
  <2>2. \A t \in {b, b + n - 1} : t \in B \ E \/ \E c \in B \ E : t = c + v[c].size - 1
    BY <1>4, <2>1
  <2>3. SameBut(v, w, {b, b + n - 1}) BY <1>6
  <2> HIDE DEF B
  <2> QED BY <1>1, <2>1, <2>2, <2>3, KeptBut
<1>14. Loose(f, M, E, M, E)
  <2>1. Area(f.unit, f.brk, M \cup E) /\ Ring(f.unit, M \cup {0}) /\ Flagged(f.unit, f.brk, M, E)
    BY <1>9, <1>10, <1>11, <1>12
  <2> QED BY <1>1, <1>9, <2>1, LooseOf
<1>15. Shape(f, M, E) BY <1>2, <1>9, <1>14 DEF Shape
<1>16. f.unit[f.freep].size >= n
  <2>1. w[b].size = n BY <1>2, <1>4, <1>6 DEF SameSizes
  <2> QED BY <1>3, <1>9, <2>1
<1>17. M \in SUBSET Units /\ f.freep \in M BY <1>1, <1>2, <1>9
<1>18. Kept(h.unit, f.unit, E) BY <1>9, <1>13 DEF v
<1>19. Freed(h, E, f, n) BY <1>15, <1>16, <1>17, <1>18 DEF Freed
<1> QED BY <1>19 DEF f, n, v

LEMMA FreeGives ==
  ASSUME NEW h, NEW L, NEW D, NEW b, Freeing(h, L, D, b)
  PROVE  Freed(h, D \ {b}, MmFree(h, b), h.unit[b].size)
<1> DEFINE x == Upper(h, b)
           y == Lower(x.heap, x.at)
           f == MmFree(h, b)
           E == D \ {b}
           n == h.unit[b].size
<1>1. f = TagFree(y, x.at) BY DEF MmFree, Upper, Lower, TagFree
<1>2. Joined(h, E, x.heap, x.at, n)
  <2>1. CASE h.unit[b - 1].isFree # 0
    <3>1. x.heap = Linked(h, b) /\ x.at = b BY <2>1 DEF Upper
    <3>2. Joined(h, D \ {b}, Linked(h, b), b, h.unit[b].size) BY LinkedJoins
    <3> QED BY <3>1, <3>2
  <2>2. CASE h.unit[b - 1].isFree = 0
    <3>1. x = JoinUpper(h, b) BY <2>2 DEF Upper
    <3>2. Joined(h, D \ {b}, JoinUpper(h, b).heap, JoinUpper(h, b).at, h.unit[b].size) BY <2>2, UpperJoins
    <3> QED BY <3>1, <3>2
  <2> QED BY <2>1, <2>2
<1>3. n \in Nat
  <2>1. Area(h.unit, h.brk, L \cup D) BY FreeingIs
  <2>2. b \in L \cup D BY DEF Freeing
  <2> QED BY <2>1, <2>2, TileTypes
<1> HIDE DEF x, f, E, n
<1>4. Joined(x.heap, E, y, x.at, x.heap.unit[x.at].size)
  <2>1. PICK M : Joining(x.heap, M, E, x.at) BY <1>2 DEF Joined
  <2> QED BY <2>1, LowerJoins
<1> HIDE DEF y
<1>5. PICK N : Joining(y, N, E, x.at) BY <1>4 DEF Joined
<1>6. Freed(y, E, TagFree(y, x.at), y.unit[x.at].size) BY <1>5, TagFrees
<1>7. /\ Kept(h.unit, x.heap.unit, E) /\ Kept(x.heap.unit, y.unit, E)
      /\ x.heap.unit[x.at].size >= n /\ y.unit[x.at].size >= x.heap.unit[x.at].size
  BY <1>2, <1>4 DEF Joined
<1>8. Kept(h.unit, f.unit, E)
  <2>1. Kept(y.unit, f.unit, E) BY <1>1, <1>6 DEF Freed
  <2>2. Kept(h.unit, y.unit, E) BY <1>7, KeptKept
  <2> QED BY <2>1, <2>2, KeptKept
<1>9. f.unit[f.freep].size >= n
  <2>1. f.unit[f.freep].size >= y.unit[x.at].size BY <1>1, <1>6 DEF Freed
  <2>2. f.unit[f.freep].size \in Nat
    <3>1. PICK M \in SUBSET Units : Shape(f, M, E) /\ f.freep \in M BY <1>1, <1>6 DEF Freed
    <3>2. Area(f.unit, f.brk, M \cup E) BY <3>1, LooseIs DEF Shape
    <3> QED BY <3>1, <3>2, TileTypes
  <2>3. x.heap.unit[x.at].size \in Nat
    <3>1. PICK M : Joining(x.heap, M, E, x.at) BY <1>2 DEF Joined
    <3>2. Area(x.heap.unit, x.heap.brk, M \cup E) /\ x.at \in M BY <3>1, JoiningIs DEF Joining
    <3> QED BY <3>2, TileTypes
  <2>4. y.unit[x.at].size \in Nat
    <3>1. Area(y.unit, y.brk, N \cup E) /\ x.at \in N BY <1>5, JoiningIs DEF Joining
    <3> QED BY <3>1, TileTypes
  <2> QED BY <1>3, <1>7, <2>1, <2>2, <2>3, <2>4
<1>10. \E M \in SUBSET Units : Shape(f, M, E) /\ f.freep \in M BY <1>1, <1>6 DEF Freed
<1>11. Freed(h, E, f, n) BY <1>8, <1>9, <1>10 DEF Freed
<1> QED BY <1>11 DEF f, E, n

-----------------------------------------------------------------------------
(* mm_malloc takes a block or its tail. *)

\* x.at is a block of n units at least that was not in use; those in use are as they were.
Given(h, n, D, x) ==
  /\ x.at \in Units /\ x.at \notin D
  /\ \E M \in SUBSET Units : Shape(x.heap, M, D \cup {x.at})
  /\ Kept(h.unit, x.heap.unit, D)
  /\ x.heap.unit[x.at].size >= n

ShapeIs(h, L, D) ==
  /\ Area(h.unit, h.brk, L \cup D) /\ h \in HeapType /\ h.unit \in [Units -> Unit]
  /\ L \cap D = {} /\ 0 \notin L /\ 0 \notin D /\ L \subseteq Units /\ D \subseteq Units
  /\ Ring(h.unit, L \cup {0}) /\ Flagged(h.unit, h.brk, L, D)
  /\ h.freep \in L \cup {0} /\ h.brk \in First .. NUnits

LEMMA Shapes ==
  ASSUME NEW h, NEW L, NEW D, Shape(h, L, D)
  PROVE  ShapeIs(h, L, D)
<1>1. Loose(h, L, D, L, D) /\ h.freep \in L \cup {0} BY DEF Shape
<1> QED BY <1>1, LooseIs DEF ShapeIs

LEMMA TakeWholeGives ==
  ASSUME NEW h, NEW L, NEW D, Shape(h, L, D), NEW b \in L, NEW n \in Nat, h.unit[b].size >= n
  PROVE  Given(h, n, D, TakeWhole(h, b))
<1> DEFINE v == h.unit
           s == v[b].size
           g == Tagged(h, b, s, 1)
           w1 == g.unit
           x == Unlinked(g, b)
           w == x.unit
           y == [x EXCEPT !.freep = IF @ = b THEN w[b].prev ELSE @]
           p == w1[b].prev
           q == w1[b].next
           B == L \cup D
           M == L \ {b}
           E == D \cup {b}
           P == L \cup {0}
<1>1. /\ Area(v, h.brk, B) /\ h \in HeapType /\ v \in [Units -> Unit]
      /\ L \cap D = {} /\ 0 \notin L /\ 0 \notin D /\ L \subseteq Units /\ D \subseteq Units
      /\ Ring(v, P) /\ Flagged(v, h.brk, L, D) /\ h.freep \in P
  BY Shapes DEF ShapeIs
<1>2. b \in B /\ b \in Units /\ b # 0 /\ b \notin D BY <1>1
<1>3. b \in Nat /\ s \in Nat /\ s >= 2 /\ b + s - 1 \in Units /\ s \in Units
  <2>1. b \in Nat /\ s \in Nat /\ s >= 2 /\ b + s - 1 \in Units BY <1>1, <1>2, TileTypes
  <2>2. s \in Units BY <1>1, <1>2 DEF Unit
  <2> QED BY <2>1, <2>2
<1>4. TakeWhole(h, b) = [heap |-> y, at |-> b] BY DEF TakeWhole
<1>5. s = v[b].size OBVIOUS
<1> HIDE DEF s
<1>6. /\ OnlyUnits(h, g) /\ SameLinks(v, w1) /\ SameSizes(v, w1)
      /\ SameBut(v, w1, {b, b + s - 1}) /\ w1[b].isFree = 1 /\ w1[b + s - 1].isFree = 1
  <2>1. h \in HeapType /\ b \in Units /\ s \in Units /\ b + s - 1 \in Units BY <1>1, <1>2, <1>3
  <2> DEFINE one == 1
  <2>2. one \in Units BY Basics
  <2> HIDE DEF one, s
  <2>3. TagsSet(h, Tagged(h, b, s, one), b, s, one) BY <2>1, <2>2, TaggedIs
  <2> QED BY <2>3 DEF one, TagsSet
<1> HIDE DEF g, w1
<1>7. g \in HeapType /\ g.brk = h.brk /\ g.freep = h.freep /\ g.unit = w1 /\ w1 \in [Units -> Unit]
  BY <1>6, HeapIs DEF OnlyUnits, w1
<1>8. /\ OnlyUnits(g, x) /\ SameSizes(w1, w) /\ SameFlags(w1, w)
      /\ SameBut(w1, w, {p, q}) /\ Without(w1, w, p, q)
  BY <1>2, <1>7, UnlinkedIs
<1> HIDE DEF x, w
<1>9. x \in HeapType /\ x.brk = h.brk /\ x.freep = h.freep /\ w = x.unit /\ w \in [Units -> Unit]
  BY <1>7, <1>8, HeapIs DEF OnlyUnits, w
<1> HIDE DEF v
<1>10. Area(w1, h.brk, B) BY <1>1, <1>6, <1>7, TiledKept
<1>11. Area(w, h.brk, B) BY <1>8, <1>9, <1>10, TiledKept
<1>12. P \subseteq Units BY <1>1, Basics
<1>13. Ring(w1, P)
  <2>1. SameOn(v, w1, P) BY <1>6, <1>12 DEF SameLinks, SameOn
  <2> QED BY <1>1, <2>1, RingKept
<1>14. Ring(w, P \ {b}) /\ p \in P \ {b} /\ q \in P \ {b}
  <2>1. b \in P /\ P # {b} BY <1>2
  <2>2. SameOn(w1, w, P \ {w1[b].prev, w1[b].next}) BY <1>8, <1>12 DEF SameBut, SameOn
  <2>3. Without(w1, w, w1[b].prev, w1[b].next) BY <1>8
  <2> HIDE DEF P
  <2> QED BY <1>13, <2>1, <2>2, <2>3, RingDelete
<1>15. w[b] = w1[b] /\ w[b].prev = p BY <1>2, <1>8, <1>14 DEF SameBut
<1> HIDE DEF p, q
<1>16. M \cup {0} = P \ {b} /\ M \cup E = B /\ M \cap E = {} BY <1>1, <1>2
<1>17. Flagged(w, h.brk, M, E)
  <2>1. Flagged(w1, h.brk, L \ {b}, D \ {b})
    <3>1. SameBut(v, w1, {b, b + v[b].size - 1}) BY <1>5, <1>6
    <3>2. L \subseteq B /\ D \subseteq B OBVIOUS
    <3> HIDE DEF B
    <3> QED BY <1>1, <1>2, <1>6, <3>1, <3>2, FlagsSet
  <2>2. D \ {b} = D BY <1>2
  <2>3. \A c \in E : c \in D \/ c = b OBVIOUS
  <2>4. w1[b].size = s BY <1>2, <1>5, <1>6 DEF SameSizes
  <2>5. Flagged(w1, h.brk, M, E)
    <3>1. w1[b].isFree = 1 /\ w1[b + w1[b].size - 1].isFree = 1 BY <1>6, <2>4
    <3> QED BY <2>1, <2>2, <2>3, <3>1 DEF Flagged
  <2>6. M \subseteq B /\ E \subseteq B BY <1>2
  <2>7. \A c \in E : w[c].size = w1[c].size
    <3>1. \A c \in E : c \in Units BY <1>1, <1>2
    <3> QED BY <1>8, <3>1 DEF SameSizes
  <2> HIDE DEF B, E, M
  <2> QED BY <1>8, <1>10, <2>5, <2>6, <2>7, FlagsKept
<1>18. Kept(v, w, D)
  <2>1. D \subseteq B /\ b \in B \ D /\ L \subseteq B \ D BY <1>1, <1>2
  <2>2. Kept(v, w1, D)
    <3>1. \A t \in {b, b + s - 1} : t \in B \ D \/ \E c \in B \ D : t = c + v[c].size - 1
      BY <1>5, <2>1
    <3>2. SameBut(v, w1, {b, b + s - 1}) BY <1>6
    <3> HIDE DEF B
    <3> QED BY <1>1, <2>1, <3>1, <3>2, KeptBut
  <2>3. Kept(w1, w, D)
    <3>1. \A t \in {p, q} : t \in B \ D \/ t = 0 BY <1>14, <2>1
    <3> HIDE DEF B
    <3> QED BY <1>8, <1>10, <2>1, <3>1, KeptBut
  <2> QED BY <2>2, <2>3, KeptKept
<1>19. y.freep \in M \cup {0} /\ y.unit = w /\ y.brk = h.brk /\ y \in HeapType
  <2>1. x = [unit |-> w, freep |-> h.freep, brk |-> h.brk] BY <1>9, HeapIs
  <2>2. y = [unit |-> w, freep |-> IF h.freep = b THEN p ELSE h.freep, brk |-> h.brk]
    BY <1>15, <2>1
  <2>3. (IF h.freep = b THEN p ELSE h.freep) \in P \ {b} BY <1>1, <1>14
  <2>4. y.freep \in P \ {b} /\ y.unit = w /\ y.brk = h.brk BY <2>2, <2>3
  <2>5. h.brk \in First .. NUnits BY <1>1, HeapIs
  <2>6. y.freep \in Units BY <1>12, <2>4
  <2>7. y \in HeapType BY <1>9, <2>2, <2>4, <2>5, <2>6 DEF HeapType
  <2> QED BY <1>16, <2>4, <2>7
<1> HIDE DEF y
<1>20. Loose(y, M, E, M, E)
  <2>1. Area(y.unit, y.brk, M \cup E) BY <1>11, <1>16, <1>19
  <2>2. Ring(y.unit, M \cup {0}) BY <1>14, <1>16, <1>19
  <2>3. Flagged(y.unit, y.brk, M, E) BY <1>17, <1>19
  <2> HIDE DEF M, E
  <2> QED BY <1>16, <1>19, <2>1, <2>2, <2>3, LooseOf
<1>21. Shape(y, M, E) BY <1>19, <1>20 DEF Shape
<1>22. M \in SUBSET Units BY <1>1
<1>23. w[b].size >= n
  <2>1. w[b].size = s BY <1>2, <1>5, <1>6, <1>8 DEF SameSizes
  <2>2. s >= n BY DEF s, v
  <2> QED BY <2>1, <2>2
<1>24. \E N \in SUBSET Units : Shape(y, N, D \cup {b}) BY <1>21, <1>22
<1>25. Kept(h.unit, y.unit, D) /\ y.unit[b].size >= n BY <1>18, <1>19, <1>23 DEF v
<1> QED BY <1>2, <1>4, <1>24, <1>25 DEF Given

\* The tail of a block is taken; the flag at the new end of the rest stays as it was.
LEMMA SplitTailGives ==
  ASSUME NEW h, NEW L, NEW D, Shape(h, L, D), NEW b \in L, NEW n \in Nat, n >= 2, h.unit[b].size >= n + 2
  PROVE  Given(h, n, D, SplitTail(h, b, n))
<1> DEFINE v == h.unit
           r == v[b].size - n
           t == b + r
           g1 == Sized(h, b, r)
           w1 == g1.unit
           g2 == Sized(g1, t, n)
           w2 == g2.unit
           g == Tagged(g2, t, n, 1)
           w == g.unit
           B == L \cup D
           C == B \cup {t}
           E == D \cup {t}
           P == L \cup {0}
<1>1. /\ Area(v, h.brk, B) /\ h \in HeapType /\ v \in [Units -> Unit]
      /\ L \cap D = {} /\ 0 \notin L /\ 0 \notin D /\ L \subseteq Units /\ D \subseteq Units
      /\ Ring(v, P) /\ Flagged(v, h.brk, L, D) /\ h.freep \in P
  BY Shapes DEF ShapeIs
<1>2. b \in B /\ b \in Units /\ b \notin D BY <1>1
<1>3. /\ b \in Nat /\ b >= 3 /\ v[b].size \in Nat /\ v[b].size >= n + 2 /\ b + v[b].size <= h.brk
      /\ h.brk \in Nat /\ h.brk <= NUnits
  BY <1>1, <1>2, TileTypes
<1>4. SplitTail(h, b, n) = [heap |-> g, at |-> t] BY DEF SplitTail
<1>5. r = v[b].size - n /\ t = b + r OBVIOUS
<1> HIDE DEF r, t
<1>6. r \in Nat /\ r >= 2 /\ v[b].size = r + n /\ t \in Nat /\ t > b /\ t + n <= h.brk
  BY <1>3, <1>5
<1>7. r \in Units /\ n \in Units /\ t \in Units
  <2>1. b + r + n <= h.brk /\ t = b + r /\ b \in Nat
    <3> HIDE DEF v
    <3> QED BY <1>3, <1>5, <1>6
  <2>2. h.brk \in Nat /\ h.brk <= NUnits /\ r \in Nat /\ NUnits \in Nat BY <1>3, <1>6, Basics
  <2>3. r <= NUnits /\ n <= NUnits /\ t <= NUnits BY <2>1, <2>2
  <2> QED BY <1>6, <2>3, Basics
<1>8. b + r - 1 \in Units /\ t + n - 1 \in Units /\ b + r - 1 < t
  <2>1. b + r - 1 \in Nat /\ b + r - 1 <= NUnits /\ t + n - 1 \in Nat /\ t + n - 1 <= NUnits
    <3>1. b + r + n <= h.brk /\ t = b + r /\ b \in Nat
      <4> HIDE DEF v
      <4> QED BY <1>3, <1>5, <1>6
    <3>2. h.brk \in Nat /\ h.brk <= NUnits /\ r \in Nat /\ r >= 2 /\ NUnits \in Nat BY <1>3, <1>6, Basics
    <3> QED BY <3>1, <3>2
  <2>2. b + r - 1 < t BY <1>3, <1>5, <1>6
  <2> QED BY <2>1, <2>2, Basics
<1>9. /\ OnlyUnits(h, g1) /\ SameLinks(v, w1) /\ SameFlags(v, w1)
      /\ SameBut(v, w1, {b, b + r - 1}) /\ w1[b].size = r /\ w1[b + r - 1].size = r
  <2>1. h \in HeapType /\ b \in Units /\ r \in Units /\ b + r - 1 \in Units BY <1>1, <1>2, <1>7, <1>8
  <2> QED BY <2>1, SizedIs
<1> HIDE DEF g1, w1
<1>10. g1 \in HeapType /\ g1.brk = h.brk /\ g1.freep = h.freep /\ g1.unit = w1 /\ w1 \in [Units -> Unit]
  BY <1>9, HeapIs DEF OnlyUnits, w1
<1>11. /\ OnlyUnits(g1, g2) /\ SameLinks(w1, w2) /\ SameFlags(w1, w2)
       /\ SameBut(w1, w2, {t, t + n - 1}) /\ w2[t].size = n /\ w2[t + n - 1].size = n
  <2>1. g1 \in HeapType /\ t \in Units /\ n \in Units /\ t + n - 1 \in Units BY <1>7, <1>8, <1>10
  <2> QED BY <1>10, <2>1, SizedIs
<1> HIDE DEF g2, w2
<1>12. g2 \in HeapType /\ g2.brk = h.brk /\ g2.freep = h.freep /\ g2.unit = w2 /\ w2 \in [Units -> Unit]
  BY <1>10, <1>11, HeapIs DEF OnlyUnits, w2
<1>13. /\ OnlyUnits(g2, g) /\ SameLinks(w2, w) /\ SameSizes(w2, w)
       /\ SameBut(w2, w, {t, t + n - 1}) /\ w[t].isFree = 1 /\ w[t + n - 1].isFree = 1
  <2>1. g2 \in HeapType /\ t \in Units /\ n \in Units /\ t + n - 1 \in Units BY <1>7, <1>8, <1>12
  <2> DEFINE one == 1
  <2>2. one \in Units BY Basics
  <2> HIDE DEF one
  <2>3. TagsSet(g2, Tagged(g2, t, n, one), t, n, one) BY <2>1, <2>2, TaggedIs
  <2> QED BY <1>12, <2>3 DEF one, TagsSet
<1> HIDE DEF g, w
<1>14. g \in HeapType /\ g.brk = h.brk /\ g.freep = h.freep /\ w = g.unit /\ w \in [Units -> Unit]
  BY <1>12, <1>13, HeapIs DEF OnlyUnits, w
<1> HIDE DEF v
<1>15. Area(w2, h.brk, C) /\ t \notin B /\ \A x \in B \ {b} : w2[x].size = v[x].size
  <2>1. w2[b].size = r /\ w2[b + r - 1].size = r /\ w2[t].size = n /\ w2[t + n - 1].size = n
    <3>1. b # t /\ b # t + n - 1 /\ b + r - 1 # t /\ b + r - 1 # t + n - 1 BY <1>3, <1>6, <1>8
    <3>2. w2[b] = w1[b] /\ w2[b + r - 1] = w1[b + r - 1] BY <1>2, <1>8, <1>11, <3>1 DEF SameBut
    <3> QED BY <1>9, <1>11, <3>2
  <2>2. \A u \in Units \ {b, b + r - 1, t, t + n - 1} : w2[u].size = v[u].size
    BY <1>9, <1>11 DEF SameBut
  <2>3. t = b + r /\ t + n - 1 = b + r + n - 1 BY <1>3, <1>5, <1>6
  <2>4. Cut(v, w2, b, r, n)
    <3> HIDE DEF B
    <3> QED BY <2>1, <2>2, <2>3 DEF Cut
  <2> HIDE DEF B
  <2>5. Area(w2, h.brk, B \cup {b + r}) /\ b + r \notin B /\ \A x \in B \ {b} : w2[x].size = v[x].size
    BY <1>1, <1>2, <1>6, <1>12, <2>4, SplitTiled
  <2> QED BY <1>5, <2>5
<1>16. Area(w, h.brk, C) BY <1>13, <1>14, <1>15, TiledKept
<1>17. P \subseteq Units BY <1>1, Basics
<1>18. Ring(w, P)
  <2>1. SameOn(v, w, P) BY <1>9, <1>11, <1>13, <1>17 DEF SameLinks, SameOn
  <2> QED BY <1>1, <2>1, RingKept
<1>19. L \cup E = C /\ L \cap E = {} /\ t \notin D /\ t \notin L BY <1>1, <1>15
<1>20. Flagged(w, h.brk, L, E)
  <2>1. SameFlags(v, w2) BY <1>9, <1>11 DEF SameFlags
  <2>2. Flagged(w2, h.brk, L, D)
    <3>1. L \subseteq B /\ D \subseteq B /\ L \subseteq L OBVIOUS
    <3>2. \A c \in D : w2[c].size = v[c].size BY <1>2, <1>15
    <3> HIDE DEF B
    <3> QED BY <1>1, <2>1, <3>1, <3>2, FlagsKept
  <2>3. Flagged(w, h.brk, L \ {t}, D \ {t})
    <3>1. SameBut(w2, w, {t, t + w2[t].size - 1}) BY <1>11, <1>13
    <3>2. L \subseteq C /\ D \subseteq C /\ t \in C OBVIOUS
    <3> HIDE DEF C
    <3> QED BY <1>13, <1>15, <2>2, <3>1, <3>2, FlagsSet
  <2>4. L \ {t} = L /\ D \ {t} = D BY <1>19
  <2>5. w[t].size = n BY <1>7, <1>11, <1>13 DEF SameSizes
  <2>6. w[t].isFree = 1 /\ w[t + w[t].size - 1].isFree = 1 BY <1>13, <2>5
  <2> QED BY <2>3, <2>4, <2>6 DEF Flagged
<1>21. Kept(v, w, D)
  <2>1. D \subseteq B /\ b \in B \ D BY <1>1, <1>2
  <2>2. SameBut(v, w, {b, b + r - 1, t, t + n - 1}) BY <1>9, <1>11, <1>13 DEF SameBut
  <2>3. ASSUME NEW c \in D, NEW i \in 0 .. v[c].size - 1
        PROVE  c + i \in Units /\ w[c + i] = v[c + i]
    <3>1. c \in B /\ c # b BY <2>1
    <3>2. c + i \in Units BY <1>1, <3>1, InsideOne
    <3>3. \A j \in 0 .. v[b].size - 1 : c + i # b + j
      <4> HIDE DEF B
      <4> QED BY <1>1, <1>2, <3>1, TilesApart
    <3>4. /\ 0 \in 0 .. v[b].size - 1 /\ b + 0 = b
          /\ r - 1 \in 0 .. v[b].size - 1 /\ b + (r - 1) = b + r - 1
          /\ r \in 0 .. v[b].size - 1 /\ b + r = t
          /\ r + n - 1 \in 0 .. v[b].size - 1 /\ b + (r + n - 1) = t + n - 1
      BY <1>3, <1>5, <1>6
    <3>5. c + i \notin {b, b + r - 1, t, t + n - 1} BY <3>3, <3>4
    <3> QED BY <2>2, <3>2, <3>5 DEF SameBut
  <2>4. ASSUME NEW c \in D PROVE w[c] = v[c] /\ \A i \in 1 .. v[c].size - 1 : w[c + i] = v[c + i]
    <3>1. c \in B BY <2>1
    <3>2. c \in Nat /\ v[c].size \in Nat /\ v[c].size >= 2 BY <1>1, <3>1, TileTypes
    <3>3. 0 \in 0 .. v[c].size - 1 /\ c + 0 = c BY <3>2
    <3>4. \A i \in 1 .. v[c].size - 1 : i \in 0 .. v[c].size - 1 BY <3>2
    <3>5. w[c + 0] = v[c + 0] BY <2>3, <3>3
    <3>6. w[c] = v[c] BY <3>3, <3>5
    <3> QED BY <2>3, <3>4, <3>6
  <2> QED BY <2>4 DEF Kept
<1>22. Loose(g, L, E, L, E)
  <2>1. Area(g.unit, g.brk, L \cup E) BY <1>14, <1>16, <1>19
  <2>2. Ring(g.unit, L \cup {0}) BY <1>14, <1>18
  <2>3. Flagged(g.unit, g.brk, L, E) BY <1>14, <1>20
  <2> HIDE DEF E
  <2> QED BY <1>14, <1>19, <2>1, <2>2, <2>3, LooseOf
<1>23. Shape(g, L, E) BY <1>1, <1>14, <1>22 DEF Shape
<1>24. L \in SUBSET Units BY <1>1
<1>25. w[t].size >= n
  <2>1. w[t].size = n BY <1>7, <1>11, <1>13 DEF SameSizes
  <2> QED BY <2>1
<1>26. \E N \in SUBSET Units : Shape(g, N, D \cup {t}) BY <1>23, <1>24
<1>27. Kept(h.unit, g.unit, D) /\ g.unit[t].size >= n BY <1>14, <1>21, <1>25 DEF v
<1> QED BY <1>4, <1>7, <1>19, <1>26, <1>27 DEF Given

LEMMA CarveGives ==
  ASSUME NEW h, NEW L, NEW D, Shape(h, L, D), NEW b \in L, NEW n \in Nat, n >= 2, h.unit[b].size >= n
  PROVE  Given(h, n, D, Carve(h, b, n))
<1>1. CASE h.unit[b].size < n + 2
  <2>1. Carve(h, b, n) = TakeWhole(h, b) BY <1>1 DEF Carve
  <2> QED BY <2>1, TakeWholeGives
<1>2. CASE ~ (h.unit[b].size < n + 2)
  <2>1. Area(h.unit, h.brk, L \cup D) BY Shapes DEF ShapeIs
  <2>2. h.unit[b].size \in Nat
    <3>1. b \in L \cup D OBVIOUS
    <3> QED BY <2>1, <3>1, TileTypes
  <2>3. h.unit[b].size >= n + 2 BY <1>2, <2>2
  <2>4. Carve(h, b, n) = SplitTail(h, b, n) BY <1>2 DEF Carve
  <2> QED BY <2>3, <2>4, SplitTailGives
<1> QED BY <1>1, <1>2

-----------------------------------------------------------------------------
(* morecore adds a block at the break and frees it. *)

\* What is asked for is less than 4 GiB: as an int it is what it was, or negative.
LEMMA Increments ==
  ASSUME NEW n \in Nat, n < 2 * IntUnits
  PROVE  AsInt(n) \in Int /\ (AsInt(n) >= 0 => AsInt(n) = n)
<1> DEFINE d == 2 * IntUnits
           m == n + IntUnits
<1>1. IntUnits \in Nat /\ d \in Nat \ {0} /\ m \in Nat BY RequestsAssumption
<1>2. AsInt(n) = (m % d) - IntUnits BY DEF AsInt
<1>3. CASE n < IntUnits
  <2>1. m < d BY <1>1, <1>3
  <2> HIDE DEF m, d
  <2>2. m % d = m BY <1>1, <2>1
  <2> QED BY <1>1, <1>2, <2>2 DEF m
<1>4. CASE n >= IntUnits
  <2>1. m = d + (m - d) /\ m - d \in Nat /\ m - d < d /\ m - d < IntUnits BY <1>1, <1>4
  <2> HIDE DEF m, d
  <2>2. m % d = m - d BY <1>1, <2>1
  <2> QED BY <1>1, <1>2, <2>1, <2>2
<1> QED BY <1>1, <1>3, <1>4

Extended(h, nu) ==
  [Tagged(Sized(mem_sbrk(h, nu).heap, h.brk, nu), h.brk, nu, 0) EXCEPT !.unit[h.brk + nu].isFree = 1]

LEMMA ExtendedFreeing ==
  ASSUME NEW h, NEW L, NEW D, Shape(h, L, D), NEW nu \in Nat, nu >= 2, h.brk + nu <= NUnits,
         AsInt(nu) = nu
  PROVE  /\ Freeing(Extended(h, nu), L, D \cup {h.brk}, h.brk) /\ h.brk \notin D
         /\ Kept(h.unit, Extended(h, nu).unit, D)
         /\ Extended(h, nu).unit[h.brk].size = nu
<1> DEFINE v == h.unit
           b == h.brk
           e == b + nu
           g0 == mem_sbrk(h, nu).heap
           g1 == Sized(g0, b, nu)
           w1 == g1.unit
           g2 == Tagged(g1, b, nu, 0)
           w2 == g2.unit
           w == [w2 EXCEPT ![e].isFree = 1]
           g == Extended(h, nu)
           B == L \cup D
           E == D \cup {b}
           P == L \cup {0}
<1>1. /\ Area(v, b, B) /\ h \in HeapType /\ v \in [Units -> Unit]
      /\ L \cap D = {} /\ 0 \notin L /\ 0 \notin D /\ L \subseteq Units /\ D \subseteq Units
      /\ Ring(v, P) /\ Flagged(v, b, L, D) /\ h.freep \in P /\ b \in First .. NUnits
  BY Shapes DEF ShapeIs
<1>2. h = [unit |-> v, freep |-> h.freep, brk |-> b] /\ h.freep \in Units BY <1>1, HeapIs
<1>3. g0 = [unit |-> v, freep |-> h.freep, brk |-> e] BY <1>2 DEF mem_sbrk
<1>4. b \in Nat /\ b >= 3 /\ e \in Nat /\ e <= NUnits /\ e >= 3 /\ e > b BY <1>1, Basics
<1>5. b \in Units /\ nu \in Units /\ e \in Units /\ b + nu - 1 \in Units /\ b + nu - 1 >= b /\ b + nu - 1 < e
  <2>1. nu <= NUnits /\ b <= NUnits /\ b + nu - 1 \in Nat /\ b + nu - 1 <= NUnits BY <1>4, Basics
  <2>2. b + nu - 1 >= b /\ b + nu - 1 < e BY <1>4
  <2> QED BY <1>4, <2>1, <2>2, Basics
<1>6. g0 \in HeapType /\ g0.unit = v /\ g0.freep = h.freep /\ g0.brk = e
  <2>1. e \in First .. NUnits BY <1>4, Basics
  <2> HIDE DEF e, g0
  <2> QED BY <1>1, <1>2, <1>3, <2>1 DEF HeapType
<1>0. e = b + nu OBVIOUS
<1>7. g = [g2 EXCEPT !.unit[e].isFree = 1] BY DEF Extended
<1> HIDE DEF e, g0
<1>8. /\ OnlyUnits(g0, g1) /\ SameLinks(v, w1) /\ SameFlags(v, w1)
      /\ SameBut(v, w1, {b, b + nu - 1}) /\ w1[b].size = nu /\ w1[b + nu - 1].size = nu
  <2>1. g0 \in HeapType /\ b \in Units /\ nu \in Units /\ b + nu - 1 \in Units BY <1>5, <1>6
  <2> HIDE DEF b, v
  <2> QED BY <1>6, <2>1, SizedIs
<1> HIDE DEF g1, w1
<1>9. g1 \in HeapType /\ g1.brk = e /\ g1.freep = h.freep /\ g1.unit = w1 /\ w1 \in [Units -> Unit]
  BY <1>6, <1>8, HeapIs DEF OnlyUnits, w1
<1>10. /\ OnlyUnits(g1, g2) /\ SameLinks(w1, w2) /\ SameSizes(w1, w2)
       /\ SameBut(w1, w2, {b, b + nu - 1}) /\ w2[b].isFree = 0
  <2>1. g1 \in HeapType /\ b \in Units /\ nu \in Units /\ b + nu - 1 \in Units BY <1>5, <1>9
  <2>2. 0 \in Units BY Basics
  <2> HIDE DEF b
  <2>3. TagsSet(g1, g2, b, nu, 0) BY <2>1, <2>2, TaggedIs
  <2> QED BY <1>9, <2>3 DEF TagsSet
<1> HIDE DEF g2, w2
<1>11. g2 \in HeapType /\ g2.brk = e /\ g2.freep = h.freep /\ g2.unit = w2 /\ w2 \in [Units -> Unit]
  BY <1>9, <1>10, HeapIs DEF OnlyUnits, w2
<1>12. /\ w \in [Units -> Unit] /\ w[e].isFree = 1
       /\ \A u \in Units : /\ w[u].next = w2[u].next /\ w[u].prev = w2[u].prev /\ w[u].size = w2[u].size
                           /\ u # e => w[u] = w2[u]
  <2>1. w = WithFlag(w2, e, 1) BY DEF WithFlag
  <2>2. 1 \in Units BY Basics
  <2> HIDE DEF w
  <2> QED BY <1>5, <1>11, <2>1, <2>2, FlagSet
<1>13. g = Rewritten(g2, w)
  <2>1. g2 = [unit |-> w2, freep |-> g2.freep, brk |-> g2.brk] BY <1>11, HeapIs
  <2> HIDE DEF g
  <2> QED BY <1>7, <2>1 DEF Rewritten
<1> HIDE DEF w
<1>14. g \in HeapType /\ g.unit = w /\ g.freep = h.freep /\ g.brk = e
  <2> HIDE DEF g
  <2> QED BY <1>11, <1>12, <1>13, RewrittenIs
<1> HIDE DEF g, v, b
<1>15. \A u \in Units : u < b => w[u] = v[u]
  <2> SUFFICES ASSUME NEW u \in Units, u < b PROVE w[u] = v[u] OBVIOUS
  <2>1. u \in Nat BY Basics
  <2>2. u # b /\ u # b + nu - 1 /\ u # e BY <1>4, <1>5, <2>1, Basics
  <2> QED BY <1>8, <1>10, <1>12, <2>2 DEF SameBut
<1>16. Area(w, e, B \cup {b})
  <2>1. w[b].size = nu /\ w[b + nu - 1].size = nu BY <1>5, <1>8, <1>10, <1>12 DEF SameSizes
  <2>2. \A u \in Units : u < b => w[u].size = v[u].size BY <1>15
  <2>3. b + nu <= NUnits BY DEF b
  <2>4. Area(v, b, B) /\ w \in [Units -> Unit] /\ nu \in Nat /\ nu >= 2 BY <1>1, <1>12
  <2> HIDE DEF B
  <2>5. Area(w, b + nu, B \cup {b}) BY <2>1, <2>2, <2>3, <2>4, ExtendTiled
  <2> QED BY <1>0, <2>5
<1>17. \A x \in B : x \in Nat /\ x < b /\ x \in Units BY <1>1, TileTypes
<1>18. b \notin B /\ P \subseteq Units BY <1>1, <1>4, <1>17, Basics
<1>19. Ring(w, P)
  <2>1. SameOn(v, w, P) BY <1>8, <1>10, <1>12, <1>18 DEF SameLinks, SameOn
  <2> QED BY <1>1, <2>1, RingKept
<1>20. Flagged(w, e, L, D)
  <2>1. /\ v[0].isFree = 1 /\ v[2].isFree = 1
        /\ \A x \in L : v[x].isFree = 0
        /\ \A x \in D : v[x].isFree = 1 /\ v[x + v[x].size - 1].isFree = 1
    BY <1>1 DEF Flagged
  <2>2. w[0] = v[0] /\ w[2] = v[2] BY <1>4, <1>15, Basics
  <2>3. \A x \in B : w[x] = v[x] BY <1>15, <1>17
  <2>4. ASSUME NEW x \in D PROVE w[x + w[x].size - 1] = v[x + v[x].size - 1]
    <3>1. x \in B OBVIOUS
    <3>2. /\ x \in Nat /\ v[x].size \in Nat /\ x + v[x].size <= b /\ x + v[x].size - 1 \in Units
      BY <1>1, <3>1, TileTypes
    <3>3. x + v[x].size - 1 < b BY <1>4, <3>2
    <3> QED BY <1>15, <2>3, <3>2, <3>3
  <2> QED BY <1>12, <2>1, <2>2, <2>3, <2>4 DEF Flagged
<1>21. Kept(v, w, D)
  <2>1. SameBut(v, w, {b, b + nu - 1, e}) BY <1>8, <1>10, <1>12 DEF SameBut
  <2>2. \A t \in {b, b + nu - 1, e} : t >= b BY <1>4, <1>5
  <2>3. D \subseteq B OBVIOUS
  <2> HIDE DEF B
  <2> QED BY <1>1, <2>1, <2>2, <2>3, KeptBut
<1>22. L \cup E = B \cup {b} /\ L \cap E = {} /\ E \ {b} = D /\ b \in E /\ b \notin D BY <1>1, <1>18
<1>23. Loose(g, L, E, L, D)
  <2>1. Area(g.unit, g.brk, L \cup E) BY <1>14, <1>16, <1>22
  <2>2. Ring(g.unit, L \cup {0}) BY <1>14, <1>19
  <2>3. Flagged(g.unit, g.brk, L, D) BY <1>14, <1>20
  <2> HIDE DEF E
  <2> QED BY <1>14, <1>22, <2>1, <2>2, <2>3, LooseOf
<1>24. Freeing(g, L, E, b) BY <1>1, <1>14, <1>22, <1>23 DEF Freeing
<1>25. w[b].size = nu BY <1>5, <1>8, <1>10, <1>12 DEF SameSizes
<1> QED BY <1>14, <1>21, <1>22, <1>24, <1>25 DEF g, v, b

\* morecore leaves a free block at freep that is large enough.
LEMMA MorecoreFrees ==
  ASSUME NEW h, NEW L, NEW D, Shape(h, L, D), NEW n \in Nat, n >= 2, n < 2 * IntUnits,
         morecore(h, n).ok
  PROVE  Freed(h, D, morecore(h, n).heap, n)
<1> DEFINE nu == Max({n, PageUnits})
           g == Extended(h, nu)
           f == MmFree(g, h.brk)
<1>1. nu \in Nat /\ nu >= n /\ nu < 2 * IntUnits
  <2>1. PageUnits \in Nat /\ PageUnits < 2 * IntUnits /\ IntUnits \in Nat
    BY HeapAssumption, RequestsAssumption
  <2>2. nu \in {n, PageUnits} /\ nu \in Nat /\ nu >= n BY <2>1, MaxOfTwo
  <2> HIDE DEF nu
  <2> QED BY <2>1, <2>2
<1>2. h.brk + nu <= NUnits /\ AsInt(nu) = nu /\ morecore(h, n).heap = f
  <2>1. mem_sbrk(h, nu).ok BY DEF morecore
  <2> HIDE DEF nu
  <2>2. AsInt(nu) = nu BY <1>1, <2>1, Increments DEF mem_sbrk
  <2>3. h.brk + nu <= NUnits BY <2>1, <2>2 DEF mem_sbrk
  <2> USE DEF nu
  <2> QED BY <2>1, <2>2, <2>3 DEF morecore, Extended
<1> HIDE DEF nu
<1>3. nu >= 2 BY <1>1
<1>4. /\ Freeing(g, L, D \cup {h.brk}, h.brk) /\ h.brk \notin D
      /\ Kept(h.unit, g.unit, D) /\ g.unit[h.brk].size = nu
  BY <1>1, <1>2, <1>3, ExtendedFreeing
<1> HIDE DEF g
<1>5. Freed(g, (D \cup {h.brk}) \ {h.brk}, f, nu)
  <2>1. Freed(g, (D \cup {h.brk}) \ {h.brk}, f, g.unit[h.brk].size) BY <1>4, FreeGives
  <2> QED BY <1>4, <2>1
<1>6. (D \cup {h.brk}) \ {h.brk} = D BY <1>4
<1> HIDE DEF f
<1>7. Freed(g, D, f, nu) BY <1>5, <1>6
<1>8. Kept(h.unit, f.unit, D) BY <1>4, <1>7, KeptKept DEF Freed
<1>9. f.unit[f.freep].size >= n
  <2>1. PICK M \in SUBSET Units : Shape(f, M, D) /\ f.freep \in M BY <1>7 DEF Freed
  <2>2. Area(f.unit, f.brk, M \cup D) BY <2>1, Shapes DEF ShapeIs
  <2>3. f.unit[f.freep].size \in Nat BY <2>1, <2>2, TileTypes
  <2>4. f.unit[f.freep].size >= nu BY <1>7 DEF Freed
  <2> QED BY <1>1, <2>3, <2>4
<1>10. Freed(h, D, f, n) BY <1>7, <1>8, <1>9 DEF Freed
<1> QED BY <1>2, <1>10

-----------------------------------------------------------------------------
(* Following the list, and going from size to size. *)

LEMMA MostIs == Most \in Nat /\ 2 * Most <= NUnits /\ NUnits <= 2 * Most + 1 /\ Most >= 1
<1>1. NUnits \in Nat /\ NUnits >= 3 BY HeapAssumption
<1> QED BY <1>1 DEF Most

\* A function is applied again and again: if there were a number of times that it
\* could not be, the least such number would be one more than a number that is not.
Iterated(U, a, g, n) ==
  \E f \in [0 .. n -> U] : f[0] = a /\ \A k \in 1 .. n : f[k] = g[f[k - 1]]

LEMMA Iterates ==
  ASSUME NEW U, NEW a \in U, NEW g \in [U -> U], NEW n \in Nat
  PROVE  Iterated(U, a, g, n)
<1> USE DEF Iterated
<1> DEFINE Is(f, m) == f \in [0 .. m -> U] /\ f[0] = a /\ \A k \in 1 .. m : f[k] = g[f[k - 1]]
           Missing == {m \in Nat : ~ \E f : Is(f, m)}
<1>1. ASSUME Missing # {} PROVE FALSE
  <2> HIDE DEF Is
  <2>1. PICK m \in Missing : \A l \in Missing : m <= l
    <3>1. Missing \subseteq Nat OBVIOUS
    <3> HIDE DEF Missing
    <3> QED BY <1>1, <3>1, LeastOf
  <2>2. m \in Nat /\ ~ \E f : Is(f, m) BY <2>1
  <2>3. m # 0
    <3>1. Is([k \in 0 .. 0 |-> a], 0) BY DEF Is
    <3> QED BY <2>2, <3>1
  <2>4. m - 1 \in Nat BY <2>2, <2>3
  <2>5. m - 1 \notin Missing
    <3> HIDE DEF Missing
    <3> QED BY <2>1, <2>2, <2>4
  <2>6. PICK f : Is(f, m - 1) BY <2>4, <2>5
  <2> DEFINE e == [k \in 0 .. m |-> IF k = m THEN g[f[m - 1]] ELSE f[k]]
  <2>7. f \in [0 .. m - 1 -> U] /\ f[m - 1] \in U BY <2>4, <2>6 DEF Is
  <2>8. e \in [0 .. m -> U] BY <2>2, <2>7
  <2>9. e[0] = a BY <2>3, <2>4, <2>6 DEF Is
  <2>10. ASSUME NEW k \in 1 .. m PROVE e[k] = g[e[k - 1]]
    <3>1. CASE k = m BY <2>2, <2>3, <2>4, <3>1
    <3>2. CASE k # m
      <4>1. k \in 1 .. m - 1 /\ k - 1 \in 0 .. m /\ k - 1 # m /\ k \in 0 .. m BY <2>4, <3>2
      <4>2. f[k] = g[f[k - 1]] BY <2>6, <4>1 DEF Is
      <4> QED BY <3>2, <4>1, <4>2
    <3> QED BY <3>1, <3>2
  <2>11. Is(e, m)
    <3> HIDE DEF e
    <3> QED BY <2>8, <2>9, <2>10 DEF Is
  <2> QED BY <2>2, <2>11
<1> QED BY <1>1

LEMMA NthIs ==
  ASSUME NEW h, NEW U, h.freep \in U, \A p \in U : h.unit[p].next \in U
  PROVE  /\ Nth(h) \in [0 .. Most -> U]
         /\ Nth(h)[0] = h.freep
         /\ \A k \in 1 .. Most : Nth(h)[k] = h.unit[Nth(h)[k - 1]].next
<1> DEFINE g == [p \in U |-> h.unit[p].next]
           Is(f) == f = [k \in 0 .. Most |-> IF k = 0 THEN h.freep ELSE h.unit[f[k - 1]].next]
<1>1. Most \in Nat BY MostIs
<1>2. g \in [U -> U] OBVIOUS
<1>3. PICK f \in [0 .. Most -> U] :
             f[0] = h.freep /\ \A k \in 1 .. Most : f[k] = g[f[k - 1]]
  <2> HIDE DEF g
  <2>1. Iterated(U, h.freep, g, Most) BY <1>1, <1>2, Iterates
  <2> QED BY <2>1 DEF Iterated
<1>4. ASSUME NEW k \in 1 .. Most PROVE f[k] = h.unit[f[k - 1]].next
  <2>1. k - 1 \in 0 .. Most BY <1>1
  <2>2. f[k - 1] \in U BY <2>1
  <2> QED BY <1>3, <2>2
<1>5. Is(f)
  <2>1. f = [k \in 0 .. Most |-> f[k]] OBVIOUS
  <2>2. ASSUME NEW k \in 0 .. Most
        PROVE  f[k] = IF k = 0 THEN h.freep ELSE h.unit[f[k - 1]].next
    <3>1. k # 0 => k \in 1 .. Most BY <1>1
    <3> QED BY <1>3, <1>4, <3>1
  <2> QED BY <2>1, <2>2
<1>6. Is(Nth(h)) BY <1>5 DEF Nth
<1>7. 0 \in 0 .. Most /\ 1 .. Most \subseteq 0 .. Most /\ 0 \notin 1 .. Most
  BY <1>1
<1> DEFINE e == Nth(h)
<1>8. /\ DOMAIN e = 0 .. Most
      /\ e[0] = h.freep
      /\ \A k \in 1 .. Most : e[k] = h.unit[e[k - 1]].next
      /\ e = [k \in 0 .. Most |-> e[k]]
  <2>1. Is(e) BY <1>6
  <2> HIDE DEF e
  <2> QED BY <1>7, <2>1
<1>9. \A k \in 0 .. Most : e[k] \in U
  <2> DEFINE Out == {k \in Nat : k <= Most /\ e[k] \notin U}
  <2> HIDE DEF e
  <2>1. ASSUME Out # {} PROVE FALSE
    <3>1. PICK k \in Out : \A l \in Out : k <= l
      <4>1. Out \subseteq Nat OBVIOUS
      <4> HIDE DEF Out
      <4> QED BY <2>1, <4>1, LeastOf
    <3>2. k # 0 BY <1>8, <3>1
    <3>3. k \in 1 .. Most /\ k - 1 \in Nat /\ k - 1 <= Most BY <1>1, <3>1, <3>2
    <3>4. k - 1 \notin Out
      <4> HIDE DEF Out
      <4> QED BY <3>1, <3>3
    <3>5. e[k - 1] \in U BY <3>3, <3>4
    <3> QED BY <1>8, <3>1, <3>3, <3>5
  <2> QED BY <1>1, <2>1
<1>10. e \in [0 .. Most -> U]
  <2> HIDE DEF e
  <2> QED BY <1>8, <1>9
<1> QED BY <1>8, <1>10

-----------------------------------------------------------------------------
(* mm_malloc. *)

LEMMA MallocGives ==
  ASSUME NEW h, NEW L, NEW D, Shape(h, L, D), NEW n \in 0 .. MaxRequest, MmMalloc(h, n).ok
  PROVE  Given(h, n + 2, D, MmMalloc(h, n))
<1> DEFINE m == n + 2
           nth == Nth(h)
           found == {k \in 0 .. Most : Fits(h, nth[k], m)}
           more == morecore(h, m)
           x == MmMalloc(h, n)
<1>1. m \in Nat /\ m >= 2 /\ m < 2 * IntUnits /\ mm_units(n) = m
  BY HeapAssumption, RequestsAssumption DEF mm_units
<1>2. /\ Ring(h.unit, L \cup {0}) /\ Flagged(h.unit, h.brk, L, D) /\ h.freep \in L \cup {0}
  BY Shapes DEF ShapeIs
<1>3. nth \in [0 .. Most -> L \cup {0}]
  <2> DEFINE P == L \cup {0}
  <2>1. h.freep \in P /\ \A p \in P : h.unit[p].next \in P BY <1>2 DEF Ring
  <2> HIDE DEF P
  <2> QED BY <2>1, NthIs DEF P
<1> DEFINE y == Carve(h, nth[Min(found)], m)
           z == Carve(more.heap, more.heap.freep, m)
<1>4. x = IF found # {} THEN [ok |-> TRUE, heap |-> y.heap, at |-> y.at]
          ELSE IF more.ok THEN [ok |-> TRUE, heap |-> z.heap, at |-> z.at]
          ELSE [ok |-> FALSE, heap |-> h, at |-> 0]
  <2> HIDE DEF m
  <2> QED BY <1>1 DEF MmMalloc
<1>5. x.ok OBVIOUS
<1> HIDE DEF m, x
<1>6. CASE found # {}
  <2> DEFINE b == nth[Min(found)]
  <2>1. Min(found) \in found
    <3>1. found \subseteq Nat BY MostIs
    <3> HIDE DEF found
    <3> QED BY <1>6, <3>1, MinIs
  <2>2. Fits(h, b, m) /\ b \in L \cup {0} BY <1>3, <2>1
  <2>3. x.heap = y.heap /\ x.at = y.at BY <1>4, <1>6
  <2> HIDE DEF b, found
  <2>4. b \in L /\ h.unit[b].size >= m
    <3>1. h.unit[0].isFree = 1 BY <1>2 DEF Flagged
    <3> QED BY <2>2, <3>1 DEF Fits
  <2>5. Given(h, m, D, Carve(h, b, m)) BY <1>1, <2>4, CarveGives
  <2>6. Given(h, m, D, y) BY <2>5 DEF b
  <2> HIDE DEF y
  <2>7. Given(h, m, D, x) BY <2>3, <2>6 DEF Given
  <2> QED BY <2>7 DEF x, m
<1>7. CASE found = {}
  <2>1. more.ok /\ x.heap = z.heap /\ x.at = z.at BY <1>4, <1>5, <1>7
  <2> DEFINE g == more.heap
  <2>2. Freed(h, D, g, m) BY <1>1, <2>1, MorecoreFrees
  <2> HIDE DEF g
  <2>3. PICK M \in SUBSET Units : Shape(g, M, D) /\ g.freep \in M BY <2>2 DEF Freed
  <2>4. g.unit[g.freep].size >= m /\ Kept(h.unit, g.unit, D) BY <2>2 DEF Freed
  <2>5. Given(g, m, D, Carve(g, g.freep, m)) BY <1>1, <2>3, <2>4, CarveGives
  <2>6. Given(g, m, D, z) BY <2>5 DEF g
  <2> HIDE DEF z
  <2>7. Kept(h.unit, z.heap.unit, D) BY <2>4, <2>6, KeptKept DEF Given
  <2>8. Given(h, m, D, x) BY <2>1, <2>6, <2>7 DEF Given
  <2> QED BY <2>8 DEF x, m
<1> QED BY <1>6, <1>7

-----------------------------------------------------------------------------
(* The client writes into what it holds. *)

\* A write inside a block in use.
WritesInside(h, b, w) ==
  /\ w \in [Units -> Unit]
  /\ \A u \in Units : (\A i \in 1 .. h.unit[b].size - 2 : u # b + i) => w[u] = h.unit[u]

WithUnits(h, w) == [h EXCEPT !.unit = w]

Wrote(h, L, D, b, w, g) ==
  /\ Shape(g, L, D) /\ g.unit = w
  /\ Kept(h.unit, w, D \ {b}) /\ w[b] = h.unit[b]

LEMMA WriteInside ==
  ASSUME NEW h, NEW L, NEW D, Shape(h, L, D), NEW b \in D, NEW w, WritesInside(h, b, w)
  PROVE  Wrote(h, L, D, b, w, WithUnits(h, w))
<1> DEFINE g == WithUnits(h, w)
           v == h.unit
           B == L \cup D
           n == v[b].size
<1>1. /\ Area(v, h.brk, B) /\ h \in HeapType /\ v \in [Units -> Unit]
      /\ L \cap D = {} /\ 0 \notin L /\ 0 \notin D /\ L \subseteq Units /\ D \subseteq Units
      /\ Ring(v, L \cup {0}) /\ Flagged(v, h.brk, L, D) /\ h.freep \in L \cup {0} /\ h.brk \in First .. NUnits
  BY Shapes DEF ShapeIs
<1>2. /\ w \in [Units -> Unit]
      /\ \A u \in Units : (\A i \in 1 .. n - 2 : u # b + i) => w[u] = v[u]
  BY DEF WritesInside
<1>3. g \in HeapType /\ g.unit = w /\ g.freep = h.freep /\ g.brk = h.brk
  <2>1. g = Rewritten(h, w) BY DEF WithUnits, Rewritten
  <2> HIDE DEF g
  <2> QED BY <1>1, <1>2, <2>1, RewrittenIs
<1> HIDE DEF g
<1>4. b \in B /\ b \in Nat /\ n \in Nat /\ n >= 2
  <2>1. b \in B OBVIOUS
  <2> QED BY <1>1, <2>1, TileTypes
<1>5. ASSUME NEW i \in 1 .. n - 2
      PROVE  /\ b + i # b /\ b + i # b + n - 1 /\ b + i >= 3 /\ b + i < h.brk
             /\ \A x \in B \ {b} : b + i # x /\ b + i # x + v[x].size - 1
  <2>1. i \in 0 .. n - 1 /\ b + i # b /\ b + i # b + n - 1
    <3> HIDE DEF n
    <3> QED BY <1>4
  <2> HIDE DEF B
  <2> QED BY <1>1, <1>4, <2>1, InsideOne
<1>6. ASSUME NEW x \in B
      PROVE  /\ x \in Units /\ x + v[x].size - 1 \in Units
             /\ w[x] = v[x] /\ w[x + v[x].size - 1] = v[x + v[x].size - 1]
  <2>1. x \in Units /\ x + v[x].size - 1 \in Units BY <1>1, TileTypes
  <2>2. \A i \in 1 .. n - 2 : x # b + i /\ x + v[x].size - 1 # b + i BY <1>5
  <2> QED BY <1>2, <2>1, <2>2
<1>7. w[0] = v[0] /\ w[2] = v[2] /\ w[h.brk] = v[h.brk] /\ h.brk \in Units
  <2>1. h.brk \in Units /\ h.brk \in Nat BY <1>1, Basics
  <2>2. \A i \in 1 .. n - 2 : 0 # b + i /\ 2 # b + i /\ h.brk # b + i
    <3> SUFFICES ASSUME NEW i \in 1 .. n - 2 PROVE 0 # b + i /\ 2 # b + i /\ h.brk # b + i OBVIOUS
    <3>1. b + i >= 3 /\ b + i < h.brk BY <1>5
    <3> QED BY <2>1, <3>1
  <2> QED BY <1>2, <2>1, <2>2, Basics
<1>8. Area(w, h.brk, B)
  <2>1. Tiled(w, h.brk, B) BY <1>1, <1>6 DEF Area, Tiled
  <2> QED BY <1>1, <1>2, <2>1 DEF Area
<1>9. Ring(w, L \cup {0})
  <2>1. \A x \in L \cup {0} : w[x] = v[x] BY <1>6, <1>7
  <2>2. SameOn(v, w, L \cup {0}) BY <2>1 DEF SameOn
  <2> QED BY <1>1, <2>2, RingKept
<1>10. Flagged(w, h.brk, L, D) BY <1>1, <1>6, <1>7 DEF Flagged
<1>11. Loose(g, L, D, L, D)
  <2>1. Area(g.unit, g.brk, L \cup D) /\ Ring(g.unit, L \cup {0}) /\ Flagged(g.unit, g.brk, L, D)
    BY <1>3, <1>8, <1>9, <1>10
  <2> QED BY <1>1, <1>3, <2>1, LooseOf
<1>12. Shape(g, L, D) BY <1>1, <1>3, <1>11 DEF Shape
<1>13. Kept(v, w, D \ {b})
  <2>1. ASSUME NEW c \in D \ {b}, NEW j \in 1 .. v[c].size - 1 PROVE w[c + j] = v[c + j]
    <3>1. c \in B /\ c # b OBVIOUS
    <3>2. v[c].size \in Nat BY <1>1, <3>1, TileTypes
    <3>3. j \in 0 .. v[c].size - 1 BY <3>2
    <3>4. c + j \in Units BY <1>1, <3>1, <3>3, InsideOne
    <3>5. ASSUME NEW i \in 1 .. n - 2 PROVE c + j # b + i
      <4>1. i \in 0 .. v[b].size - 1
        <5> HIDE DEF n
        <5>1. i \in 0 .. n - 1 BY <1>4
        <5> QED BY <5>1 DEF n
      <4> HIDE DEF B
      <4> QED BY <1>1, <1>4, <3>1, <3>3, <4>1, TilesApart
    <3> QED BY <1>2, <3>4, <3>5
  <2> QED BY <1>6, <2>1 DEF Kept
<1> QED BY <1>3, <1>4, <1>6, <1>12, <1>13 DEF Wrote, g

LEMMA HoldsKept ==
  ASSUME NEW v, NEW w, NEW D, Kept(v, w, D), NEW b \in D, NEW s, Holds(v, b, s), v[b].size \in Nat
  PROVE  Holds(w, b, s)
<1>1. s \in Seq(Vals) /\ Len(s) + 2 <= v[b].size /\ \A i \in 1 .. Len(s) : v[b + i] = Blob(s[i])
  BY DEF Holds
<1>2. \A i \in 1 .. Len(s) : i \in 1 .. v[b].size - 1
  <2>1. Len(s) \in Nat BY <1>1
  <2> QED BY <1>1, <2>1
<1>3. w[b] = v[b] /\ \A i \in 1 .. v[b].size - 1 : w[b + i] = v[b + i] BY DEF Kept
<1> QED BY <1>1, <1>2, <1>3 DEF Holds

\* What a heap of that shape says of a block in use.
LEMMA ShapeTypes ==
  ASSUME NEW h, NEW L, NEW D, Shape(h, L, D)
  PROVE  /\ h.unit \in [Units -> Unit] /\ NUnits \in Nat
         /\ \A b \in D : /\ b \in Nat /\ b \in Units /\ h.unit[b].size \in Nat /\ h.unit[b].size >= 2
                         /\ \A i \in 1 .. h.unit[b].size - 2 : b + i \in Units
<1>1. Area(h.unit, h.brk, L \cup D) /\ h.unit \in [Units -> Unit] BY Shapes DEF ShapeIs
<1>2. ASSUME NEW b \in D
      PROVE  /\ b \in Nat /\ b \in Units /\ h.unit[b].size \in Nat /\ h.unit[b].size >= 2
             /\ \A i \in 1 .. h.unit[b].size - 2 : b + i \in Units
  <2>1. b \in L \cup D OBVIOUS
  <2>2. b \in Nat /\ b \in Units /\ h.unit[b].size \in Nat /\ h.unit[b].size >= 2 BY <1>1, <2>1, TileTypes
  <2>3. ASSUME NEW i \in 1 .. h.unit[b].size - 2 PROVE b + i \in Units
    <3>1. i \in 0 .. h.unit[b].size - 1 BY <2>2
    <3> QED BY <1>1, <2>1, <3>1, InsideOne
  <2> QED BY <2>2, <2>3
<1> QED BY <1>1, <1>2, Basics

\* The client fills a block from a place on, and has what it had before that place.
LEMMA FillGood ==
  ASSUME NEW h, NEW L \in SUBSET Units, NEW D, Shape(h, L, D), NEW b \in D,
         NEW s \in Seq(Vals), Len(s) + 2 <= h.unit[b].size, NEW from \in Nat \ {0},
         \A i \in 1 .. Len(s) : i < from => h.unit[b + i] = Blob(s[i]),
         NEW held \in [D -> Seq(Vals)], held[b] = s,
         \A c \in D \ {b} : Holds(h.unit, c, held[c])
  PROVE  Good(Fill(h, b, from, s), held)
<1> DEFINE w == [u \in Units |-> IF u \in b + from .. b + Len(s) THEN Blob(s[u - b]) ELSE h.unit[u]]
           g == [h EXCEPT !.unit = w]
<1>1. /\ NUnits \in Nat /\ b \in Nat /\ h.unit[b].size \in Nat /\ Len(s) \in Nat
      /\ h.unit \in [Units -> Unit]
      /\ \A c \in D : h.unit[c].size \in Nat
      /\ \A i \in 1 .. h.unit[b].size - 2 : b + i \in Units
  BY ShapeTypes
<1>2. Fill(h, b, from, s) = g BY DEF Fill
<1>3. \A u : u \in b + from .. b + Len(s) => u - b \in from .. Len(s) /\ u - b \in 1 .. Len(s) /\ u = b + (u - b)
  BY <1>1
<1>4. w \in [Units -> Unit]
  <2> SUFFICES ASSUME NEW u \in Units PROVE w[u] \in Unit OBVIOUS
  <2>1. CASE u \in b + from .. b + Len(s)
    <3>1. s[u - b] \in Vals BY <1>3, <2>1
    <3>2. s[u - b] \in Units BY <3>1, HeapAssumption DEF Units
    <3>3. Blob(s[u - b]) \in Unit BY <3>2 DEF Blob, Unit
    <3>4. w[u] = Blob(s[u - b]) BY <2>1
    <3> QED BY <3>3, <3>4
  <2>2. CASE u \notin b + from .. b + Len(s) BY <1>1, <2>2
  <2> QED BY <2>1, <2>2
<1>5. \A u \in Units : (\A i \in 1 .. h.unit[b].size - 2 : u # b + i) => w[u] = h.unit[u]
  <2> SUFFICES ASSUME NEW u \in Units, u \in b + from .. b + Len(s)
               PROVE  \E i \in 1 .. h.unit[b].size - 2 : u = b + i
    OBVIOUS
  <2>1. u - b \in 1 .. Len(s) /\ u = b + (u - b) BY <1>3
  <2>2. u - b \in 1 .. h.unit[b].size - 2 BY <1>1, <2>1
  <2> QED BY <2>1, <2>2
<1>6. ASSUME NEW i \in 1 .. Len(s) PROVE w[b + i] = Blob(s[i])
  <2>1. i \in 1 .. h.unit[b].size - 2 BY <1>1
  <2>2. b + i \in Units BY <1>1, <2>1
  <2>3. (b + i) - b = i BY <1>1
  <2>4. i >= from <=> b + i \in b + from .. b + Len(s) BY <1>1
  <2>5. CASE i >= from BY <2>2, <2>3, <2>4, <2>5
  <2>6. CASE i < from
    <3>1. b + i \notin b + from .. b + Len(s) BY <1>1, <2>4, <2>6
    <3>2. w[b + i] = h.unit[b + i] BY <2>2, <3>1
    <3> QED BY <2>6, <3>2
  <2> QED BY <2>5, <2>6
<1> HIDE DEF w
<1>7. /\ Shape(g, L, D) /\ g.unit = w
      /\ Kept(h.unit, w, D \ {b}) /\ w[b] = h.unit[b]
  <2>1. WritesInside(h, b, w) BY <1>4, <1>5 DEF WritesInside
  <2>2. WithUnits(h, w) = g BY DEF WithUnits
  <2> HIDE DEF g
  <2>3. Wrote(h, L, D, b, w, WithUnits(h, w)) BY <2>1, WriteInside
  <2> QED BY <2>2, <2>3 DEF Wrote
<1> HIDE DEF g
<1>8. ASSUME NEW c \in D PROVE Holds(w, c, held[c])
  <2>1. CASE c = b
    <3>1. Len(s) + 2 <= w[b].size BY <1>7
    <3> QED BY <1>6, <2>1, <3>1 DEF Holds
  <2>2. CASE c # b
    <3>1. c \in D \ {b} /\ h.unit[c].size \in Nat BY <1>1, <2>2
    <3> QED BY <1>7, <3>1, HoldsKept
  <2> QED BY <2>1, <2>2
<1>9. DOMAIN held = D OBVIOUS
<1> QED BY <1>2, <1>7, <1>8, <1>9 DEF Good

\* The client's view once it has s at an address besides D.
Put(held, D, at, s) == [b \in D \cup {at} |-> IF b = at THEN s ELSE held[b]]
Repeated(n, v) == [i \in 1 .. n |-> v]

\* What mm_malloc gives, the client fills.
LEMMA MallocGood ==
  ASSUME NEW h, NEW held, Good(h, held), NEW n \in 0 .. MaxRequest, MmMalloc(h, n).ok,
         NEW v \in Vals
  PROVE  LET m == MmMalloc(h, n) IN
         Good(Fill(m.heap, m.at, 1, Repeated(n, v)), Put(held, DOMAIN held, m.at, Repeated(n, v)))
<1> DEFINE m == MmMalloc(h, n)
           s == Repeated(n, v)
           D == DOMAIN held
           E == D \cup {m.at}
           new == [b \in E |-> IF b = m.at THEN s ELSE held[b]]
<1>0. n \in Nat BY HeapAssumption
<1>1. s \in Seq(Vals) /\ Len(s) = n BY <1>0 DEF Repeated
<1>2. PICK L \in SUBSET Units : Shape(h, L, D) BY DEF Good
<1>3. Given(h, n + 2, D, m) BY <1>2, MallocGives
<1>4. \A b \in D : Holds(h.unit, b, held[b]) BY DEF Good
<1>5. held \in [D -> Seq(Vals)] BY DEF Good
<1>6. \A b \in D : h.unit[b].size \in Nat BY <1>2, ShapeTypes
<1> HIDE DEF m, s, D
<1>7. PICK M \in SUBSET Units : Shape(m.heap, M, E) BY <1>3 DEF Given
<1>8. m.at \notin D /\ Kept(h.unit, m.heap.unit, D) /\ m.heap.unit[m.at].size >= n + 2 BY <1>3 DEF Given
<1>9. new \in [E -> Seq(Vals)] /\ new[m.at] = s BY <1>1, <1>5
<1>10. ASSUME NEW b \in E \ {m.at} PROVE Holds(m.heap.unit, b, new[b])
  <2>1. b \in D /\ new[b] = held[b] OBVIOUS
  <2> QED BY <1>4, <1>6, <1>8, <2>1, HoldsKept
<1>11. Len(s) + 2 <= m.heap.unit[m.at].size
  <2>1. m.heap.unit[m.at].size \in Nat BY <1>7, ShapeTypes DEF E
  <2> QED BY <1>1, <1>8, <2>1
<1>12. \A i \in 1 .. Len(s) : i < 1 => m.heap.unit[m.at + i] = Blob(s[i])
  <2>1. \A i \in 1 .. Len(s) : ~(i < 1) BY <1>1
  <2> QED BY <2>1
<1>13. m.at \in E /\ 1 \in Nat \ {0} OBVIOUS
<1> HIDE DEF new, E
<1>14. Good(Fill(m.heap, m.at, 1, s), new) BY <1>1, <1>7, <1>9, <1>10, <1>11, <1>12, <1>13, FillGood
<1> QED BY <1>14 DEF new, E, m, s, D, Put

LEMMA ShapeFreeing ==
  ASSUME NEW h, NEW L, NEW D, Shape(h, L, D), NEW b \in D
  PROVE  Freeing(h, L, D, b)
<1>1. Loose(h, L, D, L, D) /\ h.freep \in L \cup {0} BY DEF Shape
<1>2. Flagged(h.unit, h.brk, L, D \ {b}) BY <1>1 DEF Loose, Flagged
<1> QED BY <1>1, <1>2 DEF Freeing, Loose

LEMMA FreeGood ==
  ASSUME NEW h, NEW held, Good(h, held), NEW b \in DOMAIN held
  PROVE  Good(MmFree(h, b), [c \in DOMAIN held \ {b} |-> held[c]])
<1> DEFINE f == MmFree(h, b)
           D == DOMAIN held
           new == [c \in D \ {b} |-> held[c]]
<1>1. PICK L \in SUBSET Units : Shape(h, L, D) BY DEF Good
<1>2. Freed(h, D \ {b}, f, h.unit[b].size) BY <1>1, ShapeFreeing, FreeGives
<1>3. Kept(h.unit, f.unit, D \ {b}) BY <1>2 DEF Freed
<1>4. \A c \in D : h.unit[c].size \in Nat BY <1>1, ShapeTypes
<1>5. \A c \in D : Holds(h.unit, c, held[c]) BY DEF Good
<1>6. held \in [D -> Seq(Vals)] BY DEF Good
<1>7. b \in D OBVIOUS
<1> HIDE DEF f, D
<1>8. PICK M \in SUBSET Units : Shape(f, M, D \ {b}) BY <1>2 DEF Freed
<1>9. ASSUME NEW c \in D \ {b} PROVE Holds(f.unit, c, new[c])
  <2>1. new[c] = held[c] OBVIOUS
  <2> QED BY <1>3, <1>4, <1>5, <2>1, HoldsKept
<1>10. new \in [D \ {b} -> Seq(Vals)] /\ DOMAIN new = D \ {b} BY <1>6
<1> HIDE DEF new
<1>11. Good(f, new) BY <1>8, <1>9, <1>10 DEF Good
<1> QED BY <1>11 DEF f, new, D

\* mm_realloc, where the block has room: the client writes what is new.
Grown(s, n, v) == [i \in 1 .. n |-> IF i <= Len(s) THEN s[i] ELSE v]

LEMMA GrownIs ==
  ASSUME NEW s \in Seq(Vals), NEW n \in Nat, NEW v \in Vals
  PROVE  /\ Grown(s, n, v) \in Seq(Vals) /\ Len(Grown(s, n, v)) = n
         /\ \A i \in 1 .. n : i <= Len(s) => Grown(s, n, v)[i] = s[i]
<1>1. \A i \in 1 .. n : i <= Len(s) => s[i] \in Vals BY Len(s) \in Nat
<1>2. Grown(s, n, v) \in [1 .. n -> Vals] BY <1>1 DEF Grown
<1>3. Grown(s, n, v) \in Seq(Vals) /\ Len(Grown(s, n, v)) = n BY <1>2
<1> QED BY <1>3 DEF Grown

LEMMA StayGood ==
  ASSUME NEW h, NEW held, Good(h, held), NEW b \in DOMAIN held, NEW n \in Nat, NEW v \in Vals,
         h.unit[b].size >= n + 2
  PROVE  Good(Fill(h, b, Len(held[b]) + 1, Grown(held[b], n, v)),
              Put(held, DOMAIN held \ {b}, b, Grown(held[b], n, v)))
<1> DEFINE D == DOMAIN held
           old == held[b]
           s == Grown(old, n, v)
           new == [c \in D |-> IF c = b THEN s ELSE held[c]]
<1>1. PICK L \in SUBSET Units : Shape(h, L, D) BY DEF Good
<1>2. held \in [D -> Seq(Vals)] /\ \A c \in D : Holds(h.unit, c, held[c]) BY DEF Good
<1>3. b \in D /\ (D \ {b}) \cup {b} = D /\ old = held[b] OBVIOUS
<1> HIDE DEF D
<1>4. old \in Seq(Vals) /\ Len(old) \in Nat BY <1>2, <1>3
<1>5. /\ s \in Seq(Vals) /\ Len(s) = n
      /\ \A i \in 1 .. n : i <= Len(old) => s[i] = old[i]
  BY <1>4, GrownIs
<1> HIDE DEF s
<1>6. h.unit[b].size \in Nat BY <1>1, <1>3, ShapeTypes
<1>7. Len(s) + 2 <= h.unit[b].size BY <1>5, <1>6
<1>8. ASSUME NEW i \in 1 .. Len(s), i < Len(old) + 1 PROVE h.unit[b + i] = Blob(s[i])
  <2>1. i \in 1 .. Len(old) /\ i \in 1 .. n /\ i <= Len(old) BY <1>4, <1>5, <1>8
  <2>2. h.unit[b + i] = Blob(old[i]) BY <1>2, <1>3, <2>1 DEF Holds
  <2> QED BY <1>5, <2>1, <2>2
<1>9. new \in [D -> Seq(Vals)] /\ new[b] = s BY <1>2, <1>3, <1>5
<1>10. \A c \in D \ {b} : Holds(h.unit, c, new[c]) BY <1>2
<1> HIDE DEF new, old
<1>11. Len(old) + 1 \in Nat \ {0} BY <1>4
<1>12. Good(Fill(h, b, Len(old) + 1, s), new)
  BY <1>1, <1>3, <1>5, <1>7, <1>8, <1>9, <1>10, <1>11, FillGood
<1>13. new = Put(held, D \ {b}, b, s) BY <1>3 DEF new, Put
<1> QED BY <1>12, <1>13 DEF old, s, D

\* memcpy stays inside the block it copies to, and copies as much as the client had
\* and asks for.
Copies(h, g, L, D, b, to, n) ==
  /\ Shape(g, L, D)
  /\ Kept(h.unit, g.unit, D \ {to})
  /\ g.unit[to].size = h.unit[to].size
  /\ \A i \in 1 .. n : i + 2 <= h.unit[b].size => g.unit[to + i] = h.unit[b + i]

LEMMA CopyIs ==
  ASSUME NEW h, NEW L, NEW D, Shape(h, L, D), NEW b \in D, NEW to \in D, NEW n \in Nat,
         h.unit[to].size >= n + 2
  PROVE  Copies(h, Copy(h, b, to, n), L, D, b, to, n)
<1> DEFINE len == Min({h.unit[b].size - 2, n})
           w == [u \in Units |-> IF u \in to + 1 .. to + len THEN h.unit[u - to + b] ELSE h.unit[u]]
           g == [h EXCEPT !.unit = w]
           size == h.unit[b].size
<1>1. /\ NUnits \in Nat /\ b \in Nat /\ to \in Nat /\ size \in Nat /\ size >= 2
      /\ h.unit \in [Units -> Unit] /\ h.unit[to].size \in Nat
      /\ \A i \in 1 .. h.unit[to].size - 2 : to + i \in Units
  BY ShapeTypes
<1>2. Copy(h, b, to, n) = g BY DEF Copy
<1>3. \A i \in 1 .. size - 2 : b + i \in Units BY ShapeTypes
<1>4. len = IF size - 2 <= n THEN size - 2 ELSE n
  <2>1. size - 2 \in Nat
    <3> HIDE DEF size
    <3> QED BY <1>1
  <2> HIDE DEF size
  <2> QED BY <2>1, MinOfTwo DEF size
<1> HIDE DEF len, size
<1>5. len \in Nat /\ len <= n /\ len <= size - 2 /\ \A i \in 1 .. n : i + 2 <= size => i <= len
  BY <1>1, <1>4
<1>6. ASSUME NEW u \in to + 1 .. to + len
      PROVE  u - to \in 1 .. len /\ u - to + b = b + (u - to) /\ u = to + (u - to)
  BY <1>1, <1>5
<1>7. ASSUME NEW i \in 1 .. len PROVE i \in 1 .. n /\ i \in 1 .. size - 2
  BY <1>1, <1>5
<1>8. w \in [Units -> Unit]
  <2> SUFFICES ASSUME NEW u \in Units PROVE w[u] \in Unit OBVIOUS
  <2>1. CASE u \in to + 1 .. to + len
    <3>1. u - to + b \in Units BY <1>3, <1>6, <1>7, <2>1
    <3> QED BY <1>1, <2>1, <3>1
  <2>2. CASE u \notin to + 1 .. to + len BY <1>1, <2>2
  <2> QED BY <2>1, <2>2
<1>9. \A u \in Units : (\A i \in 1 .. h.unit[to].size - 2 : u # to + i) => w[u] = h.unit[u]
  <2> SUFFICES ASSUME NEW u \in Units, u \in to + 1 .. to + len
               PROVE  \E i \in 1 .. h.unit[to].size - 2 : u = to + i
    OBVIOUS
  <2>1. u - to \in 1 .. n /\ u = to + (u - to) BY <1>6, <1>7
  <2>2. u - to \in 1 .. h.unit[to].size - 2 BY <1>1, <2>1
  <2> QED BY <2>1, <2>2
<1>10. ASSUME NEW i \in 1 .. n, i + 2 <= size PROVE w[to + i] = h.unit[b + i]
  <2>1. i \in 1 .. len BY <1>1, <1>5, <1>10
  <2>2. to + i \in to + 1 .. to + len /\ (to + i) - to + b = b + i BY <1>1, <1>5, <2>1
  <2>3. to + i \in Units
    <3>1. i \in 1 .. h.unit[to].size - 2 BY <1>1
    <3> QED BY <1>1, <3>1
  <2> QED BY <2>2, <2>3
<1> HIDE DEF w
<1>11. /\ Shape(g, L, D) /\ g.unit = w
       /\ Kept(h.unit, w, D \ {to}) /\ w[to] = h.unit[to]
  <2>1. WritesInside(h, to, w) BY <1>8, <1>9 DEF WritesInside
  <2>2. WithUnits(h, w) = g BY DEF WithUnits
  <2> HIDE DEF g
  <2>3. Wrote(h, L, D, to, w, WithUnits(h, w)) BY <2>1, WriteInside
  <2> QED BY <2>2, <2>3 DEF Wrote
<1> HIDE DEF g
<1> QED BY <1>2, <1>10, <1>11 DEF size, Copies

\* mm_realloc, where the block has no room: another is allocated, the contents are
\* copied, the old one is freed, and the client writes what is new.
LEMMA MoveGood ==
  ASSUME NEW h, NEW held, Good(h, held), NEW b \in DOMAIN held, NEW n \in 0 .. MaxRequest,
         NEW v \in Vals, MmMalloc(h, n).ok
  PROVE  LET m == MmMalloc(h, n) IN
         Good(Fill(MmFree(Copy(m.heap, b, m.at, n), b), m.at, Len(held[b]) + 1, Grown(held[b], n, v)),
              Put(held, DOMAIN held \ {b}, m.at, Grown(held[b], n, v)))
<1> DEFINE m == MmMalloc(h, n)
           D == DOMAIN held
           E == D \cup {m.at}
           B == (D \ {b}) \cup {m.at}
           old == held[b]
           s == Grown(old, n, v)
           g == Copy(m.heap, b, m.at, n)
           f == MmFree(g, b)
           new == [c \in B |-> IF c = m.at THEN s ELSE held[c]]
<1>0. n \in Nat BY HeapAssumption
<1>1. PICK L \in SUBSET Units : Shape(h, L, D) BY DEF Good
<1>2. Given(h, n + 2, D, m) BY <1>1, MallocGives
<1>3. held \in [D -> Seq(Vals)] /\ \A c \in D : Holds(h.unit, c, held[c]) BY DEF Good
<1>4. b \in D /\ old = held[b] OBVIOUS
<1>5. \A c \in D : h.unit[c].size \in Nat BY <1>1, ShapeTypes
<1> HIDE DEF m, D
<1>6. PICK M \in SUBSET Units : Shape(m.heap, M, E) BY <1>2 DEF Given
<1>7. m.at \notin D /\ Kept(h.unit, m.heap.unit, D) /\ m.heap.unit[m.at].size >= n + 2 BY <1>2 DEF Given
<1>8. b \in E /\ m.at \in E /\ b # m.at BY <1>4, <1>7
<1>9. /\ Shape(g, M, E) /\ Kept(m.heap.unit, g.unit, E \ {m.at}) /\ g.unit[m.at].size = m.heap.unit[m.at].size
      /\ \A i \in 1 .. n : i + 2 <= m.heap.unit[b].size => g.unit[m.at + i] = m.heap.unit[b + i]
  <2> HIDE DEF E, B, old, s, g, f, new
  <2>1. b \in E /\ m.at \in E /\ Shape(m.heap, M, E) /\ m.heap.unit[m.at].size >= n + 2 BY <1>6, <1>7, <1>8
  <2>2. Copies(m.heap, Copy(m.heap, b, m.at, n), M, E, b, m.at, n) BY <1>0, <2>1, CopyIs
  <2>3. g = Copy(m.heap, b, m.at, n) BY DEF g
  <2> QED BY <2>2, <2>3 DEF Copies
<1> HIDE DEF g, E
<1>10. Freed(g, E \ {b}, f, g.unit[b].size) BY <1>8, <1>9, ShapeFreeing, FreeGives
<1>11. Kept(g.unit, f.unit, E \ {b}) BY <1>10 DEF Freed
<1> HIDE DEF f
<1>12. E \ {b} = B /\ E \ {m.at} = D BY <1>4, <1>7 DEF E
<1>13. PICK N \in SUBSET Units : Shape(f, N, E \ {b}) BY <1>10 DEF Freed
<1>14. Shape(f, N, B) BY <1>12, <1>13
<1>15. old \in Seq(Vals) /\ Len(old) \in Nat BY <1>3, <1>4
<1>16. /\ s \in Seq(Vals) /\ Len(s) = n
       /\ \A i \in 1 .. n : i <= Len(old) => s[i] = old[i]
  BY <1>15, GrownIs
<1> HIDE DEF s
<1>17. m.at \in B /\ m.at \in E \ {b} BY <1>8
<1>18. f.unit[m.at].size = m.heap.unit[m.at].size BY <1>9, <1>11, <1>17 DEF Kept
<1>19. Len(s) + 2 <= f.unit[m.at].size
  <2>1. m.heap.unit[m.at].size \in Nat BY <1>6, <1>8, ShapeTypes
  <2> QED BY <1>7, <1>16, <1>18, <2>1
<1>20. ASSUME NEW i \in 1 .. Len(s), i < Len(old) + 1 PROVE f.unit[m.at + i] = Blob(s[i])
  <2>1. i \in 1 .. Len(old) /\ i \in 1 .. n /\ i <= Len(old) BY <1>15, <1>16, <1>20
  <2>2. h.unit[b + i] = Blob(old[i]) /\ Len(old) + 2 <= h.unit[b].size BY <1>3, <1>4, <2>1 DEF Holds
  <2>3. i + 2 <= h.unit[b].size /\ i \in 1 .. h.unit[b].size - 1 BY <1>4, <1>5, <1>15, <2>1, <2>2
  <2>4. m.heap.unit[b].size = h.unit[b].size /\ m.heap.unit[b + i] = h.unit[b + i]
    BY <1>4, <1>7, <2>3 DEF Kept
  <2>5. g.unit[m.at + i] = m.heap.unit[b + i] BY <1>9, <2>1, <2>3, <2>4
  <2>6. i \in 1 .. g.unit[m.at].size - 1
    <3>1. m.heap.unit[m.at].size \in Nat BY <1>6, <1>8, ShapeTypes
    <3> QED BY <1>7, <1>9, <2>1, <3>1
  <2>7. f.unit[m.at + i] = g.unit[m.at + i] BY <1>11, <1>17, <2>6 DEF Kept
  <2> QED BY <1>16, <2>1, <2>2, <2>4, <2>5, <2>7
<1>21. new \in [B -> Seq(Vals)] /\ new[m.at] = s
  <2>1. ASSUME NEW c \in B PROVE new[c] \in Seq(Vals)
    <3>1. CASE c = m.at BY <1>16, <3>1
    <3>2. CASE c # m.at BY <1>3, <3>2
    <3> QED BY <3>1, <3>2
  <2> QED BY <1>17, <2>1
<1>22. ASSUME NEW c \in B \ {m.at} PROVE Holds(f.unit, c, new[c])
  <2>1. c \in D /\ c \in E \ {m.at} /\ c \in E \ {b} /\ new[c] = held[c] BY <1>12
  <2>2. Holds(m.heap.unit, c, held[c]) BY <1>3, <1>5, <1>7, <2>1, HoldsKept
  <2>3. m.heap.unit[c].size = h.unit[c].size BY <1>7, <2>1 DEF Kept
  <2>4. Holds(g.unit, c, held[c]) BY <1>5, <1>9, <2>1, <2>2, <2>3, HoldsKept
  <2>5. g.unit[c].size = h.unit[c].size BY <1>9, <2>1, <2>3 DEF Kept
  <2>6. Holds(f.unit, c, held[c]) BY <1>5, <1>11, <2>1, <2>4, <2>5, HoldsKept
  <2> QED BY <2>1, <2>6
<1> HIDE DEF new, old, B
<1>23. Len(old) + 1 \in Nat \ {0} BY <1>15
<1>24. Good(Fill(f, m.at, Len(old) + 1, s), new)
  <2>1. s \in Seq(Vals) /\ m.at \in B BY <1>16, <1>17
  <2>2. \A i \in 1 .. Len(s) : i < Len(old) + 1 => f.unit[m.at + i] = Blob(s[i]) BY <1>20
  <2>3. \A c \in B \ {m.at} : Holds(f.unit, c, new[c]) BY <1>22
  <2> QED BY <1>13, <1>14, <1>19, <1>21, <1>23, <2>1, <2>2, <2>3, FillGood
<1>25. new = Put(held, D \ {b}, m.at, s) BY DEF new, B, Put
<1> QED BY <1>24, <1>25 DEF old, s, f, g, m, D

-----------------------------------------------------------------------------
(* Every step keeps the invariant. *)

NoneHeld == [b \in {} |-> <<>>]

LEMMA BasedGood ==
  ASSUME NEW units \in [Units -> Unit]
  PROVE  Good(Based(units), NoneHeld)
<1> DEFINE w0 == [units EXCEPT ![0] = [next |-> 0, prev |-> 0, size |-> 2, isFree |-> 1]]
           w1 == [w0 EXCEPT ![1].size = 2]
           one == 1
           two == 2
           w2 == WithFlag(w1, one, one)
           w == WithFlag(w2, two, one)
           h == Based(units)
<1>1. 0 \in Units /\ 1 \in Units /\ 2 \in Units /\ First = 3 BY Basics
<1>2. h = [unit |-> w, freep |-> 0, brk |-> 3] BY DEF Based, WithFlag
<1>3. w0 \in [Units -> Unit] /\ w0[0].next = 0 /\ w0[0].prev = 0 /\ w0[0].isFree = 1
  BY <1>1 DEF Unit
<1> HIDE DEF w0
<1>4. w1 \in [Units -> Unit] /\ w1[0] = w0[0] BY <1>1, <1>3 DEF Unit
<1> HIDE DEF w1
<1>5. one \in Units /\ two \in Units /\ 0 # one /\ 0 # two BY <1>1
<1> HIDE DEF one, two
<1>6. w2 \in [Units -> Unit] /\ w2[0] = w1[0] BY <1>1, <1>4, <1>5, FlagSet
<1> HIDE DEF w2
<1>7. w \in [Units -> Unit] /\ w[0] = w2[0] /\ w[two].isFree = one BY <1>1, <1>6, <1>5, FlagSet
<1> HIDE DEF w
<1>8. w \in [Units -> Unit] /\ w[0] = w2[0] /\ w[2].isFree = 1 BY <1>7 DEF one, two
<1> HIDE DEF h
<1>9. h.unit = w /\ h.freep = 0 /\ h.brk = 3 BY <1>2
<1>10. h \in HeapType
  <2>1. 3 \in First .. NUnits BY Basics
  <2> QED BY <1>1, <1>2, <1>8, <2>1 DEF HeapType
<1>11. Tiled(w, 3, {}) BY <1>1 DEF Tiled
<1>12. w[0].next = 0 /\ w[0].prev = 0 /\ w[0].isFree = 1 BY <1>3, <1>4, <1>6, <1>8
<1>13. Ring(w, {0})
  <2>1. \A S \in SUBSET {0} : S # {} => S = {0} OBVIOUS
  <2> QED BY <1>12, <2>1 DEF Ring
<1>14. Flagged(w, 3, {}, {}) BY <1>1, <1>8, <1>12 DEF Flagged
<1>15. {} \cup {} = {} /\ {} \cap {} = {} /\ {} \cup {0} = {0} /\ {} \in SUBSET Units OBVIOUS
<1>16. Shape(h, {}, {}) BY <1>9, <1>10, <1>11, <1>13, <1>14, <1>15 DEF Shape, Loose
<1>17. DOMAIN NoneHeld = {} /\ NoneHeld \in [{} -> Seq(Vals)] BY DEF NoneHeld
<1> QED BY <1>15, <1>16, <1>17 DEF Good, h

LEMMA ZerosType == Zeros \in [Units -> Unit]
<1>1. 0 \in Units BY Basics
<1> QED BY <1>1 DEF Zeros, Blob, Unit

LEMMA InitInv == Init => IInv
<1> SUFFICES ASSUME Init PROVE IInv OBVIOUS
<1>1. heap = Based(Zeros) /\ live = NoneHeld BY DEF Init, NoneHeld
<1>2. Good(heap, live) BY <1>1, ZerosType, BasedGood
<1> QED BY <1>2 DEF IInv

\* The heap is good, and the client has s at an address besides the blocks D.
PutStep(D, s) == /\ Good(heap', live')
                 /\ \E at : at \notin D /\ live' = Put(live, D, at, s)

LEMMA MallocStep ==
  ASSUME Good(heap, live), NEW n \in 0 .. MaxRequest, NEW v \in Vals, Malloc(n, v)
  PROVE  (heap' = heap /\ live' = live) \/ PutStep(DOMAIN live, Repeated(n, v))
<1>1. n \in Nat BY HeapAssumption
<1>2. CASE MmMalloc(heap, n).ok
  <2> DEFINE m == MmMalloc(heap, n)
             s == Repeated(n, v)
  <2>1. heap' = Fill(m.heap, m.at, 1, s) /\ live' = Put(live, DOMAIN live, m.at, s)
    BY <1>2 DEF Malloc, Put, Repeated
  <2>2. Good(Fill(m.heap, m.at, 1, s), Put(live, DOMAIN live, m.at, s))
    BY <1>1, <1>2, MallocGood
  <2>3. PICK L \in SUBSET Units : Shape(heap, L, DOMAIN live) BY DEF Good
  <2>4. Given(heap, n + 2, DOMAIN live, m) BY <1>1, <1>2, <2>3, MallocGives
  <2> HIDE DEF m, s
  <2>5. m.at \notin DOMAIN live BY <2>4 DEF Given
  <2>6. Good(heap', live') BY <2>1, <2>2
  <2> QED BY <2>1, <2>5, <2>6 DEF PutStep, s
<1>3. CASE ~ MmMalloc(heap, n).ok
  BY <1>3 DEF Malloc, vars
<1> QED BY <1>2, <1>3

LEMMA FreeStep ==
  ASSUME Good(heap, live), NEW b \in DOMAIN live, Free(b)
  PROVE  Good(heap', live') /\ live' = [c \in DOMAIN live \ {b} |-> live[c]]
BY FreeGood DEF Free

LEMMA ReallocStep ==
  ASSUME Good(heap, live), NEW n \in 0 .. MaxRequest, NEW v \in Vals, NEW b \in DOMAIN live,
         Realloc(b, n, v)
  PROVE  (heap' = heap /\ live' = live) \/ PutStep(DOMAIN live \ {b}, Grown(live[b], n, v))
<1>1. n \in Nat BY HeapAssumption
<1> DEFINE m == MmMalloc(heap, n)
           fits == n > 0 /\ heap.unit[b].size >= mm_units(n)
           s == Grown(live[b], n, v)
<1>2. CASE fits
  <2>1. /\ heap' = Fill(heap, b, Len(live[b]) + 1, s)
        /\ live' = Put(live, DOMAIN live \ {b}, b, s)
    BY <1>2 DEF Realloc, Grown, Put
  <2>2. heap.unit[b].size >= n + 2 BY <1>2 DEF mm_units
  <2>3. Good(Fill(heap, b, Len(live[b]) + 1, s), Put(live, DOMAIN live \ {b}, b, s))
    BY <1>1, <2>2, StayGood
  <2>4. b \notin DOMAIN live \ {b} OBVIOUS
  <2> HIDE DEF s
  <2>5. Good(heap', live') BY <2>1, <2>3
  <2> QED BY <2>1, <2>4, <2>5 DEF PutStep, s
<1>3. CASE ~ fits /\ m.ok
  <2> DEFINE g == Fill(MmFree(Copy(m.heap, b, m.at, n), b), m.at, Len(live[b]) + 1, s)
             held == Put(live, DOMAIN live \ {b}, m.at, s)
  <2>1. heap' = g /\ live' = held BY <1>3 DEF Realloc, Grown, Put
  <2>2. Good(g, held) BY <1>1, <1>3, MoveGood
  <2>3. PICK L \in SUBSET Units : Shape(heap, L, DOMAIN live) BY DEF Good
  <2>4. Given(heap, n + 2, DOMAIN live, m) BY <1>1, <1>3, <2>3, MallocGives
  <2> HIDE DEF g, held, m, s
  <2>5. m.at \notin DOMAIN live \ {b} BY <2>4 DEF Given
  <2>6. Good(heap', live') BY <2>1, <2>2
  <2> QED BY <2>1, <2>5, <2>6 DEF PutStep, s, held
<1>4. CASE ~ fits /\ ~ m.ok
  BY <1>4 DEF Realloc, vars
<1> QED BY <1>2, <1>3, <1>4

LEMMA GoodUnits ==
  ASSUME NEW h, NEW held, Good(h, held)
  PROVE  h.unit \in [Units -> Unit]
<1>1. PICK L \in SUBSET Units : Shape(h, L, DOMAIN held) BY DEF Good
<1> QED BY <1>1, ShapeTypes

LEMMA NextInv == IInv /\ [Next]_vars => IInv'
<1> SUFFICES ASSUME IInv, [Next]_vars PROVE IInv' OBVIOUS
<1>1. Good(heap, live) BY DEF IInv
<1>2. heap.unit \in [Units -> Unit] BY <1>1, GoodUnits
<1>3. CASE \E n \in 0 .. MaxRequest, v \in Vals : Malloc(n, v)
  <2>1. (heap' = heap /\ live' = live) \/ Good(heap', live') BY <1>1, <1>3, MallocStep DEF PutStep
  <2> QED BY <1>1, <2>1 DEF IInv
<1>4. CASE \E n \in 0 .. MaxRequest, v \in Vals : \E b \in DOMAIN live : Realloc(b, n, v)
  <2>1. (heap' = heap /\ live' = live) \/ Good(heap', live') BY <1>1, <1>4, ReallocStep DEF PutStep
  <2> QED BY <1>1, <2>1 DEF IInv
<1>5. CASE \E b \in DOMAIN live : Free(b)
  <2>1. Good(heap', live') BY <1>1, <1>5, FreeStep
  <2> QED BY <2>1 DEF IInv
<1>6. CASE mm_reset
  <2>1. heap' = Based(heap.unit) /\ live' = NoneHeld BY <1>6 DEF mm_reset, NoneHeld
  <2>2. Good(heap', live') BY <1>2, <2>1, BasedGood
  <2> QED BY <2>2 DEF IInv
<1>7. CASE mm_deinit
  <2>1. PICK units \in {heap.unit, Zeros} : heap' = Based(units) /\ live' = NoneHeld
    BY <1>7 DEF mm_deinit, NoneHeld
  <2>2. units \in [Units -> Unit] BY <1>2, <2>1, ZerosType
  <2>3. Good(heap', live') BY <2>1, <2>2, BasedGood
  <2> QED BY <2>3 DEF IInv
<1>8. CASE UNCHANGED vars
  <2>1. heap' = heap /\ live' = live BY <1>8 DEF vars
  <2> QED BY <2>1 DEF IInv
<1> QED BY <1>3, <1>4, <1>5, <1>6, <1>7, <1>8 DEF Next

-----------------------------------------------------------------------------
(* What the invariant says of the tags. *)

\* From size to size every block is reached, within as many steps as there can be blocks.
LEMMA StartsCovered ==
  ASSUME NEW B, Area(heap.unit, heap.brk, B)
  PROVE  Starts = B \cup {heap.brk}
<1> DEFINE unit == heap.unit
           brk == heap.brk
           P == B \cup {brk}
           g == [b \in P |-> IF b < brk THEN b + unit[b].size ELSE b]
           Is(f) == f = [k \in 0 .. Most |->
                           IF k = 0 THEN First
                           ELSE LET b == f[k - 1] IN IF b < brk THEN b + unit[b].size ELSE b]
<1>1. /\ NUnits \in Nat /\ Most \in Nat /\ NUnits <= 2 * Most + 1
      /\ brk \in Nat /\ brk <= NUnits /\ First = 3 /\ 3 \in P
      /\ \A b \in P : b \in Nat /\ b >= 3 /\ b <= brk /\ (b < brk => b \in B)
      /\ \A b \in B : b < brk
  <2>1. NUnits \in Nat /\ First = 3 BY Basics
  <2>2. brk \in First .. NUnits /\ First \in P BY DEF Area, Tiled
  <2>3. brk \in Nat /\ brk >= 3 /\ brk <= NUnits BY <2>1, <2>2
  <2>4. \A b \in B : b \in Nat /\ b >= 3 /\ b < brk BY TileTypes
  <2> HIDE DEF brk
  <2> QED BY <2>1, <2>2, <2>3, <2>4, MostIs
<1>2. g \in [P -> P]
  <2>1. \A b \in B : b + unit[b].size \in P BY DEF Area, Tiled
  <2> HIDE DEF unit, P
  <2> QED BY <1>1, <2>1
<1>3. PICK f \in [0 .. Most -> P] : f[0] = First /\ \A k \in 1 .. Most : f[k] = g[f[k - 1]]
  <2> HIDE DEF g, P
  <2>1. First \in P BY <1>1
  <2>2. Iterated(P, First, g, Most) BY <1>1, <1>2, <2>1, Iterates
  <2> QED BY <2>2 DEF Iterated
<1> HIDE DEF P
<1>4. \A k \in 1 .. Most :
        f[k] = IF f[k - 1] < brk THEN f[k - 1] + unit[f[k - 1]].size ELSE f[k - 1]
  <2> SUFFICES ASSUME NEW k \in 1 .. Most
               PROVE  f[k] = IF f[k - 1] < brk THEN f[k - 1] + unit[f[k - 1]].size ELSE f[k - 1]
    OBVIOUS
  <2>1. k - 1 \in 0 .. Most BY <1>1
  <2>2. f[k - 1] \in P BY <2>1
  <2> QED BY <1>3, <2>2
<1>5. Is(f)
  <2>1. f = [k \in 0 .. Most |-> f[k]] OBVIOUS
  <2>2. ASSUME NEW k \in 0 .. Most, k # 0 PROVE k \in 1 .. Most BY <1>1, <2>2
  <2> QED BY <1>3, <1>4, <2>1, <2>2
<1>6. PICK e : Is(e) /\ Starts = {e[k] : k \in 0 .. Most} BY <1>5 DEF Starts
<1>7. /\ e[0] = 3
      /\ \A k \in 1 .. Most :
           e[k] = IF e[k - 1] < brk THEN e[k - 1] + unit[e[k - 1]].size ELSE e[k - 1]
  <2>1. 0 \in 0 .. Most /\ \A k \in 1 .. Most : k # 0 /\ k \in 0 .. Most BY <1>1
  <2> QED BY <1>1, <1>6, <2>1
<1>8. \A k \in 0 .. Most : e[k] \in P
  <2> DEFINE Out == {k \in Nat : k <= Most /\ e[k] \notin P}
  <2>1. ASSUME Out # {} PROVE FALSE
    <3>1. PICK k \in Out : \A l \in Out : k <= l
      <4>1. Out \subseteq Nat OBVIOUS
      <4> HIDE DEF Out
      <4> QED BY <2>1, <4>1, LeastOf
    <3>2. k # 0 BY <1>1, <1>7, <3>1
    <3>3. k \in 1 .. Most /\ k - 1 \in Nat /\ k - 1 <= Most BY <1>1, <3>1, <3>2
    <3>4. k - 1 \notin Out
      <4> HIDE DEF Out
      <4> QED BY <3>1, <3>3
    <3>5. e[k - 1] \in P BY <3>3, <3>4
    <3>6. g[e[k - 1]] = e[k] BY <1>7, <3>3, <3>5 DEF g
    <3>7. e[k] \in P BY <1>2, <3>5, <3>6
    <3> QED BY <3>1, <3>7
  <2> QED BY <1>1, <2>1
<1>9. \A c \in P : \E k \in Nat : 3 + 2 * k <= c /\ k <= Most /\ e[k] = c
  <2> DEFINE Hit(c) == \E k \in Nat : 3 + 2 * k <= c /\ k <= Most /\ e[k] = c
             Out == {c \in P : ~ Hit(c)}
  <2>1. ASSUME Out # {} PROVE FALSE
    <3>1. Out \subseteq Nat BY <1>1
    <3>2. PICK c \in Out : \A d \in Out : c <= d
      <4> HIDE DEF Out
      <4> QED BY <2>1, <3>1, LeastOf
    <3>3. c \in P /\ ~ Hit(c) /\ c \in Nat /\ c >= 3 /\ c <= brk BY <1>1, <3>2
    <3>4. c # 3 BY <1>1, <1>7, <3>3
    <3> DEFINE S == {b \in P : b < c}
    <3>5. S \subseteq 0 .. NUnits /\ 3 \in S
      <4> HIDE DEF brk, Out, Hit
      <4>1. 3 \in P /\ 3 < c BY <1>1, <3>3, <3>4
      <4>2. \A b \in P : b \in Nat /\ b <= NUnits BY <1>1
      <4> QED BY <1>1, <4>1, <4>2
    <3>6. PICK b \in S : \A d \in S : d <= b
      <4>1. S # {} BY <3>5
      <4> HIDE DEF S
      <4> QED BY <1>1, <3>5, <4>1, GreatestOf
    <3>7. b \in P /\ b < c /\ b \in Nat /\ b < brk /\ b \in B BY <1>1, <3>3, <3>6
    <3>8. b \notin Out
      <4> HIDE DEF Out
      <4> QED BY <3>2, <3>3, <3>7
    <3>9. PICK k \in Nat : 3 + 2 * k <= b /\ k <= Most /\ e[k] = b BY <3>7, <3>8
    <3> DEFINE n == unit[b].size
    <3>10. n \in Nat /\ n >= 2 /\ b + n \in P
      <4>1. n \in Nat /\ n >= 2 BY <3>7, TileTypes
      <4>2. b + n \in P BY <3>7 DEF Area, Tiled, P
      <4> QED BY <4>1, <4>2
    <3>11. b + n <= c
      <4>1. CASE c \in B BY <3>7, <4>1 DEF Area, Tiled
      <4>2. CASE c = brk
        <5> HIDE DEF n, brk
        <5> QED BY <1>1, <3>10, <4>2
      <4> QED BY <3>3, <4>1, <4>2 DEF P
    <3> HIDE DEF Hit, Out
    <3>12. b + n = c
      <4>1. ASSUME b + n < c PROVE FALSE
        <5> HIDE DEF n
        <5>1. b + n \in S BY <3>10, <4>1
        <5>2. b + n <= b BY <3>6, <5>1
        <5> QED BY <3>7, <3>10, <5>2
      <4> HIDE DEF n
      <4> QED BY <3>3, <3>7, <3>10, <3>11, <4>1
    <3>13. k + 1 \in 1 .. Most /\ (k + 1) - 1 = k /\ 3 + 2 * (k + 1) <= c
      <4> HIDE DEF n, brk
      <4>1. 3 + 2 * (k + 1) <= c BY <3>7, <3>9, <3>10, <3>12
      <4>2. c <= 2 * Most + 1 BY <1>1, <3>3
      <4> QED BY <1>1, <3>3, <3>9, <4>1, <4>2
    <3>14. e[k + 1] = c BY <1>7, <3>7, <3>9, <3>12, <3>13
    <3>15. k + 1 \in Nat /\ k + 1 <= Most BY <1>1, <3>13
    <3> QED BY <3>3, <3>13, <3>14, <3>15 DEF Hit
  <2> QED BY <2>1
<1>10. \A c \in P : \E k \in 0 .. Most : e[k] = c BY <1>1, <1>9
<1> QED BY <1>6, <1>8, <1>10 DEF P

\* The blocks are those on the list and those in use.
LEMMA BlocksAre ==
  ASSUME NEW L, NEW D, Shape(heap, L, D)
  PROVE  /\ Starts = (L \cup D) \cup {heap.brk} /\ Blocks = L \cup D
         /\ FreeBlocks = L /\ Blocks \ FreeBlocks = D
<1> DEFINE B == L \cup D
<1>1. Area(heap.unit, heap.brk, B) /\ L \cap D = {} /\ Flagged(heap.unit, heap.brk, L, D)
  BY Shapes DEF ShapeIs
<1>2. Starts = B \cup {heap.brk}
  <2> HIDE DEF B
  <2> QED BY <1>1, StartsCovered
<1>3. heap.brk \in Nat /\ \A b \in B : b < heap.brk
  <2>1. heap.brk \in First .. NUnits BY <1>1 DEF Area
  <2>2. heap.brk \in Nat BY <2>1, Basics
  <2> HIDE DEF B
  <2> QED BY <1>1, <2>2, TileTypes
<1>4. Blocks = B
  <2>1. ~ (heap.brk < heap.brk) BY <1>3
  <2> QED BY <1>2, <1>3, <2>1 DEF Blocks
<1>5. FreeBlocks = L
  <2>1. \A b \in L : heap.unit[b].isFree = 0 BY <1>1 DEF Flagged
  <2>2. \A b \in D : heap.unit[b].isFree # 0 BY <1>1 DEF Flagged
  <2> QED BY <1>4, <2>1, <2>2 DEF FreeBlocks
<1> QED BY <1>1, <1>2, <1>4, <1>5

LEMMA InvTagsExact == IInv => TagsExact
<1> SUFFICES ASSUME IInv PROVE TagsExact OBVIOUS
<1> DEFINE D == DOMAIN live
           v == heap.unit
<1>1. PICK L \in SUBSET Units : Shape(heap, L, D) BY DEF IInv, Good
<1> DEFINE B == L \cup D
<1>2. \A b \in D : Holds(v, b, live[b]) BY DEF IInv, Good
<1> HIDE DEF D
<1>3. /\ Area(v, heap.brk, B) /\ heap \in HeapType /\ v \in [Units -> Unit]
      /\ D \subseteq Units /\ Flagged(v, heap.brk, L, D) /\ heap.freep \in L \cup {0}
      /\ heap.brk \in First .. NUnits
  BY <1>1, Shapes DEF ShapeIs
<1>4. Starts = B \cup {heap.brk} /\ Blocks = B /\ Blocks \ FreeBlocks = D BY <1>1, BlocksAre
<1>5. TypeOK
  <2>1. heap.freep \in Units BY <1>3 DEF HeapType
  <2> QED BY <1>3, <2>1 DEF TypeOK, Unit, D
<1>6. TagsAgree
  <2>1. \A b \in B : v[b].size >= 2 /\ v[b + v[b].size - 1].size = v[b].size BY <1>3 DEF Area, Tiled
  <2>2. heap.brk = First \/ v[heap.brk].isFree = 1 BY <1>3 DEF Flagged
  <2> QED BY <1>4, <2>1, <2>2 DEF TagsAgree, Last
<1>7. LiveTagged
  <2>1. ASSUME NEW b \in D
        PROVE  v[b].size >= Len(live[b]) + 2 /\ v[b].size > 0 /\ v[b].size <= heap.brk
    <3>1. b \in B OBVIOUS
    <3>2. /\ b \in Nat /\ v[b].size \in Nat /\ v[b].size >= 2
          /\ b + v[b].size <= heap.brk /\ heap.brk \in Nat
      BY <1>3, <3>1, TileTypes
    <3>3. Len(live[b]) + 2 <= v[b].size /\ Len(live[b]) \in Nat BY <1>2 DEF Holds
    <3> HIDE DEF v
    <3> QED BY <3>2, <3>3
  <2>2. \A b \in D : v[b].isFree = 1 /\ v[b + v[b].size - 1].isFree = 1 BY <1>3 DEF Flagged
  <2> QED BY <1>4, <2>1, <2>2 DEF LiveTagged, Last, Valid, D
<1> QED BY <1>5, <1>6, <1>7 DEF TagsExact

-----------------------------------------------------------------------------
(* What the invariant says of the list. *)

\* Blocks of two units at least are no more than half as many as units: halving the
\* addresses of the blocks, and of the base, tells them apart.
LEMMA Halved ==
  ASSUME NEW w, NEW brk, NEW B, Area(w, brk, B), NEW x \in B \cup {0}, NEW y \in B \cup {0}
  PROVE  x \div 2 \in 0 .. Most - 1 /\ (x \div 2 = y \div 2 => x = y)
<1>1. ASSUME NEW z \in B
      PROVE  z \in Nat /\ z >= 3 /\ z + 2 <= NUnits /\ \A c \in B : z < c => z + 2 <= c
  <2>1. /\ z \in Nat /\ z >= 3 /\ w[z].size \in Nat /\ w[z].size >= 2
        /\ z + w[z].size <= brk /\ brk <= NUnits /\ brk \in Nat
    BY TileTypes
  <2>2. \A c \in B : c \in Nat BY TileTypes
  <2>3. \A c \in B : z < c => z + w[z].size <= c BY DEF Area, Tiled
  <2>4. \A c \in B : z < c => z + 2 <= c BY <2>1, <2>2, <2>3
  <2> QED BY <2>1, <2>4, Basics
<1>2. x \in Nat /\ y \in Nat /\ x + 2 <= NUnits + 2 BY <1>1, Basics
<1>3. x \div 2 \in 0 .. Most - 1
  <2>1. CASE x = 0 BY <2>1, MostIs
  <2>2. CASE x # 0
    <3>1. x \in Nat /\ x + 2 <= NUnits BY <1>1, <2>2
    <3> QED BY <3>1, MostIs, Basics
  <2> QED BY <2>1, <2>2
<1>4. x < y => x + 2 <= y
  <2>1. CASE x = 0 BY <1>1, <2>1
  <2>2. CASE x # 0 /\ y # 0 BY <1>1, <2>2
  <2>3. CASE y = 0 BY <1>2, <2>3
  <2> QED BY <2>1, <2>2, <2>3
<1>5. y < x => y + 2 <= x
  <2>1. CASE y = 0 BY <1>1, <2>1
  <2>2. CASE x # 0 /\ y # 0 BY <1>1, <2>2
  <2>3. CASE x = 0 BY <1>2, <2>3
  <2> QED BY <2>1, <2>2, <2>3
<1> QED BY <1>2, <1>3, <1>4, <1>5

\* next leads from freep round the base and the free blocks: going on from the last of
\* the steps taken must come back to an earlier one, as there are more steps than blocks.
LEMMA OnListIs ==
  ASSUME NEW L, NEW D, Shape(heap, L, D)
  PROVE  OnList = L \cup {0}
<1> DEFINE v == heap.unit
           P == L \cup {0}
           e == Nth(heap)
           R == {e[k] : k \in 0 .. Most}
<1>1. Area(v, heap.brk, L \cup D) /\ Ring(v, P) /\ heap.freep \in P BY Shapes DEF ShapeIs
<1>2. Most \in Nat /\ Most >= 1 BY MostIs
<1> HIDE DEF P
<1>3. /\ e \in [0 .. Most -> P]
      /\ \A k \in 1 .. Most : e[k] = v[e[k - 1]].next
  <2>1. \A p \in P : v[p].next \in P BY <1>1 DEF Ring
  <2> QED BY <1>1, <2>1, NthIs
<1>4. OnList = R BY DEF OnList
<1> HIDE DEF e
<1>5. \E i \in 0 .. Most - 1 : e[i] = e[Most]
  <2> DEFINE J == {j \in 0 .. Most : \E i \in 0 .. Most : i < j /\ e[i] = e[j]}
  <2>1. J # {}
    <3> DEFINE half == [k \in 0 .. Most |-> e[k] \div 2]
               S == 0 .. Most
               T == 0 .. Most - 1
    <3>1. \A k \in S : e[k] \in (L \cup D) \cup {0} BY <1>3 DEF P
    <3>2. \A k, l \in S : e[k] \div 2 \in T /\ (e[k] \div 2 = e[l] \div 2 => e[k] = e[l])
      <4> DEFINE B == L \cup D
      <4>1. \A k \in S : e[k] \in B \cup {0} BY <3>1
      <4>2. Area(v, heap.brk, B) BY <1>1
      <4> HIDE DEF B, v, S, T
      <4>3. ASSUME NEW k \in S, NEW l \in S
            PROVE  e[k] \div 2 \in 0 .. Most - 1 /\ (e[k] \div 2 = e[l] \div 2 => e[k] = e[l])
        <5>1. e[k] \in B \cup {0} /\ e[l] \in B \cup {0} BY <4>1
        <5> QED BY <4>2, <5>1, Halved
      <4> QED BY <4>3 DEF T
    <3>3. half \in [S -> T] BY <3>2
    <3>4. IsFiniteSet(S) /\ Cardinality(S) = Most + 1
      <4>1. 0 \in Int /\ Most \in Int /\ ~ (0 > Most) /\ Most - 0 + 1 = Most + 1 BY <1>2
      <4> QED BY <4>1, FS_Interval
    <3>5. IsFiniteSet(T) /\ Cardinality(T) = Most
      <4> DEFINE m == Most - 1
      <4>1. 0 \in Int /\ m \in Int /\ ~ (0 > m) /\ m - 0 + 1 = Most BY <1>2
      <4> HIDE DEF m
      <4>2. IsFiniteSet(0 .. m) /\ Cardinality(0 .. m) = Most BY <4>1, FS_Interval
      <4> QED BY <4>2 DEF m
    <3>6. Cardinality(T) < Cardinality(S) BY <1>2, <3>4, <3>5
    <3> HIDE DEF half, S, T
    <3>7. PICK i, j \in S : i # j /\ half[i] = half[j] BY <3>3, <3>4, <3>5, <3>6, FS_PigeonHole
    <3>8. e[i] = e[j] BY <3>2, <3>7 DEF half, S
    <3>9. i \in Nat /\ j \in Nat BY <1>2 DEF S
    <3>10. CASE i < j BY <3>8, <3>10 DEF S
    <3>11. CASE j < i BY <3>8, <3>11 DEF S
    <3> QED BY <3>7, <3>9, <3>10, <3>11
  <2>2. PICK j \in J : \A l \in J : l <= j
    <3>1. J \subseteq 0 .. Most OBVIOUS
    <3> HIDE DEF J
    <3> QED BY <1>2, <2>1, <3>1, GreatestOf
  <2>3. PICK i \in 0 .. Most : i < j /\ e[i] = e[j] BY <2>2
  <2>4. j = Most
    <3>1. ASSUME j # Most PROVE FALSE
      <4>1. j + 1 \in 1 .. Most /\ (j + 1) - 1 = j /\ i + 1 \in 1 .. Most /\ (i + 1) - 1 = i /\ i + 1 < j + 1
        BY <1>2, <2>2, <2>3, <3>1
      <4>2. e[j + 1] = e[i + 1] BY <1>3, <2>3, <4>1
      <4>3. j + 1 \in J BY <4>1, <4>2
      <4>4. j + 1 <= j BY <2>2, <4>3
      <4> QED BY <1>2, <2>2, <4>4
    <3> QED BY <3>1
  <2>5. i \in 0 .. Most - 1 BY <1>2, <2>3, <2>4
  <2> QED BY <2>3, <2>4, <2>5
<1>6. \A x \in R : v[x].next \in R
  <2> SUFFICES ASSUME NEW k \in 0 .. Most PROVE v[e[k]].next \in R OBVIOUS
  <2>1. CASE k # Most
    <3>1. k + 1 \in 1 .. Most /\ (k + 1) - 1 = k /\ k + 1 \in 0 .. Most BY <1>2, <2>1
    <3> QED BY <1>3, <3>1
  <2>2. CASE k = Most
    <3>1. PICK i \in 0 .. Most - 1 : e[i] = e[Most] BY <1>5
    <3>2. i + 1 \in 1 .. Most /\ (i + 1) - 1 = i /\ i + 1 \in 0 .. Most BY <1>2
    <3> QED BY <1>3, <2>2, <3>1, <3>2
  <2> QED BY <2>1, <2>2
<1>7. R \in SUBSET P /\ R # {}
  <2>1. 0 \in 0 .. Most BY <1>2
  <2> QED BY <1>3, <2>1
<1> HIDE DEF R
<1>8. R = P BY <1>1, <1>6, <1>7 DEF Ring
<1> QED BY <1>4, <1>8 DEF P

LEMMA InvListExact == IInv => ListExact
<1> SUFFICES ASSUME IInv PROVE ListExact OBVIOUS
<1>1. PICK L \in SUBSET Units : Shape(heap, L, DOMAIN live) BY DEF IInv, Good
<1>2. Ring(heap.unit, L \cup {0}) BY <1>1, Shapes DEF ShapeIs
<1>3. OnList = L \cup {0} /\ FreeBlocks = L BY <1>1, OnListIs, BlocksAre
<1> QED BY <1>2, <1>3 DEF ListExact, Ring

\* The inductive invariant: the blocks on the list and those in use tile the area up to
\* the break, with their sizes at both ends; next leads round the base and the free
\* blocks and prev undoes it; the flags that mm_free reads are right; and what the
\* client wrote is still there.
THEOREM Invariance == Spec => []IInv
<1> QED BY InitInv, NextInv, PTL DEF Spec

\* What the allocator reads of any block agrees with what the client holds: from size
\* to size every block up to the break is reached, both its ends carry its size, and
\* the blocks in use are tagged at both ends, are the client's, have room for what it
\* asked for and pass the assertion of mm_free (mm_kr2_heap.c).
THEOREM TagsAreExact == Spec => []TagsExact
<1> QED BY Invariance, InvTagsExact, PTL

\* The list from freep is circular, holds the base and exactly the free blocks, and
\* prev undoes next: what mm_free and mm_malloc unlink is on it (mm_kr2_heap.c).
THEOREM ListIsExact == Spec => []ListExact
<1> QED BY Invariance, InvListExact, PTL

-----------------------------------------------------------------------------
(* The tagged blocks implement the abstract heap. *)

\* The client's view, as the abstract heap shows it.
Blobs(s) == [i \in 1 .. Len(s) |-> Blob(s[i])]
At(D) == {b + 1 : b \in D}
Shown(held) == [p \in At(DOMAIN held) |-> Blobs(held[p - 1])]

LEMMA GoodHeld ==
  ASSUME NEW h, NEW held, Good(h, held)
  PROVE  /\ DOMAIN held \subseteq Nat /\ held \in [DOMAIN held -> Seq(Vals)]
         /\ \A b \in DOMAIN held : Len(held[b]) \in Nat
<1>1. PICK L \in SUBSET Units : Shape(h, L, DOMAIN held) BY DEF Good
<1>2. \A b \in DOMAIN held : b \in Nat BY <1>1, ShapeTypes
<1>3. held \in [DOMAIN held -> Seq(Vals)] BY DEF Good
<1>4. DOMAIN held \subseteq Nat BY <1>2
<1>5. \A b \in DOMAIN held : held[b] \in Seq(Vals) BY <1>3
<1>6. \A b \in DOMAIN held : Len(held[b]) \in Nat BY <1>5
<1> QED BY <1>3, <1>4, <1>6

LEMMA ShownIs ==
  ASSUME NEW held, DOMAIN held \subseteq Nat
  PROVE  /\ DOMAIN Shown(held) = At(DOMAIN held)
         /\ \A b \in DOMAIN held : Shown(held)[b + 1] = Blobs(held[b])
<1>1. \A b \in DOMAIN held : b + 1 \in At(DOMAIN held) /\ (b + 1) - 1 = b BY DEF At
<1> QED BY <1>1 DEF Shown

LEMMA BlobsLen ==
  ASSUME NEW s, Len(s) \in Nat
  PROVE  Len(Blobs(s)) = Len(s) /\ DOMAIN Blobs(s) = 1 .. Len(s)
BY DEF Blobs

\* What the client has written shows where it is.
LEMMA PayloadIs == IInv => Payload = Shown(live)
<1> SUFFICES ASSUME IInv PROVE Payload = Shown(live) OBVIOUS
<1>1. /\ DOMAIN live \subseteq Nat
      /\ \A b \in DOMAIN live : Len(live[b]) \in Nat
      /\ \A b \in DOMAIN live : \A i \in 1 .. Len(live[b]) : heap.unit[b + i] = Blob(live[b][i])
  <2>1. Good(heap, live) BY DEF IInv
  <2>2. \A b \in DOMAIN live : Holds(heap.unit, b, live[b]) BY <2>1 DEF Good
  <2> QED BY <2>1, <2>2, GoodHeld DEF Holds
<1>2. ASSUME NEW p \in At(DOMAIN live)
      PROVE  [i \in 1 .. Len(live[p - 1]) |-> heap.unit[p + i - 1]] = Blobs(live[p - 1])
  <2>1. PICK b \in DOMAIN live : p = b + 1 BY DEF At
  <2>2. p - 1 = b /\ b \in Nat /\ Len(live[b]) \in Nat BY <1>1, <2>1
  <2>3. \A i \in 1 .. Len(live[b]) : p + i - 1 = b + i BY <2>1, <2>2
  <2>4. \A i \in 1 .. Len(live[b]) : heap.unit[p + i - 1] = Blob(live[b][i]) BY <1>1, <2>3
  <2> QED BY <2>2, <2>4 DEF Blobs
<1>3. Payload = [p \in At(DOMAIN live) |-> [i \in 1 .. Len(live[p - 1]) |-> heap.unit[p + i - 1]]]
  BY DEF Payload, At
<1> QED BY <1>2, <1>3 DEF Shown

\* Two blocks in use have no unit in common, and their units are in the area.
LEMMA GoodApart ==
  ASSUME NEW h, NEW held, Good(h, held), NEW b \in DOMAIN held
  PROVE  /\ Promise!Span(b + 1, Len(held[b])) \subseteq Units
         /\ \A c \in DOMAIN held \ {b} :
              Promise!Span(b + 1, Len(held[b])) \cap Promise!Span(c + 1, Len(held[c])) = {}
<1> DEFINE D == DOMAIN held
           size(c) == h.unit[c].size
<1>1. PICK L \in SUBSET Units : Shape(h, L, D) BY DEF Good
<1>2. D \subseteq Nat /\ \A c \in D : Len(held[c]) \in Nat BY GoodHeld
<1>3. ASSUME NEW c \in D PROVE Len(held[c]) + 2 <= size(c) /\ size(c) \in Nat
  <2>1. Holds(h.unit, c, held[c]) BY DEF Good
  <2>2. size(c) \in Nat BY <1>1, ShapeTypes
  <2> QED BY <2>1, <2>2 DEF Holds
<1>4. ASSUME NEW c \in D
      PROVE  Promise!Span(c + 1, Len(held[c])) = c + 1 .. c + Len(held[c])
  <2>1. c + 1 + Len(held[c]) - 1 = c + Len(held[c]) BY <1>2
  <2> QED BY <2>1 DEF Promise!Span
<1>5. Promise!Span(b + 1, Len(held[b])) \subseteq Units
  <2> SUFFICES ASSUME NEW u \in b + 1 .. b + Len(held[b]) PROVE u \in Units BY <1>4
  <2>1. b \in D /\ b \in Nat /\ Len(held[b]) \in Nat BY <1>2
  <2>2. Len(held[b]) + 2 <= size(b) /\ size(b) \in Nat BY <1>3
  <2> HIDE DEF size
  <2>3. u - b \in 1 .. size(b) - 2 /\ u = b + (u - b) BY <2>1, <2>2
  <2>4. b + (u - b) \in Units BY <1>1, <2>1, <2>3, ShapeTypes DEF size
  <2> QED BY <2>3, <2>4
<1>6. ASSUME NEW c \in D \ {b}
      PROVE  Promise!Span(b + 1, Len(held[b])) \cap Promise!Span(c + 1, Len(held[c])) = {}
  <2>1. \A x, y \in L \cup D : x < y => x + size(x) <= y
    <3>1. Tiled(h.unit, h.brk, L \cup D) BY <1>1 DEF Shape, Loose
    <3> QED BY <3>1 DEF Tiled
  <2>2. /\ c \in D /\ b \in D /\ c # b /\ b \in Nat /\ c \in Nat
        /\ Len(held[b]) \in Nat /\ Len(held[c]) \in Nat
    BY <1>2
  <2>3. /\ Len(held[b]) + 2 <= size(b) /\ size(b) \in Nat
        /\ Len(held[c]) + 2 <= size(c) /\ size(c) \in Nat
    BY <1>3, <2>2
  <2>4. b < c => b + size(b) <= c BY <2>1, <2>2
  <2>5. c < b => c + size(c) <= b BY <2>1, <2>2
  <2> HIDE DEF size, D
  <2>6. (b + 1 .. b + Len(held[b])) \cap (c + 1 .. c + Len(held[c])) = {}
    BY <2>2, <2>3, <2>4, <2>5
  <2> QED BY <1>4, <2>2, <2>6
<1> QED BY <1>5, <1>6

\* What such a step does to the blocks of the abstract heap.
LEMMA PutMaps ==
  ASSUME NEW D, D \subseteq DOMAIN live, NEW s, Len(s) \in Nat,
         Good(heap, live), Payload = Shown(live), Payload' = Shown(live'), PutStep(D, s)
  PROVE  \E p \in DOMAIN Payload' :
           /\ Payload'[p] = Blobs(s)
           /\ Promise!Apart(p, Len(Blobs(s)), At(D))
           /\ Payload' = Promise!With(p, Blobs(s), At(D))
<1>1. PICK at : at \notin D /\ live' = Put(live, D, at, s) BY DEF PutStep
<1>2. Good(heap', live') BY DEF PutStep
<1> DEFINE X == Shown(live)
           E == D \cup {at}
<1>3. /\ DOMAIN live' = E /\ live'[at] = s /\ at \in E
      /\ \A c \in D : live'[c] = live[c]
  BY <1>1 DEF Put
<1>4. DOMAIN live \subseteq Nat /\ E \subseteq Nat BY <1>2, <1>3, GoodHeld
<1>5. DOMAIN Payload' = At(E) /\ \A c \in E : Payload'[c + 1] = Blobs(live'[c])
  BY <1>3, <1>4, ShownIs
<1>6. DOMAIN X = At(DOMAIN live) /\ \A c \in DOMAIN live : X[c + 1] = Blobs(live[c])
  BY <1>4, GoodHeld, ShownIs
<1>7. at + 1 \in DOMAIN Payload' /\ Payload'[at + 1] = Blobs(s) BY <1>3, <1>5 DEF At
<1>8. At(E) = At(D) \cup {at + 1} /\ at + 1 \notin At(D) /\ at \in Nat /\ D \subseteq Nat
  BY <1>1, <1>3, <1>4 DEF At
<1>9. Payload' = Promise!With(at + 1, Blobs(s), At(D))
  <2>1. Payload' = [p \in At(E) |-> Payload'[p]] BY <1>5 DEF Shown
  <2>2. ASSUME NEW p \in At(E) PROVE Payload'[p] = IF p = at + 1 THEN Blobs(s) ELSE X[p]
    <3>1. CASE p = at + 1 BY <1>7, <3>1
    <3>2. CASE p # at + 1
      <4>1. PICK c \in D : p = c + 1 BY <1>8, <3>2 DEF At
      <4>2. Payload'[c + 1] = Blobs(live'[c]) /\ live'[c] = live[c] BY <1>3, <1>5, <4>1
      <4>3. X[c + 1] = Blobs(live[c]) BY <1>6, <4>1
      <4> QED BY <3>2, <4>1, <4>2, <4>3
    <3> QED BY <3>1, <3>2
  <2>3. Payload = X OBVIOUS
  <2> HIDE DEF X
  <2> QED BY <1>8, <2>1, <2>2, <2>3 DEF Promise!With
<1>10. Promise!Apart(at + 1, Len(Blobs(s)), At(D))
  <2>1. Len(Blobs(s)) = Len(s) BY BlobsLen
  <2>2. /\ Promise!Span(at + 1, Len(s)) \subseteq Units
        /\ \A c \in E \ {at} : Promise!Span(at + 1, Len(s)) \cap Promise!Span(c + 1, Len(live'[c])) = {}
    BY <1>2, <1>3, GoodApart
  <2>3. ASSUME NEW q \in At(D)
        PROVE  at + 1 # q /\ Promise!Span(at + 1, Len(s)) \cap Promise!Span(q, Len(Payload[q])) = {}
    <3>1. PICK c \in D : q = c + 1 BY DEF At
    <3>2. c \in E \ {at} /\ c \in DOMAIN live /\ live'[c] = live[c] BY <1>1, <1>3
    <3>3. Payload[q] = Blobs(live[c]) BY <1>6, <3>1, <3>2
    <3>4. Len(live[c]) \in Nat BY <3>2, GoodHeld
    <3>5. Len(Payload[q]) = Len(live[c]) BY <3>3, <3>4, BlobsLen
    <3>6. at + 1 # q BY <1>8
    <3> QED BY <2>2, <3>1, <3>2, <3>5, <3>6
  <2> QED BY <2>1, <2>2, <2>3 DEF Promise!Apart
<1> QED BY <1>7, <1>9, <1>10

\* Every step is one of the abstract heap's, or none.
LEMMA NextMaps ==
  ASSUME IInv, IInv', [Next]_vars, Payload = Shown(live), Payload' = Shown(live')
  PROVE  [Promise!Next]_Payload
<1>1. CASE live' = live
  BY <1>1
<1>2. CASE live' = NoneHeld
  <2>1. Shown(NoneHeld) = [p \in {} |-> <<>>] BY DEF Shown, At, NoneHeld
  <2>2. Promise!Reset BY <1>2, <2>1 DEF Promise!Reset, Promise!Init
  <2> QED BY <2>2 DEF Promise!Next
<1>3. CASE \E n \in 0 .. MaxRequest, v \in Vals : Malloc(n, v)
  <2>1. PICK n \in 0 .. MaxRequest, v \in Vals : Malloc(n, v) BY <1>3
  <2>2. Good(heap, live) BY DEF IInv
  <2>3. CASE PutStep(DOMAIN live, Repeated(n, v))
    <3>1. Len(Repeated(n, v)) \in Nat BY HeapAssumption DEF Repeated
    <3>2. PICK p \in DOMAIN Payload' :
                 /\ Payload'[p] = Blobs(Repeated(n, v))
                 /\ Promise!Apart(p, Len(Blobs(Repeated(n, v))), At(DOMAIN live))
                 /\ Payload' = Promise!With(p, Blobs(Repeated(n, v)), At(DOMAIN live))
      BY <2>2, <2>3, <3>1, PutMaps
    <3>3. Promise!Held = At(DOMAIN live) BY <2>2, GoodHeld, ShownIs DEF Promise!Held
    <3>4. Promise!Malloc(p, Payload'[p]) BY <3>2, <3>3 DEF Promise!Malloc
    <3> QED BY <3>2, <3>4 DEF Promise!Next
  <2> QED BY <1>1, <2>1, <2>2, <2>3, MallocStep
<1>4. CASE \E n \in 0 .. MaxRequest, v \in Vals : \E b \in DOMAIN live : Realloc(b, n, v)
  <2>1. PICK n \in 0 .. MaxRequest, v \in Vals : \E b \in DOMAIN live : Realloc(b, n, v) BY <1>4
  <2>2. PICK b \in DOMAIN live : Realloc(b, n, v) BY <2>1
  <2>3. Good(heap, live) BY DEF IInv
  <2> DEFINE s == Grown(live[b], n, v)
             D == DOMAIN live \ {b}
  <2>4. CASE PutStep(D, s)
    <3>1. /\ DOMAIN live \subseteq Nat /\ live[b] \in Seq(Vals) /\ n \in Nat
          /\ Len(live[b]) \in Nat
      BY <2>3, GoodHeld, HeapAssumption
    <3>2. /\ Len(s) = n
          /\ \A i \in 1 .. n : i <= Len(live[b]) => s[i] = live[b][i]
      BY <3>1, GrownIs
    <3> HIDE DEF s, D
    <3>3. PICK p \in DOMAIN Payload' :
                 /\ Payload'[p] = Blobs(s)
                 /\ Promise!Apart(p, Len(Blobs(s)), At(D))
                 /\ Payload' = Promise!With(p, Blobs(s), At(D))
      <4>1. D \subseteq DOMAIN live BY DEF D
      <4> QED BY <2>3, <2>4, <3>1, <3>2, <4>1, PutMaps
    <3>4. /\ Promise!Held = At(DOMAIN live) /\ Payload[b + 1] = Blobs(live[b])
      BY <3>1, ShownIs DEF Promise!Held
    <3>5. b + 1 \in Promise!Held /\ At(D) = Promise!Held \ {b + 1} BY <3>1, <3>4 DEF At, D
    <3>6. \A i \in DOMAIN Blobs(s) : i <= Len(Payload[b + 1]) => Blobs(s)[i] = Payload[b + 1][i]
      <4> SUFFICES ASSUME NEW i \in DOMAIN Blobs(s), i <= Len(Payload[b + 1])
                   PROVE  Blobs(s)[i] = Payload[b + 1][i]
        OBVIOUS
      <4>1. i \in 1 .. n BY <3>1, <3>2, BlobsLen
      <4>2. Len(Payload[b + 1]) = Len(live[b]) BY <3>1, <3>4, BlobsLen
      <4>3. i <= Len(live[b]) /\ i \in 1 .. Len(live[b]) BY <3>1, <4>1, <4>2
      <4>4. s[i] = live[b][i] BY <3>2, <4>1, <4>3
      <4>5. Blobs(s)[i] = Blob(s[i]) /\ Blobs(live[b])[i] = Blob(live[b][i])
        BY <3>2, <4>1, <4>3 DEF Blobs
      <4> QED BY <3>4, <4>4, <4>5
    <3>7. Promise!Realloc(b + 1, p, Payload'[p]) BY <3>3, <3>5, <3>6 DEF Promise!Realloc
    <3> QED BY <3>3, <3>5, <3>7 DEF Promise!Next
  <2> QED BY <1>1, <2>2, <2>3, <2>4, ReallocStep
<1>5. CASE \E b \in DOMAIN live : Free(b)
  <2>1. PICK b \in DOMAIN live : Free(b) BY <1>5
  <2>2. Good(heap, live) BY DEF IInv
  <2> DEFINE D == DOMAIN live \ {b}
  <2>3. live' = [c \in D |-> live[c]] BY <2>1, <2>2, FreeStep
  <2>4. DOMAIN live \subseteq Nat BY <2>2, GoodHeld
  <2>5. /\ Promise!Held = At(DOMAIN live)
        /\ \A c \in DOMAIN live : Payload[c + 1] = Blobs(live[c])
    BY <2>4, ShownIs DEF Promise!Held
  <2>6. b + 1 \in Promise!Held /\ At(D) = Promise!Held \ {b + 1} BY <2>4, <2>5 DEF At
  <2>7. Payload' = [p \in At(D) |-> Payload[p]]
    <3>1. DOMAIN live' = D /\ D \subseteq Nat BY <2>3, <2>4
    <3>2. DOMAIN Payload' = At(D) /\ \A c \in D : Payload'[c + 1] = Blobs(live'[c])
      BY <3>1, ShownIs
    <3>3. Payload' = [p \in At(D) |-> Payload'[p]] BY <3>1 DEF Shown
    <3>4. \A p \in At(D) : Payload'[p] = Payload[p] BY <2>3, <2>5, <3>2 DEF At
    <3> QED BY <3>3, <3>4
  <2>8. Promise!Free(b + 1) BY <2>6, <2>7 DEF Promise!Free
  <2> QED BY <2>6, <2>8 DEF Promise!Next
<1>6. CASE mm_reset \/ mm_deinit BY <1>2, <1>6 DEF mm_reset, mm_deinit, NoneHeld
<1>7. CASE UNCHANGED vars BY <1>1, <1>7 DEF vars
<1> QED BY <1>3, <1>4, <1>5, <1>6, <1>7 DEF Next

\* Every allocation is a run of units of its own that holds what the client wrote until
\* it is freed; mm_realloc keeps the contents; a call that fails changes nothing
\* (mm_kr2_heap.c).
THEOREM BoundaryTagsRefinement == Spec => ImplementsHeap
<1>1. Init => Promise!Init
  <2> SUFFICES ASSUME Init PROVE Promise!Init OBVIOUS
  <2>1. live = NoneHeld BY DEF Init, NoneHeld
  <2>2. Payload = Shown(live) BY InitInv, PayloadIs
  <2>3. Shown(NoneHeld) = [p \in {} |-> <<>>] BY DEF Shown, At, NoneHeld
  <2> QED BY <2>1, <2>2, <2>3 DEF Promise!Init
<1>2. IInv /\ IInv' /\ [Next]_vars => [Promise!Next]_Payload
  <2>1. (IInv => Payload = Shown(live))' BY PayloadIs, PTL
  <2>2. IInv' => Payload' = Shown(live)' BY <2>1
  <2>3. Shown(live)' = Shown(live') BY DEF Shown, At
  <2>4. IInv' => Payload' = Shown(live') BY <2>2, <2>3
  <2> QED BY <2>4, PayloadIs, NextMaps
<1> QED BY <1>1, <1>2, Invariance, PTL DEF Spec, ImplementsHeap, Promise!Spec

=============================================================================
