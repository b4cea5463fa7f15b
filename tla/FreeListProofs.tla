---------------------------- MODULE FreeListProofs ----------------------------
(***************************************************************************)
(* Theorems about FreeList, for every size of the area, every page size    *)
(* and all requests.                                                       *)
(***************************************************************************)
EXTENDS FreeList, WellFoundedInduction, NaturalsInduction, TLAPS

-----------------------------------------------------------------------------
(* The heap as blocks: those on the list, L, and those in use, D. *)

HeapType == [unit : [Units -> [ptr : Units \cup {Null}, size : Units]],
             freep : Units, brk : 0 .. NUnits + 1]

\* The blocks B fill the units below the break, each ending where the next begins.
Tiled(unit, brk, B) ==
  /\ B \subseteq 1 .. brk - 1
  /\ 1 \in B \cup {brk}
  /\ \A b \in B : unit[b].size > 0 /\ b + unit[b].size \in B \cup {brk}
  /\ \A b, c \in B : b < c => b + unit[b].size <= c

\* The next of p is q, the first of L above p, or base when there is none.
NextIs(L, p, q) ==
  /\ q \in L \cup {Base}
  /\ q = Base \/ q > p
  /\ \A c \in L : c <= p \/ (q # Base /\ q <= c)
Sorted(unit, L) == \A p \in L \cup {Base} : NextIs(L, p, unit[p].ptr)

\* No block of L ends where another begins.
Joined(unit, L) == \A a, b \in L : a + unit[a].size # b

Shape(h, L, D) ==
  /\ h \in HeapType /\ h.brk # 0
  /\ h.unit[Base].size = 0
  /\ h.freep \in L \cup {Base}
  /\ L \cap D = {}
  /\ Tiled(h.unit, h.brk, L \cup D)
  /\ Sorted(h.unit, L)
  /\ Joined(h.unit, L)

\* What the client has written into its block b is there.
Holds(unit, b, s) ==
  /\ s \in Seq(Vals) /\ Len(s) < unit[b].size
  /\ \A i \in 1 .. Len(s) : unit[b + i] = Blob(s[i])

Good(h, held) ==
  /\ \E L \in SUBSET Units : Shape(h, L, DOMAIN held)
  /\ \A b \in DOMAIN held : Holds(h.unit, b, held[b])
  /\ held \in [DOMAIN held -> Seq(Vals)]

NoneHeld == [b \in {} |-> <<>>]
Closed == /\ heap \in HeapType /\ heap.freep = Base /\ heap.unit[Base].ptr = Base
          /\ live = NoneHeld
IInv == IF heap.brk = 0 THEN Closed ELSE Good(heap, live)

-----------------------------------------------------------------------------
(* Numbers. *)

LEMMA LeastOf ==
  ASSUME NEW S, S \subseteq Nat, S # {}
  PROVE  \E n \in S : \A m \in S : n <= m
<1>1. \A m, n \in Nat : m < n => <<m, n>> \in OpToRel(<, Nat)
  BY DEF OpToRel
<1>2. PICK R : IsWellFoundedOn(R, Nat) /\ \A m, n \in Nat : m < n => <<m, n>> \in R
  BY <1>1, NatLessThanWellFounded, Zenon
<1>3. PICK n \in S : \A m \in S : ~(<<m, n>> \in R)
  BY <1>2, WFMin, ZenonT(40)
<1>4. ASSUME NEW m \in S PROVE n <= m
  <2>1. m \in Nat /\ n \in Nat /\ <<m, n>> \notin R BY <1>3
  <2>2. ~(m < n) BY <1>2, <2>1, Zenon
  <2> QED BY <2>1, <2>2
<1> QED BY <1>4

LEMMA MinIs ==
  ASSUME NEW S, S \subseteq Nat, S # {}
  PROVE  Min(S) \in S /\ \A m \in S : Min(S) <= m
BY LeastOf DEF Min

LEMMA GreatestOf ==
  ASSUME NEW S, NEW n \in Nat, S \subseteq 0 .. n, S # {}
  PROVE  \E m \in S : \A k \in S : k <= m
<1> DEFINE T == {k \in Nat : n - k \in S}
<1>1. T # {}
  <2>1. PICK m : m \in S OBVIOUS
  <2>2. n - m \in Nat /\ n - (n - m) = m BY <2>1
  <2> QED BY <2>1, <2>2
<1>2. PICK k \in T : \A m \in T : k <= m
  <2> HIDE DEF T
  <2>1. T \subseteq Nat BY DEF T
  <2> QED BY <1>1, <2>1, LeastOf
<1>3. ASSUME NEW m \in S PROVE m <= n - k
  <2>1. n - m \in Nat /\ n - (n - m) = m BY <1>3
  <2>2. n - m \in T BY <2>1
  <2>3. k <= n - m BY <1>2, <2>2
  <2> QED BY <2>1, <2>3
<1> QED BY <1>2, <1>3

-----------------------------------------------------------------------------
(* Following the list, and going from size to size. *)

\* A function is applied again and again: if there were a number of times that it
\* could not be, the least such number would be one more than a number that is not.
Iterated(U, a, g, n) ==
  \E f \in [0 .. n -> U] : f[0] = a /\ \A k \in 1 .. n : f[k] = g[f[k - 1]]

LEMMA Iterates ==
  ASSUME NEW U, NEW a \in U, NEW g \in [U -> U], NEW n \in Nat
  PROVE  Iterated(U, a, g, n)
<1> USE DEF Iterated
<1> DEFINE Is(f, m) == f \in [0 .. m -> U] /\ f[0] = a /\ \A k \in 1 .. m : f[k] = g[f[k - 1]]
           Missing == {m \in Nat : ~ \E f : Is(f, m)}
<1>1. ASSUME Missing # {} PROVE FALSE
  <2> HIDE DEF Is
  <2>1. PICK m \in Missing : \A l \in Missing : m <= l
    <3>1. Missing \subseteq Nat OBVIOUS
    <3> HIDE DEF Missing
    <3> QED BY <1>1, <3>1, LeastOf
  <2>2. m \in Nat /\ ~ \E f : Is(f, m) BY <2>1
  <2>3. m # 0
    <3>1. Is([k \in 0 .. 0 |-> a], 0) BY DEF Is
    <3> QED BY <2>2, <3>1
  <2>4. m - 1 \in Nat BY <2>2, <2>3
  <2>5. m - 1 \notin Missing
    <3> HIDE DEF Missing
    <3> QED BY <2>1, <2>2, <2>4
  <2>6. PICK f : Is(f, m - 1) BY <2>4, <2>5
  <2> DEFINE e == [k \in 0 .. m |-> IF k = m THEN g[f[m - 1]] ELSE f[k]]
  <2>7. f \in [0 .. m - 1 -> U] /\ f[m - 1] \in U BY <2>4, <2>6 DEF Is
  <2>8. e \in [0 .. m -> U] BY <2>2, <2>7
  <2>9. e[0] = a BY <2>3, <2>4, <2>6 DEF Is
  <2>10. ASSUME NEW k \in 1 .. m PROVE e[k] = g[e[k - 1]]
    <3>1. CASE k = m BY <2>2, <2>3, <2>4, <3>1
    <3>2. CASE k # m
      <4>1. k \in 1 .. m - 1 /\ k - 1 \in 0 .. m /\ k - 1 # m /\ k \in 0 .. m BY <2>4, <3>2
      <4>2. f[k] = g[f[k - 1]] BY <2>6, <4>1 DEF Is
      <4> QED BY <3>2, <4>1, <4>2
    <3> QED BY <3>1, <3>2
  <2>11. Is(e, m)
    <3> HIDE DEF e
    <3> QED BY <2>8, <2>9, <2>10 DEF Is
  <2> QED BY <2>2, <2>11
<1> QED BY <1>1

LEMMA NthIs ==
  ASSUME NEW h, NEW U, h.freep \in U, \A p \in U : h.unit[p].ptr \in U
  PROVE  /\ Nth(h) \in [0 .. NUnits + 1 -> U]
         /\ Nth(h)[0] = h.freep
         /\ \A k \in 1 .. NUnits + 1 : Nth(h)[k] = h.unit[Nth(h)[k - 1]].ptr
<1> DEFINE g == [p \in U |-> h.unit[p].ptr]
           Is(f) == f = [k \in 0 .. NUnits + 1 |-> IF k = 0 THEN h.freep ELSE h.unit[f[k - 1]].ptr]
<1>1. NUnits + 1 \in Nat BY HeapAssumption
<1>2. g \in [U -> U] OBVIOUS
<1>3. PICK f \in [0 .. NUnits + 1 -> U] :
             f[0] = h.freep /\ \A k \in 1 .. NUnits + 1 : f[k] = g[f[k - 1]]
  <2> HIDE DEF g
  <2>1. Iterated(U, h.freep, g, NUnits + 1) BY <1>1, <1>2, Iterates
  <2> QED BY <2>1 DEF Iterated
<1>4. ASSUME NEW k \in 1 .. NUnits + 1 PROVE f[k] = h.unit[f[k - 1]].ptr
  <2>1. k - 1 \in 0 .. NUnits + 1 BY <1>1
  <2>2. f[k - 1] \in U BY <2>1
  <2> QED BY <1>3, <2>2
<1>5. Is(f)
  <2>1. f = [k \in 0 .. NUnits + 1 |-> f[k]] OBVIOUS
  <2>2. ASSUME NEW k \in 0 .. NUnits + 1
        PROVE  f[k] = IF k = 0 THEN h.freep ELSE h.unit[f[k - 1]].ptr
    <3>1. k # 0 => k \in 1 .. NUnits + 1 BY <1>1
    <3> QED BY <1>3, <1>4, <3>1
  <2> QED BY <2>1, <2>2
<1>6. Is(Nth(h)) BY <1>5 DEF Nth
<1>7. 0 \in 0 .. NUnits + 1 /\ 1 .. NUnits + 1 \subseteq 0 .. NUnits + 1 /\ 0 \notin 1 .. NUnits + 1
  BY <1>1
<1> DEFINE e == Nth(h)
<1>8. /\ DOMAIN e = 0 .. NUnits + 1
      /\ e[0] = h.freep
      /\ \A k \in 1 .. NUnits + 1 : e[k] = h.unit[e[k - 1]].ptr
      /\ e = [k \in 0 .. NUnits + 1 |-> e[k]]
  <2>1. Is(e) BY <1>6
  <2> HIDE DEF e
  <2> QED BY <1>7, <2>1
<1>9. \A k \in 0 .. NUnits + 1 : e[k] \in U
  <2> DEFINE Out == {k \in Nat : k <= NUnits + 1 /\ e[k] \notin U}
  <2> HIDE DEF e
  <2>1. ASSUME Out # {} PROVE FALSE
    <3>1. PICK k \in Out : \A l \in Out : k <= l
      <4>1. Out \subseteq Nat OBVIOUS
      <4> HIDE DEF Out
      <4> QED BY <2>1, <4>1, LeastOf
    <3>2. k # 0 BY <1>8, <3>1
    <3>3. k \in 1 .. NUnits + 1 /\ k - 1 \in Nat /\ k - 1 <= NUnits + 1 BY <1>1, <3>1, <3>2
    <3>4. k - 1 \notin Out
      <4> HIDE DEF Out
      <4> QED BY <3>1, <3>3
    <3>5. e[k - 1] \in U BY <3>3, <3>4
    <3> QED BY <1>8, <3>1, <3>3, <3>5
  <2> QED BY <1>1, <2>1
<1>10. e \in [0 .. NUnits + 1 -> U]
  <2> HIDE DEF e
  <2> QED BY <1>8, <1>9
<1> QED BY <1>8, <1>10

-----------------------------------------------------------------------------
(* What the list leads to. *)

\* The last of the list below an address.
LEMMA Below ==
  ASSUME NEW L, L \subseteq Units, NEW b \in Nat, b # 0
  PROVE  \E p \in L \cup {Base} : p < b /\ \A c \in L : c < b => c <= p
<1>1. NUnits \in Nat BY HeapAssumption
<1> DEFINE S == {c \in L \cup {Base} : c < b}
<1>2. S \subseteq 0 .. NUnits
  <2>1. L \subseteq 0 .. NUnits /\ Base \in 0 .. NUnits BY <1>1 DEF Units, Base
  <2> QED BY <2>1
<1>3. Base \in S BY <1>1 DEF Base
<1> HIDE DEF S
<1>4. PICK p \in S : \A c \in S : c <= p BY <1>1, <1>2, <1>3, GreatestOf
<1> QED BY <1>4 DEF S

LEMMA NextOfLast ==
  ASSUME NEW unit, NEW L, L \subseteq Nat, Base \notin L, Sorted(unit, L),
         NEW p \in L \cup {Base}, NEW b \in L, p < b, \A c \in L : c < b => c <= p
  PROVE  unit[p].ptr = b
<1>1. NextIs(L, p, unit[p].ptr) BY DEF Sorted
<1>2. p \in Nat /\ b \in Nat BY DEF Base
<1> DEFINE q == unit[p].ptr
<1>3. q # Base /\ q <= b BY <1>1, <1>2 DEF NextIs
<1>4. q \in L /\ q > p
  <2>1. q \in L \cup {Base} BY <1>1 DEF NextIs
  <2>2. q = Base \/ q > p BY <1>1 DEF NextIs
  <2> QED BY <1>3, <2>1, <2>2
<1>5. q \in Nat BY <1>4
<1> HIDE DEF q
<1>6. ~ (q < b)
  <2>1. q < b => q <= p BY <1>4
  <2> QED BY <1>2, <1>4, <1>5, <2>1
<1>7. q = b BY <1>2, <1>3, <1>5, <1>6
<1> QED BY <1>7 DEF q

LEMMA ListCovered ==
  ASSUME NEW h, NEW L, L \subseteq Units, Base \notin L, h.freep \in L \cup {Base}, Sorted(h.unit, L)
  PROVE  /\ Nth(h) \in [0 .. NUnits + 1 -> L \cup {Base}]
         /\ \A k \in 1 .. NUnits + 1 : Nth(h)[k] = h.unit[Nth(h)[k - 1]].ptr
         /\ \A p \in L \cup {Base} : \E k \in 0 .. NUnits : Nth(h)[k] = p
<1> DEFINE e == Nth(h)
           P == L \cup {Base}
           start == h.freep
<1>1. \A p \in P : h.unit[p].ptr \in P BY DEF Sorted, NextIs
<1>2. /\ e \in [0 .. NUnits + 1 -> P] /\ e[0] = start
      /\ \A k \in 1 .. NUnits + 1 : e[k] = h.unit[e[k - 1]].ptr
  BY <1>1, NthIs
<1>3. NUnits \in Nat /\ P \subseteq 0 .. NUnits /\ start \in P /\ L \subseteq P /\ Base \in P
  BY HeapAssumption DEF Units, Base
<1>4. Sorted(h.unit, L) OBVIOUS
<1> HIDE DEF e, start
<1> DEFINE By(c, k) == k \in 0 .. NUnits /\ e[k] = c
\* from a place on the list to the next
<1>5. ASSUME NEW p \in P, NEW k, By(p, k), NEW c \in P, c = h.unit[p].ptr, k < NUnits
      PROVE  By(c, k + 1)
  <2>1. k + 1 \in 1 .. NUnits + 1 /\ k + 1 \in 0 .. NUnits /\ (k + 1) - 1 = k BY <1>3, <1>5
  <2> QED BY <1>2, <1>5, <2>1
\* from a place to all above it
<1>6. ASSUME NEW a \in P, NEW s \in Nat, NEW top \in Nat, By(a, s), s + (top - a) <= NUnits
      PROVE  \A c \in P : c >= a /\ c <= top => \E k \in Nat : By(c, k) /\ k <= s + (c - a)
  <2> DEFINE Out == {c \in P : c >= a /\ c <= top /\ ~ \E k \in Nat : By(c, k) /\ k <= s + (c - a)}
  <2>1. ASSUME Out # {} PROVE FALSE
    <3>1. Out \subseteq Nat BY <1>3
    <3>2. PICK c \in Out : \A d \in Out : c <= d
      <4> HIDE DEF Out
      <4> QED BY <2>1, <3>1, LeastOf
    <3>3. c \in P /\ c >= a /\ c \in 0 .. NUnits /\ a \in 0 .. NUnits /\ c <= top BY <1>3, <3>2
    <3>4. ~ \E k \in Nat : By(c, k) /\ k <= s + (c - a) BY <3>2
    <3>5. c # a
      <4>1. CASE c = a
        <5>1. s <= s + (c - a) BY <3>3, <4>1
        <5> QED BY <1>6, <3>4, <4>1, <5>1
      <4> QED BY <4>1
    <3>6. c \in L /\ c \in Nat /\ c # 0 BY <3>3, <3>5 DEF Base
    <3>7. PICK p \in P : p < c /\ \A d \in L : d < c => d <= p BY <3>6, Below
    <3>8. p \in Nat /\ p >= a /\ p <= top BY <1>3, <3>3, <3>5, <3>7 DEF Base
    <3>9. p \notin Out
      <4> HIDE DEF Out
      <4> QED BY <3>2, <3>3, <3>7, <3>8
    <3>10. PICK k \in Nat : By(p, k) /\ k <= s + (p - a) BY <3>8, <3>9
    <3>11. c = h.unit[p].ptr
      <4>1. L \subseteq Nat /\ Base \notin L BY <1>3
      <4> QED BY <1>4, <3>6, <3>7, <4>1, NextOfLast
    <3>12. k < NUnits /\ k + 1 <= s + (c - a) /\ k + 1 \in Nat
      BY <1>3, <1>6, <3>3, <3>7, <3>8, <3>10
    <3>13. By(c, k + 1)
      <4> HIDE DEF By
      <4> QED BY <1>5, <3>3, <3>10, <3>11, <3>12
    <3> HIDE DEF By
    <3> QED BY <3>4, <3>12, <3>13
  <2> QED BY <2>1
<1>7. By(start, 0) BY <1>2, <1>3
<1>8. \A c \in P : c >= start => \E k \in Nat : By(c, k) /\ k <= c - start
  <2>1. start \in 0 .. NUnits BY <1>3
  <2>2. 0 + (NUnits - start) <= NUnits BY <1>3, <2>1
  <2>3. \A c \in P : 0 + (c - start) = c - start BY <1>3, <2>1
  <2>4. \A c \in P : c >= start /\ c <= NUnits => \E k \in Nat : By(c, k) /\ k <= 0 + (c - start)
    <3> HIDE DEF By
    <3> QED BY <1>3, <1>6, <1>7, <2>2
  <2> HIDE DEF By
  <2> QED BY <1>3, <2>3, <2>4
\* the last leads to base
<1>9. PICK m \in P : \A c \in P : c <= m BY <1>3, GreatestOf
<1>10. PICK l \in Nat : By(m, l) /\ l <= m - start
  <2>1. m >= start BY <1>3, <1>9
  <2> HIDE DEF By
  <2> QED BY <1>8, <2>1
<1>11. h.unit[m].ptr = Base
  <2>1. NextIs(L, m, h.unit[m].ptr) BY <1>4 DEF Sorted
  <2>2. h.unit[m].ptr \in P /\ h.unit[m].ptr <= m BY <1>9, <2>1 DEF NextIs
  <2> QED BY <1>3, <2>1, <2>2 DEF NextIs
<1>12. ASSUME NEW p \in P, p < start PROVE \E k \in 0 .. NUnits : e[k] = p
  <2>1. start \in 0 .. NUnits /\ m \in 0 .. NUnits /\ p \in 0 .. NUnits BY <1>3
  <2>2. l < NUnits /\ l + 1 <= NUnits - start + 1 /\ l + 1 \in Nat BY <1>3, <1>10, <1>12, <2>1
  <2>3. By(Base, l + 1)
    <3> HIDE DEF By
    <3> QED BY <1>3, <1>5, <1>10, <1>11, <2>2
  <2>4. \A c \in P : c >= Base /\ c <= start - 1 => \E k \in Nat : By(c, k) /\ k <= (l + 1) + (c - Base)
    <3>1. start - 1 \in Nat /\ (l + 1) + (start - 1 - Base) <= NUnits
      BY <1>3, <1>10, <1>12, <2>1 DEF Base
    <3> HIDE DEF By
    <3> QED BY <1>3, <1>6, <2>2, <2>3, <3>1
  <2>5. p >= Base /\ p <= start - 1 BY <1>12, <2>1 DEF Base
  <2> QED BY <2>4, <2>5
<1>13. \A p \in P : \E k \in 0 .. NUnits : e[k] = p
  <2>1. ASSUME NEW p \in P, p >= start PROVE \E k \in 0 .. NUnits : e[k] = p BY <1>8, <2>1
  <2>2. \A p \in P : p < start \/ p >= start BY <1>3
  <2> QED BY <1>12, <2>1, <2>2
<1> QED BY <1>2, <1>13 DEF e

\* Blocks that tile the area are found by going from size to size.
LEMMA StartsCovered ==
  ASSUME NEW B, heap.brk \in 1 .. NUnits + 1, Tiled(heap.unit, heap.brk, B),
         \A b \in B : heap.unit[b].size \in Nat
  PROVE  Starts = B \cup {heap.brk}
<1> DEFINE unit == heap.unit
           brk == heap.brk
           P == B \cup {brk}
           g == [b \in P |-> IF b < brk THEN b + unit[b].size ELSE b]
           Is(f) == f = [k \in 0 .. NUnits |->
                           IF k = 0 THEN 1
                           ELSE LET b == f[k - 1] IN IF b < brk THEN b + unit[b].size ELSE b]
<1>1. /\ NUnits \in Nat /\ brk \in 1 .. NUnits + 1 /\ B \subseteq 1 .. brk - 1 /\ 1 \in P
      /\ P \subseteq 1 .. NUnits + 1
  <2>1. NUnits \in Nat BY HeapAssumption
  <2>2. B \subseteq 1 .. brk - 1 /\ 1 \in P BY DEF Tiled
  <2>3. 1 .. brk - 1 \subseteq 1 .. NUnits + 1 BY <2>1
  <2> QED BY <2>1, <2>2, <2>3
<1>2. g \in [P -> P]
  <2>1. \A b \in P : b < brk => b \in B BY <1>1
  <2> QED BY <2>1 DEF Tiled
<1>3. PICK f \in [0 .. NUnits -> P] : f[0] = 1 /\ \A k \in 1 .. NUnits : f[k] = g[f[k - 1]]
  <2> HIDE DEF g, P
  <2>1. Iterated(P, 1, g, NUnits) BY <1>1, <1>2, Iterates
  <2> QED BY <2>1 DEF Iterated
<1>4. \A k \in 1 .. NUnits :
        f[k] = IF f[k - 1] < brk THEN f[k - 1] + unit[f[k - 1]].size ELSE f[k - 1]
  <2> SUFFICES ASSUME NEW k \in 1 .. NUnits
               PROVE  f[k] = IF f[k - 1] < brk THEN f[k - 1] + unit[f[k - 1]].size ELSE f[k - 1]
    OBVIOUS
  <2>1. k - 1 \in 0 .. NUnits BY <1>1
  <2>2. f[k - 1] \in P BY <2>1
  <2> QED BY <1>3, <2>2
<1> HIDE DEF g
<1>5. Is(f)
  <2>1. f = [k \in 0 .. NUnits |-> f[k]] OBVIOUS
  <2>2. ASSUME NEW k \in 0 .. NUnits, k # 0 PROVE k \in 1 .. NUnits BY <1>1, <2>2
  <2> QED BY <1>3, <1>4, <2>1, <2>2
<1>6. PICK e : Is(e) /\ Starts = {e[k] : k \in 0 .. NUnits} BY <1>5 DEF Starts
<1>7. /\ e[0] = 1
      /\ \A k \in 1 .. NUnits :
           e[k] = IF e[k - 1] < brk THEN e[k - 1] + unit[e[k - 1]].size ELSE e[k - 1]
  <2>1. 0 \in 0 .. NUnits /\ \A k \in 1 .. NUnits : k # 0 /\ k \in 0 .. NUnits BY <1>1
  <2> QED BY <1>6, <2>1
<1>8. \A k \in 0 .. NUnits : e[k] \in P
  <2> DEFINE Out == {k \in Nat : k <= NUnits /\ e[k] \notin P}
  <2>1. ASSUME Out # {} PROVE FALSE
    <3>1. PICK k \in Out : \A l \in Out : k <= l
      <4>1. Out \subseteq Nat OBVIOUS
      <4> HIDE DEF Out
      <4> QED BY <2>1, <4>1, LeastOf
    <3>2. k # 0 BY <1>1, <1>7, <3>1
    <3>3. k \in 1 .. NUnits /\ k - 1 \in Nat /\ k - 1 <= NUnits BY <1>1, <3>1, <3>2
    <3>4. k - 1 \notin Out
      <4> HIDE DEF Out
      <4> QED BY <3>1, <3>3
    <3>5. e[k - 1] \in P BY <3>3, <3>4
    <3>6. g[e[k - 1]] = e[k] BY <1>7, <3>3, <3>5 DEF g
    <3>7. e[k] \in P BY <1>2, <3>5, <3>6
    <3> QED BY <3>1, <3>7
  <2> QED BY <1>1, <2>1
<1>9. \A c \in P : \E k \in Nat : k <= NUnits /\ k <= c - 1 /\ e[k] = c
  <2> DEFINE Hit(c) == \E k \in Nat : k <= NUnits /\ k <= c - 1 /\ e[k] = c
             Out == {c \in P : ~ Hit(c)}
  <2>1. ASSUME Out # {} PROVE FALSE
    <3>1. Out \subseteq Nat BY <1>1
    <3>2. PICK c \in Out : \A d \in Out : c <= d
      <4> HIDE DEF Out
      <4> QED BY <2>1, <3>1, LeastOf
    <3>3. c \in P /\ ~ Hit(c) /\ c \in 1 .. NUnits + 1 BY <1>1, <3>2
    <3>4. c # 1 BY <1>1, <1>7, <3>3
    <3> DEFINE S == {b \in P : b < c}
    <3>5. S \subseteq 0 .. NUnits /\ 1 \in S BY <1>1, <3>3, <3>4
    <3>6. PICK b \in S : \A d \in S : d <= b
      <4> HIDE DEF S
      <4> QED BY <1>1, <3>5, GreatestOf
    <3>7. b \in P /\ b < c /\ b \in Nat /\ b < brk /\ b \in B
      <4>1. b \in P /\ b < c /\ b \in Nat BY <1>1, <3>6
      <4>2. c <= brk BY <1>1, <3>3
      <4> QED BY <1>1, <3>3, <4>1, <4>2
    <3>8. b \notin Out
      <4> HIDE DEF Out
      <4> QED BY <3>2, <3>3, <3>7
    <3>9. PICK k \in Nat : k <= NUnits /\ k <= b - 1 /\ e[k] = b BY <3>7, <3>8
    <3>10. b + unit[b].size = c
      <4>1. b + unit[b].size \in P /\ unit[b].size > 0 /\ unit[b].size \in Nat BY <3>7 DEF Tiled
      <4>2. b + unit[b].size <= c
        <5>1. CASE c \in B BY <3>7, <5>1 DEF Tiled
        <5>2. CASE c = brk BY <1>1, <4>1, <5>2
        <5> QED BY <3>3, <5>1, <5>2
      <4>3. ~ (b + unit[b].size < c)
        <5>1. ASSUME b + unit[b].size < c PROVE FALSE
          <6>1. b + unit[b].size \in S BY <4>1, <5>1
          <6>2. b + unit[b].size <= b BY <3>6, <6>1
          <6> QED BY <3>7, <4>1, <6>2
        <5> QED BY <5>1
      <4> QED BY <3>3, <3>7, <4>1, <4>2, <4>3
    <3>11. k + 1 \in 1 .. NUnits /\ (k + 1) - 1 = k /\ k + 1 <= c - 1
      BY <1>1, <3>3, <3>7, <3>9
    <3>12. e[k + 1] = c BY <1>7, <3>7, <3>9, <3>10, <3>11
    <3> QED BY <3>3, <3>11, <3>12
  <2> QED BY <2>1
<1>10. \A c \in P : \E k \in 0 .. NUnits : e[k] = c BY <1>1, <1>9
<1> QED BY <1>6, <1>8, <1>10

-----------------------------------------------------------------------------
(* mm_free. *)

LEMMA ShapeTypes ==
  ASSUME NEW h, NEW L, NEW D, Shape(h, L, D)
  PROVE  /\ NUnits \in Nat /\ Units = 0 .. NUnits /\ Base = 0
         /\ h.unit \in [Units -> [ptr : Units \cup {Null}, size : Units]]
         /\ h.brk \in 1 .. NUnits + 1
         /\ L \subseteq 1 .. h.brk - 1 /\ D \subseteq 1 .. h.brk - 1
         /\ L \subseteq Units /\ Base \notin L /\ D \subseteq Units
         /\ \A b \in L \cup D : h.unit[b].size \in Nat \ {0} /\ b + h.unit[b].size <= h.brk
         /\ \A p \in L \cup {Base} : h.unit[p].ptr \in L \cup {Base}
<1>1. NUnits \in Nat /\ Units = 0 .. NUnits /\ Base = 0 BY HeapAssumption DEF Units, Base
<1>2. /\ h.unit \in [Units -> [ptr : Units \cup {Null}, size : Units]]
      /\ h.brk \in 0 .. NUnits + 1 /\ h.brk # 0
  BY DEF Shape, HeapType
<1>3. h.brk \in 1 .. NUnits + 1 BY <1>1, <1>2
<1>4. Tiled(h.unit, h.brk, L \cup D) BY DEF Shape
<1>5. L \subseteq 1 .. h.brk - 1 /\ D \subseteq 1 .. h.brk - 1 BY <1>4 DEF Tiled
<1>6. L \subseteq Units /\ Base \notin L /\ D \subseteq Units BY <1>1, <1>3, <1>5
<1>7. ASSUME NEW b \in L \cup D
      PROVE  h.unit[b].size \in Nat \ {0} /\ b + h.unit[b].size <= h.brk
  <2>1. h.unit[b].size \in Units BY <1>2, <1>6
  <2>2. h.unit[b].size > 0 /\ b + h.unit[b].size \in (L \cup D) \cup {h.brk} BY <1>4 DEF Tiled
  <2> QED BY <1>1, <1>3, <1>5, <2>1, <2>2
<1>8. \A p \in L \cup {Base} : h.unit[p].ptr \in L \cup {Base} BY DEF Shape, Sorted, NextIs
<1> QED BY <1>1, <1>2, <1>3, <1>5, <1>6, <1>7, <1>8

\* The loop of mm_free ends, at the last block of the list below the one that is
\* freed, wherever freep was.
LEMMA BeforeIs ==
  ASSUME NEW h, NEW L, NEW D, Shape(h, L, D), NEW b \in D
  PROVE  /\ Before(h, b) \in L \cup {Base} /\ Before(h, b) < b
         /\ \A c \in L : c < b => c <= Before(h, b)
<1> DEFINE e == Nth(h)
           S == {k \in 0 .. NUnits : Between(h, e[k], b)}
<1>1. /\ NUnits \in Nat /\ Units = 0 .. NUnits /\ Base = 0 /\ L \subseteq Units /\ Base \notin L
      /\ b \in Nat /\ b # 0 /\ b \notin L /\ L \subseteq Nat
  <2>1. /\ NUnits \in Nat /\ Units = 0 .. NUnits /\ Base = 0 /\ L \subseteq Units /\ Base \notin L
        /\ D \subseteq 1 .. h.brk - 1 /\ h.brk \in 1 .. NUnits + 1
    BY ShapeTypes
  <2>2. L \cap D = {} BY DEF Shape
  <2> QED BY <2>1, <2>2
<1>2. /\ e \in [0 .. NUnits + 1 -> L \cup {Base}]
      /\ \A p \in L \cup {Base} : \E k \in 0 .. NUnits : e[k] = p
  <2>1. h.freep \in L \cup {Base} /\ Sorted(h.unit, L) BY DEF Shape
  <2> QED BY <1>1, <2>1, ListCovered
<1>3. PICK p \in L \cup {Base} : p < b /\ \A c \in L : c < b => c <= p BY <1>1, Below
<1>4. ASSUME NEW x \in L \cup {Base}
      PROVE  Between(h, x, b) <=> (x < b /\ \A c \in L : c < b => c <= x)
  <2> DEFINE q == h.unit[x].ptr
  <2>1. NextIs(L, x, q) BY DEF Shape, Sorted
  <2>2. Between(h, x, b) <=> (b > x /\ b < q) \/ (x >= q /\ (b > x \/ b < q)) BY DEF Between
  <2> HIDE DEF q
  <2>3. x \in Nat /\ q \in Nat /\ (q = 0 \/ (q > x /\ q \in L)) BY <1>1, <2>1 DEF NextIs
  <2>4. \A c \in L : c <= x \/ (q # 0 /\ q <= c) BY <1>1, <2>1 DEF NextIs
  <2> QED BY <1>1, <2>2, <2>3, <2>4
<1> HIDE DEF e
<1>5. S \subseteq Nat /\ S # {}
  <2>1. PICK k \in 0 .. NUnits : e[k] = p BY <1>2
  <2>2. k \in S BY <1>3, <1>4, <2>1
  <2> QED BY <1>1, <2>2
<1>6. Min(S) \in S
  <2> HIDE DEF S
  <2> QED BY <1>5, MinIs
<1>7. Before(h, b) = e[Min(S)] BY DEF Before, e
<1> DEFINE k == Min(S)
<1>8. k \in 0 .. NUnits /\ Between(h, e[k], b) BY <1>6
<1> HIDE DEF k, S
<1>9. k \in 0 .. NUnits + 1 BY <1>1, <1>8
<1>10. e[k] \in L \cup {Base} BY <1>2, <1>9
<1> QED BY <1>4, <1>7, <1>8, <1>10 DEF k

\* What mm_free writes into b, and then into the block p before it.
UpperJoined(unit, p, b) == LET q == unit[p].ptr IN
  IF b + unit[b].size = q THEN [ptr |-> unit[q].ptr, size |-> unit[b].size + unit[q].size]
  ELSE [ptr |-> q, size |-> unit[b].size]
LowerJoined(unit, p, b, t) ==
  IF p + unit[p].size = b THEN [ptr |-> t.ptr, size |-> unit[p].size + t.size]
  ELSE [ptr |-> b, size |-> unit[p].size]

LEMMA FreedIs ==
  ASSUME NEW h \in HeapType, NEW b \in Units, NEW p \in Units, p # b, p = Before(h, b)
  PROVE  LET t == UpperJoined(h.unit, p, b) IN
         MmFree(h, b) = [unit |-> [h.unit EXCEPT ![b] = t, ![p] = LowerJoined(h.unit, p, b, t)],
                         freep |-> p, brk |-> h.brk]
<1> DEFINE q == h.unit[p].ptr
           t == UpperJoined(h.unit, p, b)
           j == JoinUpper(h, p, b)
           l == JoinLower(j, p, b)
           low == LowerJoined(h.unit, p, b, t)
<1>1. /\ h.unit \in [Units -> [ptr : Units \cup {Null}, size : Units]]
      /\ h = [unit |-> h.unit, freep |-> h.freep, brk |-> h.brk]
  BY DEF HeapType
<1>2. h.unit[b] = [ptr |-> h.unit[b].ptr, size |-> h.unit[b].size]
  BY <1>1
<1>3. h.unit[p] = [ptr |-> h.unit[p].ptr, size |-> h.unit[p].size]
  BY <1>1
<1>4. j = [unit |-> [h.unit EXCEPT ![b] = t], freep |-> h.freep, brk |-> h.brk]
  <2>1. CASE b + h.unit[b].size = q
    <3>1. j = [h EXCEPT !.unit[b] = t] BY <2>1 DEF JoinUpper, UpperJoined
    <3> HIDE DEF t
    <3> QED BY <1>1, <3>1
  <2>2. CASE b + h.unit[b].size # q
    <3>1. j = [h EXCEPT !.unit[b].ptr = q] BY <2>2 DEF JoinUpper
    <3>2. [h.unit[b] EXCEPT !.ptr = q] = [ptr |-> q, size |-> h.unit[b].size] BY <1>2
    <3>3. t = [ptr |-> q, size |-> h.unit[b].size] BY <2>2 DEF UpperJoined
    <3> HIDE DEF q, t
    <3> QED BY <1>1, <3>1, <3>2, <3>3
  <2> QED BY <2>1, <2>2
<1> HIDE DEF j, t
<1>5. j.unit[b] = t /\ j.unit[p] = h.unit[p] BY <1>1, <1>4
<1>6. l = [unit |-> [j.unit EXCEPT ![p] = low], freep |-> h.freep, brk |-> h.brk]
  <2>1. CASE p + h.unit[p].size = b
    <3>1. l = [j EXCEPT !.unit[p] = low] BY <1>5, <2>1 DEF JoinLower, LowerJoined
    <3> HIDE DEF low
    <3> QED BY <1>4, <3>1
  <2>2. CASE p + h.unit[p].size # b
    <3>1. l = [j EXCEPT !.unit[p].ptr = b] BY <1>5, <2>2 DEF JoinLower
    <3>2. [h.unit[p] EXCEPT !.ptr = b] = [ptr |-> b, size |-> h.unit[p].size] BY <1>3
    <3>3. low = [ptr |-> b, size |-> h.unit[p].size] BY <2>2 DEF LowerJoined
    <3> HIDE DEF low
    <3> QED BY <1>4, <1>5, <3>1, <3>2, <3>3
  <2> QED BY <2>1, <2>2
<1> HIDE DEF l, low
<1>7. MmFree(h, b) = [l EXCEPT !.freep = p] BY DEF MmFree, l, j
<1>8. j.unit = [h.unit EXCEPT ![b] = t] BY <1>4
<1> QED BY <1>6, <1>7, <1>8 DEF t, low

\* What b holds once it is joined with the block above it, which then is no block
\* any more.
LEMMA UpperFacts ==
  ASSUME NEW h, NEW L, NEW D, Shape(h, L, D), NEW b \in D, NEW p \in L \cup {Base},
         p < b, \A c \in L : c < b => c <= p
  PROVE  LET t == UpperJoined(h.unit, p, b)
             R == {c \in L : b + h.unit[b].size # c} IN
         /\ t \in [ptr : R \cup {Base}, size : Nat \ {0}]
         /\ t.size >= h.unit[b].size
         /\ t.ptr = Base \/ t.ptr > b
         /\ \A c \in R : c <= p \/ (t.ptr # Base /\ t.ptr <= c)
         /\ b + t.size \in D \cup R \cup {h.brk} /\ b + t.size \notin R
         /\ \A c \in D \cup R : b < c => b + t.size <= c
         /\ \A c \in D \cup R : c # b => c + h.unit[c].size \in D \cup R \cup {h.brk}
<1> DEFINE unit == h.unit
           q == unit[p].ptr
           size(c) == unit[c].size
<1>1. /\ NUnits \in Nat /\ Units = 0 .. NUnits /\ Base = 0 /\ L \subseteq Nat /\ Base \notin L
      /\ D \subseteq Nat /\ b \in Nat /\ b # 0 /\ b \notin L /\ L \cap D = {} /\ p \in Nat
      /\ h.brk \in Nat /\ h.brk # 0
  <2>1. /\ NUnits \in Nat /\ Units = 0 .. NUnits /\ Base = 0 /\ L \subseteq Units /\ Base \notin L
        /\ D \subseteq 1 .. h.brk - 1 /\ h.brk \in 1 .. NUnits + 1
    BY ShapeTypes
  <2>2. L \cap D = {} BY DEF Shape
  <2> QED BY <2>1, <2>2
<1>2. \A c \in L \cup D : size(c) \in Nat \ {0} /\ c < h.brk
  BY ShapeTypes
<1>3. /\ \A c \in L \cup D : c + size(c) \in (L \cup D) \cup {h.brk}
      /\ \A c, d \in L \cup D : c < d => c + size(c) <= d
  BY DEF Shape, Tiled
<1>4. \A c, d \in L : c + size(c) # d BY DEF Shape, Joined
<1>5. NextIs(L, p, q) BY DEF Shape, Sorted
<1>6. q \in L => NextIs(L, q, unit[q].ptr) BY DEF Shape, Sorted
<1> HIDE DEF size, q
<1>7. q \in L \cup {Base} /\ (q = 0 \/ q > b) /\ \A c \in L : c <= p \/ (q # 0 /\ q <= c)
  BY <1>1, <1>5 DEF NextIs
<1> DEFINE t == UpperJoined(h.unit, p, b)
           R == {c \in L : b + size(b) # c}
<1>8. CASE b + size(b) = q
  <2>1. t = [ptr |-> unit[q].ptr, size |-> size(b) + size(q)]
    BY <1>8 DEF UpperJoined, q, size
  <2>2. q \in L /\ q > b /\ R = L \ {q} BY <1>1, <1>2, <1>7, <1>8
  <2> DEFINE r == unit[q].ptr
  <2>3. /\ r \in L \cup {Base} /\ (r = 0 \/ r > q)
        /\ \A c \in L : c <= q \/ (r # 0 /\ r <= c)
    BY <1>1, <1>6, <2>2 DEF NextIs
  <2> HIDE DEF r
  <2>4. t.ptr = r /\ t.size = size(b) + size(q) BY <2>1 DEF r
  <2>5. /\ size(b) \in Nat \ {0} /\ size(q) \in Nat \ {0} /\ q \in Nat
        /\ b + t.size = q + size(q)
    BY <1>1, <1>2, <1>8, <2>2, <2>4
  <2>6. r \in R \cup {Base} BY <1>1, <2>2, <2>3
  <2>7. t \in [ptr : R \cup {Base}, size : Nat \ {0}]
    <3>1. size(b) + size(q) \in Nat \ {0} BY <2>5
    <3> QED BY <2>1, <2>6, <3>1 DEF r
  <2>8. t.size >= size(b) BY <2>4, <2>5
  <2>9. t.ptr = Base \/ t.ptr > b BY <1>1, <2>2, <2>3, <2>4
  <2>10. \A c \in R : c <= p \/ (t.ptr # Base /\ t.ptr <= c)
    BY <1>1, <1>7, <2>2, <2>3, <2>4
  <2>11. b + t.size \in D \cup R \cup {h.brk} /\ b + t.size \notin R
    <3>1. q + size(q) \in (L \cup D) \cup {h.brk} BY <1>3, <2>2
    <3>2. q + size(q) \notin L BY <1>4, <2>2
    <3> QED BY <2>2, <2>5, <3>1, <3>2
  <2>12. \A c \in D \cup R : b < c => b + t.size <= c
    <3> SUFFICES ASSUME NEW c \in D \cup R, b < c PROVE q + size(q) <= c BY <2>5
    <3>1. c \in L \cup D /\ b \in L \cup D /\ q \in L \cup D BY <2>2
    <3>2. b + size(b) <= c BY <1>3, <3>1
    <3>3. c # q BY <1>1, <2>2
    <3>4. q < c BY <1>1, <1>8, <2>5, <3>1, <3>2, <3>3
    <3> QED BY <1>3, <3>1, <3>4
  <2>13. \A c \in D \cup R : c # b => c + size(c) \in D \cup R \cup {h.brk}
    <3> SUFFICES ASSUME NEW c \in D \cup R, c # b PROVE c + size(c) \in D \cup R \cup {h.brk} OBVIOUS
    <3>1. c \in L \cup D /\ b \in L \cup D /\ q \in L \cup D /\ c \in Nat BY <1>1, <2>2
    <3>2. c + size(c) # q
      <4>1. CASE c < b
        <5>1. c + size(c) <= b BY <1>3, <3>1, <4>1
        <5> QED BY <1>1, <1>2, <2>2, <2>5, <3>1, <5>1
      <4>2. CASE b < c
        <5>1. b + size(b) <= c BY <1>3, <3>1, <4>2
        <5> QED BY <1>2, <1>8, <2>5, <3>1, <5>1
      <4> QED BY <1>1, <3>1, <4>1, <4>2
    <3>3. c + size(c) \in (L \cup D) \cup {h.brk} BY <1>3, <3>1
    <3> QED BY <2>2, <3>2, <3>3
  <2> QED BY <2>7, <2>8, <2>9, <2>10, <2>11, <2>12, <2>13 DEF size
<1>9. CASE b + size(b) # q
  <2>1. t = [ptr |-> q, size |-> size(b)] BY <1>9 DEF UpperJoined, q, size
  <2>2. b + size(b) \notin L
    <3>1. ASSUME b + size(b) \in L PROVE FALSE
      <4> DEFINE c == b + size(b)
      <4>1. c \in Nat /\ c > b /\ c \in L BY <1>1, <1>2, <3>1
      <4>2. q # 0 /\ q <= c /\ q > b /\ q \in L
        <5> HIDE DEF c
        <5> QED BY <1>1, <1>7, <4>1
      <4>3. b + size(b) <= q BY <1>3, <4>2
      <4> QED BY <1>1, <1>9, <4>1, <4>2, <4>3
    <3> QED BY <3>1
  <2>3. R = L BY <2>2
  <2>4. t \in [ptr : R \cup {Base}, size : Nat \ {0}] BY <1>2, <1>7, <2>1, <2>3
  <2>5. t.ptr = q /\ t.size = size(b) /\ size(b) \in Nat BY <1>2, <2>1
  <2>6. t.size >= size(b) BY <2>5
  <2>7. t.ptr = Base \/ t.ptr > b BY <1>1, <1>7, <2>5
  <2>8. \A c \in R : c <= p \/ (t.ptr # Base /\ t.ptr <= c) BY <1>1, <1>7, <2>3, <2>5
  <2>9. b + t.size \in D \cup R \cup {h.brk} /\ b + t.size \notin R BY <1>3, <2>2, <2>3, <2>5
  <2>10. \A c \in D \cup R : b < c => b + t.size <= c BY <1>3, <2>3, <2>5
  <2>11. \A c \in D \cup R : c # b => c + size(c) \in D \cup R \cup {h.brk} BY <1>3, <2>3
  <2> QED BY <2>4, <2>6, <2>7, <2>8, <2>9, <2>10, <2>11 DEF size
<1> QED BY <1>8, <1>9

\* The facts that freeing b has to go by: p is the block of the list below b, t what
\* b holds once it is joined with the block above, R the list without that block.
Freeing(unit, brk, L, D, b, p, t, R) ==
  /\ brk \in Nat /\ L \subseteq 1 .. brk - 1 /\ D \subseteq 1 .. brk - 1
  /\ b \in D /\ L \cap D = {} /\ R = {c \in L : b + unit[b].size # c}
  /\ p \in R \cup {0} /\ p < b /\ \A c \in L : c < b => c <= p
  /\ 1 \in L \cup D \cup {brk} /\ unit[0].size = 0
  /\ \A c \in L \cup D : unit[c].size \in Nat \ {0}
  /\ \A c, d \in L \cup D : c < d => c + unit[c].size <= d
  /\ \A x \in L \cup {0} : NextIs(L, x, unit[x].ptr)
  /\ \A c, d \in L : c + unit[c].size # d
  /\ t \in [ptr : R \cup {0}, size : Nat \ {0}]
  /\ t.size >= unit[b].size
  /\ t.ptr = 0 \/ t.ptr > b
  /\ \A c \in R : c <= p \/ (t.ptr # 0 /\ t.ptr <= c)
  /\ b + t.size \in D \cup R \cup {brk} /\ b + t.size \notin R
  /\ \A c \in D \cup R : b < c => b + t.size <= c
  /\ \A c \in D \cup R : c # b => c + unit[c].size \in D \cup R \cup {brk}

\* The list M and the blocks in use, E, of the units w, and that one of the list has
\* room for n.
Settled(w, brk, M, E, p, n) ==
  /\ Tiled(w, brk, M \cup E) /\ Sorted(w, M) /\ Joined(w, M)
  /\ M \cap E = {} /\ p \in M \cup {0}
  /\ \E c \in M : w[c].size >= n

EndsAt(unit, p, b) == p + unit[p].size = b

\* A place on the list other than p leads where it led, and not to the block that
\* b has swallowed.
LEMMA FreeingKeeps ==
  ASSUME NEW unit, NEW brk, NEW L, NEW D, NEW b, NEW p, NEW t, NEW R,
         Freeing(unit, brk, L, D, b, p, t, R), NEW x \in R \cup {0}, x # p
  PROVE  /\ NextIs(R, x, unit[x].ptr)
         /\ x < b => unit[x].ptr # 0 /\ unit[x].ptr <= b
<1> DEFINE q == unit[x].ptr
           s == b + unit[b].size
<1>1. /\ L \subseteq Nat \ {0} /\ R = {c \in L : s # c} /\ b \in Nat \ {0} /\ b \notin L
      /\ p \in L \cup {0} /\ p \in Nat /\ p < b /\ \A c \in L : c < b => c <= p
      /\ unit[b].size \in Nat \ {0} /\ s \in Nat /\ s > b
  BY DEF Freeing
<1>2. \A c \in L : b < c => s <= c BY DEF Freeing
<1>3. x \in L \cup {0} /\ x \in Nat
  <2>1. R \subseteq L BY DEF Freeing
  <2>2. L \subseteq Nat BY <1>1
  <2> QED BY <2>1, <2>2
<1>4. NextIs(L, x, q) BY <1>3 DEF Freeing
<1> HIDE DEF q, s
<1>5. /\ q \in L \cup {0} /\ (q = 0 \/ q > x) /\ q \in Nat
      /\ \A c \in L : c <= x \/ (q # 0 /\ q <= c)
  <2>1. q \in L \cup {0} /\ (q = 0 \/ q > x) /\ \A c \in L : c <= x \/ (q # 0 /\ q <= c)
    BY <1>4 DEF NextIs, Base
  <2>2. L \cup {0} \subseteq Nat BY <1>1
  <2> QED BY <2>1, <2>2
<1>6. q # s
  <2> SUFFICES ASSUME q = s PROVE FALSE OBVIOUS
  <2>1. p <= x BY <1>1, <1>3, <1>5
  <2>2. x \in L /\ x > p BY <1>1, <1>3, <2>1
  <2>3. x > b BY <1>1, <1>3, <2>2
  <2>4. s <= x BY <1>2, <2>2, <2>3
  <2> QED BY <1>1, <1>3, <1>5, <2>4
<1>7. q \in R \cup {0} BY <1>1, <1>5, <1>6
<1>8. \A c \in R : c \in L BY <1>1
<1>9. NextIs(R, x, q) BY <1>5, <1>7, <1>8 DEF NextIs, Base
<1>10. ASSUME x < b PROVE q # 0 /\ q <= b
  <2>1. x <= p BY <1>1, <1>3, <1>10
  <2>2. p \in L /\ x < p BY <1>1, <1>3, <2>1
  <2>3. q # 0 /\ q <= p BY <1>1, <1>3, <1>5, <2>2
  <2> QED BY <1>1, <1>5, <2>3
<1> QED BY <1>9, <1>10 DEF q

\* The block below b ends where b begins, and takes it in.
LEMMA FreeingJoins ==
  ASSUME NEW unit, NEW brk, NEW L, NEW D, NEW b, NEW p, NEW t, NEW R,
         Freeing(unit, brk, L, D, b, p, t, R), NEW w, EndsAt(unit, p, b),
         w[p] = [ptr |-> t.ptr, size |-> unit[p].size + t.size],
         \A u \in (L \cup D \cup {0}) \ {b, p} : w[u] = unit[u]
  PROVE  p # 0 /\ Settled(w, brk, R, D \ {b}, p, unit[b].size)
<1> DEFINE B == R \cup (D \ {b})
<1>0. p + unit[p].size = b BY DEF EndsAt
<1>1. /\ L \subseteq Nat \ {0} /\ D \subseteq Nat \ {0} /\ R \subseteq L /\ b \in Nat \ {0} /\ b \notin L
      /\ b \in D /\ p \in R \cup {0} /\ p \in Nat /\ p < b
      /\ L \subseteq 1 .. brk - 1 /\ D \subseteq 1 .. brk - 1 /\ L \cap D = {}
  BY DEF Freeing
<1>2. \A c \in L \cup D : unit[c].size \in Nat \ {0} BY DEF Freeing
<1>3. \A c, d \in L \cup D : c < d => c + unit[c].size <= d BY DEF Freeing
<1>4. p \in R
  <2>1. unit[0].size = 0 BY DEF Freeing
  <2> QED BY <1>0, <1>1, <2>1
<1>5. t.size \in Nat \ {0} /\ t.size >= unit[b].size /\ t.ptr \in R \cup {0} /\ t.ptr \in Nat
  <2>1. t.size \in Nat \ {0} /\ t.size >= unit[b].size /\ t.ptr \in R \cup {0} BY DEF Freeing
  <2>2. ASSUME t.ptr \in R PROVE t.ptr \in Nat
    <3>1. L \subseteq Nat /\ t.ptr \in L BY <1>1, <2>2
    <3> QED BY <3>1
  <2> QED BY <2>1, <2>2
<1>6. w[p].ptr = t.ptr /\ w[p].size = unit[p].size + t.size /\ p + w[p].size = b + t.size
      /\ w[p].size \in Nat \ {0} /\ w[p].size >= unit[b].size
  BY <1>0, <1>1, <1>2, <1>4, <1>5
<1>7. \A c \in B \cup {0} : c # p => w[c] = unit[c] BY <1>1
<1>8. Tiled(w, brk, B)
  <2>1. B \subseteq 1 .. brk - 1 BY <1>1
  <2>2. 1 \in B \cup {brk}
    <3>1. 1 \in L \cup D \cup {brk} /\ \A c \in L : b + unit[b].size # c => c \in R BY DEF Freeing
    <3>2. b # 1 /\ b + unit[b].size # 1 BY <1>0, <1>1, <1>2, <1>4
    <3> QED BY <3>1, <3>2
  <2>3. ASSUME NEW c \in B PROVE w[c].size > 0 /\ c + w[c].size \in B \cup {brk}
    <3>1. CASE c = p
      <4>1. b + t.size \in D \cup R \cup {brk} BY DEF Freeing
      <4>2. b + t.size # b BY <1>1, <1>5
      <4> QED BY <1>6, <3>1, <4>1, <4>2
    <3>2. CASE c # p
      <4>1. c \in D \cup R /\ c # b /\ c \in L \cup D /\ c \in Nat BY <1>1
      <4>2. c + unit[c].size \in D \cup R \cup {brk} BY <4>1 DEF Freeing
      <4>3. c + unit[c].size # b
        <5>1. CASE c < p
          <6>1. c + unit[c].size <= p BY <1>1, <1>3, <1>4, <4>1, <5>1
          <6> QED BY <1>1, <1>2, <4>1, <6>1
        <5>2. CASE p < c
          <6>1. b <= c BY <1>0, <1>1, <1>3, <1>4, <4>1, <5>2
          <6> QED BY <1>1, <1>2, <4>1, <6>1
        <5> QED BY <1>1, <3>2, <4>1, <5>1, <5>2
      <4> QED BY <1>2, <1>7, <3>2, <4>1, <4>2, <4>3
    <3> QED BY <3>1, <3>2
  <2>4. ASSUME NEW c \in B, NEW d \in B, c < d PROVE c + w[c].size <= d
    <3>1. c \in L \cup D /\ d \in L \cup D /\ d \in Nat /\ d # b /\ d \in D \cup R BY <1>1
    <3>2. c + unit[c].size <= d BY <1>3, <2>4, <3>1
    <3>3. CASE c = p
      <4>1. b < d BY <1>0, <1>1, <3>1, <3>2, <3>3
      <4>2. b + t.size <= d BY <3>1, <4>1 DEF Freeing
      <4> QED BY <1>6, <3>3, <4>2
    <3>4. CASE c # p BY <1>7, <3>2, <3>4
    <3> QED BY <3>3, <3>4
  <2> QED BY <2>1, <2>2, <2>3, <2>4 DEF Tiled
<1>9. Sorted(w, R)
  <2> SUFFICES ASSUME NEW x \in R \cup {0} PROVE NextIs(R, x, w[x].ptr) BY DEF Sorted, Base
  <2>1. CASE x = p
    <3>1. /\ t.ptr = 0 \/ t.ptr > b
          /\ \A c \in R : c <= p \/ (t.ptr # 0 /\ t.ptr <= c)
      BY DEF Freeing
    <3>2. t.ptr = 0 \/ t.ptr > p BY <1>1, <1>5, <3>1
    <3> QED BY <1>5, <1>6, <2>1, <3>1, <3>2 DEF NextIs, Base
  <2>2. CASE x # p
    <3>1. NextIs(R, x, unit[x].ptr) BY <2>2, FreeingKeeps
    <3> QED BY <1>7, <2>2, <3>1
  <2> QED BY <2>1, <2>2
<1>10. Joined(w, R)
  <2> SUFFICES ASSUME NEW c \in R, NEW d \in R PROVE c + w[c].size # d BY DEF Joined
  <2>1. CASE c = p
    <3>1. b + t.size \notin R BY DEF Freeing
    <3> QED BY <1>6, <2>1, <3>1
  <2>2. CASE c # p
    <3>1. c + unit[c].size # d BY <1>1 DEF Freeing
    <3> QED BY <1>7, <2>2, <3>1
  <2> QED BY <2>1, <2>2
<1>11. R \cap (D \ {b}) = {} BY <1>1
<1> QED BY <1>1, <1>4, <1>6, <1>8, <1>9, <1>10, <1>11 DEF Settled

\* The block below b ends elsewhere, and b becomes a block of the list.
LEMMA FreeingAdds ==
  ASSUME NEW unit, NEW brk, NEW L, NEW D, NEW b, NEW p, NEW t, NEW R,
         Freeing(unit, brk, L, D, b, p, t, R), NEW w, p + unit[p].size # b,
         w[b] = t, w[p] = [ptr |-> b, size |-> unit[p].size],
         \A u \in (L \cup D \cup {0}) \ {b, p} : w[u] = unit[u]
  PROVE  Settled(w, brk, R \cup {b}, D \ {b}, p, unit[b].size)
<1> DEFINE B == (R \cup {b}) \cup (D \ {b})
<1>1. /\ L \subseteq Nat \ {0} /\ D \subseteq Nat \ {0} /\ R \subseteq L /\ b \in Nat \ {0} /\ b \notin L
      /\ b \in D /\ p \in R \cup {0} /\ p \in Nat /\ p < b /\ p # b
      /\ L \subseteq 1 .. brk - 1 /\ D \subseteq 1 .. brk - 1 /\ L \cap D = {}
  BY DEF Freeing
<1>2. \A c \in L \cup D : unit[c].size \in Nat \ {0} BY DEF Freeing
<1>3. \A c, d \in L \cup D : c < d => c + unit[c].size <= d BY DEF Freeing
<1>4. B = D \cup R BY <1>1
<1>5. t.size \in Nat \ {0} /\ t.size >= unit[b].size /\ t.ptr \in R \cup {0} /\ t.ptr \in Nat
  <2>1. t.size \in Nat \ {0} /\ t.size >= unit[b].size /\ t.ptr \in R \cup {0} BY DEF Freeing
  <2>2. ASSUME t.ptr \in R PROVE t.ptr \in Nat
    <3>1. L \subseteq Nat /\ t.ptr \in L BY <1>1, <2>2
    <3> QED BY <3>1
  <2> QED BY <2>1, <2>2
<1>6. \A c \in B \cup {0} : c # b => w[c].size = unit[c].size BY <1>1
<1>7. Tiled(w, brk, B)
  <2>1. B \subseteq 1 .. brk - 1 BY <1>1
  <2>2. 1 \in B \cup {brk}
    <3>1. 1 \in L \cup D \cup {brk} /\ \A c \in L : b + unit[b].size # c => c \in R BY DEF Freeing
    <3>2. b + unit[b].size # 1 BY <1>1, <1>2
    <3> QED BY <1>4, <3>1, <3>2
  <2>3. ASSUME NEW c \in B PROVE w[c].size > 0 /\ c + w[c].size \in B \cup {brk}
    <3>1. CASE c = b
      <4>1. b + t.size \in D \cup R \cup {brk} BY DEF Freeing
      <4> QED BY <1>4, <1>5, <3>1, <4>1
    <3>2. CASE c # b
      <4>1. c \in D \cup R /\ c \in L \cup D BY <1>1
      <4>2. c + unit[c].size \in D \cup R \cup {brk} BY <3>2, <4>1 DEF Freeing
      <4> QED BY <1>2, <1>4, <1>6, <3>2, <4>1, <4>2
    <3> QED BY <3>1, <3>2
  <2>4. ASSUME NEW c \in B, NEW d \in B, c < d PROVE c + w[c].size <= d
    <3>1. c \in L \cup D /\ d \in L \cup D /\ d \in D \cup R BY <1>1
    <3>2. CASE c = b
      <4>1. b + t.size <= d BY <2>4, <3>1, <3>2 DEF Freeing
      <4> QED BY <3>2, <4>1
    <3>3. CASE c # b BY <1>3, <1>6, <2>4, <3>1, <3>3
    <3> QED BY <3>2, <3>3
  <2> QED BY <2>1, <2>2, <2>3, <2>4 DEF Tiled
<1>8. Sorted(w, R \cup {b})
  <2> SUFFICES ASSUME NEW x \in R \cup {b} \cup {0} PROVE NextIs(R \cup {b}, x, w[x].ptr)
    BY DEF Sorted, Base
  <2>1. CASE x = b
    <3>1. /\ t.ptr = 0 \/ t.ptr > b
          /\ \A c \in R : c <= p \/ (t.ptr # 0 /\ t.ptr <= c)
      BY DEF Freeing
    <3>2. \A c \in R \cup {b} : c <= b \/ (t.ptr # 0 /\ t.ptr <= c)
      <4>1. \A c \in R : c \in Nat BY <1>1
      <4> QED BY <1>1, <3>1, <4>1
    <3> QED BY <1>5, <2>1, <3>1, <3>2 DEF NextIs, Base
  <2>2. CASE x = p
    <3>1. \A c \in L : c < b => c <= p BY DEF Freeing
    <3>2. \A c \in R \cup {b} : c <= p \/ (b # 0 /\ b <= c) BY <1>1, <3>1
    <3>3. w[x].ptr = b BY <2>2
    <3> QED BY <1>1, <2>2, <3>2, <3>3 DEF NextIs, Base
  <2>3. CASE x # b /\ x # p
    <3> DEFINE q == unit[x].ptr
    <3>1. x \in R \cup {0} /\ x \in Nat BY <1>1, <2>3
    <3>2. NextIs(R, x, q) /\ (x < b => q # 0 /\ q <= b) BY <2>3, <3>1, FreeingKeeps
    <3>3. w[x].ptr = q BY <1>1, <2>3, <3>1
    <3> HIDE DEF q
    <3>4. b <= x \/ (q # 0 /\ q <= b) BY <1>1, <3>1, <3>2
    <3> QED BY <3>2, <3>3, <3>4 DEF NextIs, Base
  <2> QED BY <2>1, <2>2, <2>3
<1>9. Joined(w, R \cup {b})
  <2> SUFFICES ASSUME NEW c \in R \cup {b}, NEW d \in R \cup {b} PROVE c + w[c].size # d BY DEF Joined
  <2>1. CASE c = b
    <3>1. b + t.size \notin R BY DEF Freeing
    <3> QED BY <1>1, <1>5, <2>1, <3>1
  <2>2. CASE c # b /\ d # b
    <3>1. c + unit[c].size # d BY <1>1, <2>2 DEF Freeing
    <3> QED BY <1>6, <2>2, <3>1
  <2>3. CASE c # b /\ d = b
    <3>1. c \in L /\ c \in Nat /\ unit[c].size \in Nat \ {0} /\ w[c].size = unit[c].size
      BY <1>1, <1>2, <1>6, <2>3
    <3>2. ASSUME c + unit[c].size = b PROVE FALSE
      <4>1. c < b BY <1>1, <3>1, <3>2
      <4>2. c <= p BY <3>1, <4>1 DEF Freeing
      <4>3. c < p /\ p \in L BY <1>1, <3>1, <3>2, <4>2
      <4>4. c + unit[c].size <= p BY <1>3, <3>1, <4>3
      <4> QED BY <1>1, <3>2, <4>4
    <3> QED BY <2>3, <3>1, <3>2
  <2> QED BY <2>1, <2>2, <2>3
<1>10. (R \cup {b}) \cap (D \ {b}) = {} BY <1>1
<1> QED BY <1>1, <1>5, <1>7, <1>8, <1>9, <1>10 DEF Settled

\* The blocks on the list after mm_free(b).
Freed(h, L, b) == LET p == Before(h, b)
                      R == {c \in L : b + h.unit[b].size # c}
                  IN IF p + h.unit[p].size = b THEN R ELSE R \cup {b}

LEMMA FreedShape ==
  ASSUME NEW h, NEW L, NEW D, Shape(h, L, D), NEW b \in D
  PROVE  /\ Shape(MmFree(h, b), Freed(h, L, b), D \ {b})
         /\ Freed(h, L, b) \subseteq L \cup {b}
         /\ \A u \in Units \ (L \cup {Base, b}) : MmFree(h, b).unit[u] = h.unit[u]
         /\ MmFree(h, b).brk = h.brk
         /\ \E c \in Freed(h, L, b) : MmFree(h, b).unit[c].size >= h.unit[b].size
<1> DEFINE unit == h.unit
           p == Before(h, b)
           t == UpperJoined(unit, p, b)
           R == {c \in L : b + unit[b].size # c}
           low == LowerJoined(unit, p, b, t)
           f == MmFree(h, b)
           w == f.unit
           M == Freed(h, L, b)
           brk == h.brk
<1>1. /\ NUnits \in Nat /\ Units = 0 .. NUnits /\ Base = 0
      /\ unit \in [Units -> [ptr : Units \cup {Null}, size : Units]]
      /\ brk \in 1 .. NUnits + 1
      /\ L \subseteq 1 .. brk - 1 /\ D \subseteq 1 .. brk - 1
      /\ L \subseteq Units /\ Base \notin L /\ D \subseteq Units
      /\ \A c \in L \cup D : unit[c].size \in Nat \ {0} /\ c + unit[c].size <= brk
  BY ShapeTypes
<1>2. /\ h \in HeapType /\ L \cap D = {} /\ unit[Base].size = 0
      /\ \A c \in L \cup {Base} : NextIs(L, c, unit[c].ptr)
      /\ \A c, d \in L : c + unit[c].size # d
      /\ 1 \in L \cup D \cup {brk}
      /\ \A c, d \in L \cup D : c < d => c + unit[c].size <= d
  BY DEF Shape, Sorted, Joined, Tiled
<1>3. p \in L \cup {Base} /\ p < b /\ \A c \in L : c < b => c <= p BY BeforeIs
<1> HIDE DEF p
<1>4. /\ t \in [ptr : R \cup {Base}, size : Nat \ {0}]
      /\ t.size >= unit[b].size
      /\ t.ptr = Base \/ t.ptr > b
      /\ \A c \in R : c <= p \/ (t.ptr # Base /\ t.ptr <= c)
      /\ b + t.size \in D \cup R \cup {brk} /\ b + t.size \notin R
      /\ \A c \in D \cup R : b < c => b + t.size <= c
      /\ \A c \in D \cup R : c # b => c + unit[c].size \in D \cup R \cup {brk}
  BY <1>3, UpperFacts
<1>5. b \in Units /\ p \in Units /\ p # b /\ b \in Nat /\ p \in Nat /\ unit[b].size \in Nat \ {0}
      /\ b \notin L /\ b \notin {Base}
  BY <1>1, <1>2, <1>3
<1>6. /\ w = [unit EXCEPT ![b] = t, ![p] = low]
      /\ f.freep = p /\ f.brk = brk
      /\ f = [unit |-> w, freep |-> p, brk |-> brk]
  <2>1. f = [unit |-> [unit EXCEPT ![b] = t, ![p] = low], freep |-> p, brk |-> brk]
    BY <1>2, <1>5, FreedIs DEF p
  <2> HIDE DEF f, t, low
  <2> QED BY <2>1
<1>7. M = IF p + unit[p].size = b THEN R ELSE R \cup {b} BY DEF Freed, p
<1>8. low = IF p + unit[p].size = b THEN [ptr |-> t.ptr, size |-> unit[p].size + t.size]
            ELSE [ptr |-> b, size |-> unit[p].size]
  BY DEF LowerJoined
<1>9. R \subseteq L /\ R = {c \in L : b + unit[b].size # c} OBVIOUS
<1>10. MmFree(h, b) = f /\ f.unit = w OBVIOUS
<1> HIDE DEF w, t, low, M, f
<1>11. Freeing(unit, brk, L, D, b, p, t, R)
  <2> HIDE DEF R
  <2>1. b + unit[b].size # p BY <1>3, <1>5
  <2>2. p \in R \cup {0} BY <1>1, <1>3, <1>9, <2>1
  <2>3. brk \in Nat BY <1>1
  <2>4. \A c \in L \cup D : unit[c].size \in Nat \ {0} BY <1>1
  <2> QED BY <1>1, <1>2, <1>3, <1>4, <1>9, <2>2, <2>3, <2>4 DEF Freeing
<1> HIDE DEF R
<1>12. w[b] = t /\ w[p] = low /\ \A u \in Units : u # b /\ u # p => w[u] = unit[u]
  BY <1>1, <1>5, <1>6
<1>13. DOMAIN w = Units BY <1>1, <1>6
<1>14. \A u \in (L \cup D \cup {0}) \ {b, p} : w[u] = unit[u]
  <2>1. L \subseteq Units /\ D \subseteq Units BY <1>1, Zenon
  <2>2. 0 \in Units BY HeapAssumption DEF Units
  <2> QED BY <1>12, <2>1, <2>2
<1>15. w[Base].size = 0 /\ Settled(w, brk, M, D \ {b}, p, unit[b].size)
  <2>1. CASE p + unit[p].size = b
    <3>1. p # 0 /\ Settled(w, brk, R, D \ {b}, p, unit[b].size)
      <4>1. w[p] = [ptr |-> t.ptr, size |-> unit[p].size + t.size] BY <1>8, <1>12, <2>1
      <4>2. EndsAt(unit, p, b) BY <2>1 DEF EndsAt
      <4> QED BY <1>11, <1>14, <4>1, <4>2, FreeingJoins
    <3>2. w[Base] = unit[Base] BY <1>1, <1>5, <1>14, <3>1
    <3> QED BY <1>2, <1>7, <2>1, <3>1, <3>2
  <2>2. CASE p + unit[p].size # b
    <3>1. Settled(w, brk, R \cup {b}, D \ {b}, p, unit[b].size)
      BY <1>8, <1>11, <1>12, <1>14, <2>2, FreeingAdds
    <3>2. w[p].size = unit[p].size BY <1>8, <1>12, <2>2
    <3>3. w[Base].size = unit[Base].size
      <4>1. CASE p = Base BY <3>2, <4>1
      <4>2. CASE p # Base
        <5>1. w[Base] = unit[Base] BY <1>1, <1>5, <1>14, <4>2
        <5> QED BY <5>1
      <4> QED BY <4>1, <4>2
    <3> QED BY <1>2, <1>7, <2>2, <3>1, <3>3
  <2> QED BY <2>1, <2>2
<1>16. w \in [Units -> [ptr : Units \cup {Null}, size : Units]]
  <2>1. t.ptr \in Units /\ t.size \in Nat \ {0} /\ t = [ptr |-> t.ptr, size |-> t.size]
    <3>1. R \cup {Base} \subseteq Units
      <4>1. L \subseteq Units /\ Base \in Units BY <1>1
      <4> QED BY <1>9, <4>1
    <3> QED BY <1>4, <3>1
  <2>2. b + t.size <= brk
    <3>1. \A c \in L \cup D : c <= brk BY <1>1
    <3>2. b + t.size \in L \cup D \cup {brk} BY <1>4, <1>9
    <3>3. brk \in Nat BY <1>1
    <3> QED BY <3>1, <3>2, <3>3
  <2>3. t.size \in Units BY <1>1, <1>5, <2>1, <2>2
  <2>4. low \in [ptr : Units \cup {Null}, size : Units]
    <3>1. unit[p].size \in Units BY <1>1, <1>5
    <3>2. CASE p + unit[p].size = b
      <4>1. unit[p].size + t.size \in Units
        <5>1. p # 0
          <6>1. unit[0].size = 0 BY <1>1, <1>2
          <6> QED BY <1>1, <1>5, <3>2, <6>1
        <5>2. unit[p].size \in Nat BY <1>1, <3>1
        <5>3. NUnits \in Nat /\ brk \in 1 .. NUnits + 1 /\ p \in Nat BY <1>1, <1>5
        <5>4. p + (unit[p].size + t.size) <= NUnits + 1 BY <1>5, <2>1, <2>2, <3>2, <5>2, <5>3
        <5> HIDE DEF brk, unit
        <5>5. unit[p].size + t.size \in 0 .. NUnits BY <2>1, <5>1, <5>2, <5>3, <5>4
        <5> QED BY <5>5 DEF Units
      <4> QED BY <1>8, <2>1, <3>2, <4>1
    <3>3. CASE p + unit[p].size # b BY <1>5, <1>8, <3>1, <3>3
    <3> QED BY <3>2, <3>3
  <2>5. t \in [ptr : Units \cup {Null}, size : Units] BY <2>1, <2>3
  <2>6. ASSUME NEW u \in Units PROVE w[u] \in [ptr : Units \cup {Null}, size : Units]
    <3>1. unit[u] \in [ptr : Units \cup {Null}, size : Units] BY <1>1
    <3> QED BY <1>12, <2>4, <2>5, <3>1
  <2>7. w = [u \in Units |-> w[u]] BY <1>1, <1>6
  <2> HIDE DEF w
  <2> QED BY <2>6, <2>7
<1>17. f \in HeapType
  <2>1. f.brk \in 0 .. NUnits + 1 BY <1>1, <1>6
  <2>2. brk \in 0 .. NUnits + 1 /\ p \in Units BY <1>5, <1>6, <2>1
  <2> QED BY <1>6, <1>16, <2>2 DEF HeapType
<1>18. Shape(f, M, D \ {b})
  BY <1>1, <1>6, <1>10, <1>15, <1>17 DEF Shape, Settled
<1>19. M \subseteq L \cup {b} BY <1>7, <1>9
<1>20. \A u \in Units \ (L \cup {Base, b}) : w[u] = unit[u] BY <1>3, <1>12
<1>21. \E c \in M : w[c].size >= unit[b].size BY <1>15 DEF Settled
<1> QED BY <1>6, <1>10, <1>18, <1>19, <1>20, <1>21 DEF M

-----------------------------------------------------------------------------
(* What is inside the blocks in use. *)

\* The blocks D have the sizes and the contents they had.
Kept(unit, w, D) == \A b \in D :
  /\ w[b].size = unit[b].size
  /\ \A i \in 1 .. unit[b].size - 1 : w[b + i] = unit[b + i]

\* A unit inside a block in use is the header of none.
LEMMA Inside ==
  ASSUME NEW h, NEW L, NEW D, Shape(h, L, D), NEW b \in D, NEW i \in 1 .. h.unit[b].size - 1
  PROVE  b + i \in Units \ (L \cup D \cup {Base}) /\ b + i < h.brk /\ b + i # b
<1> DEFINE size(c) == h.unit[c].size
<1>1. /\ NUnits \in Nat /\ h.brk \in 1 .. NUnits + 1 /\ L \subseteq Nat /\ D \subseteq Nat
      /\ size(b) \in Nat /\ b + size(b) <= h.brk /\ b \in Nat
  <2>1. /\ NUnits \in Nat /\ h.brk \in 1 .. NUnits + 1
        /\ L \subseteq 1 .. h.brk - 1 /\ D \subseteq 1 .. h.brk - 1
        /\ size(b) \in Nat /\ b + size(b) <= h.brk
    BY ShapeTypes
  <2>2. L \subseteq Nat /\ D \subseteq Nat BY <2>1
  <2> QED BY <2>1, <2>2
<1>2. \A c \in L \cup D : b < c => b + size(b) <= c BY DEF Shape, Tiled
<1>3. i \in 1 .. size(b) - 1 OBVIOUS
<1> HIDE DEF size
<1>4. b + i \in Nat /\ b + i < b + size(b) /\ b < b + i BY <1>1, <1>3
<1>5. b + i \in 0 .. NUnits /\ b + i < h.brk /\ b + i # 0 BY <1>1, <1>4
<1>6. b + i \notin L \cup D BY <1>1, <1>2, <1>4
<1> QED BY <1>4, <1>5, <1>6 DEF Units, Base

LEMMA KeptTwice ==
  ASSUME NEW u, NEW v, NEW w, NEW D, Kept(u, v, D), Kept(v, w, D)
  PROVE  Kept(u, w, D)
BY DEF Kept

LEMMA HoldsKept ==
  ASSUME NEW u, NEW w, NEW D, Kept(u, w, D), NEW b \in D, u[b].size \in Nat, NEW s, Holds(u, b, s)
  PROVE  Holds(w, b, s)
<1>1. /\ s \in Seq(Vals) /\ Len(s) < u[b].size /\ \A i \in 1 .. Len(s) : u[b + i] = Blob(s[i])
  BY DEF Holds
<1>2. w[b].size = u[b].size /\ \A i \in 1 .. u[b].size - 1 : w[b + i] = u[b + i] BY DEF Kept
<1>3. Len(s) \in Nat BY <1>1
<1>4. \A i \in 1 .. Len(s) : i \in 1 .. u[b].size - 1 BY <1>1, <1>3
<1> QED BY <1>1, <1>2, <1>4 DEF Holds

\* mm_free leaves the other blocks in use as they are.
LEMMA FreedKeeps ==
  ASSUME NEW h, NEW L, NEW D, Shape(h, L, D), NEW b \in D
  PROVE  Kept(h.unit, MmFree(h, b).unit, D \ {b})
<1> DEFINE w == MmFree(h, b).unit
           unit == h.unit
<1>1. \A u \in Units \ (L \cup {Base, b}) : w[u] = unit[u] BY FreedShape
<1>2. D \subseteq Units /\ Base \notin D
  <2>1. D \subseteq Units /\ D \subseteq 1 .. h.brk - 1 /\ Base = 0 BY ShapeTypes
  <2> QED BY <2>1
<1>3. L \cap D = {} BY DEF Shape
<1> HIDE DEF w
<1>4. ASSUME NEW c \in D \ {b} PROVE w[c] = unit[c]
  <2>1. c \in Units \ (L \cup {Base, b}) BY <1>2, <1>3
  <2> QED BY <1>1, <2>1
<1>5. ASSUME NEW c \in D \ {b}, NEW i \in 1 .. unit[c].size - 1 PROVE w[c + i] = unit[c + i]
  <2>1. c + i \in Units \ (L \cup D \cup {Base}) BY Inside
  <2> QED BY <1>1, <2>1
<1> QED BY <1>4, <1>5 DEF Kept, w

-----------------------------------------------------------------------------
(* mm_malloc. *)

\* A heap whose headers and list are as they were.
LEMMA ShapeKept ==
  ASSUME NEW h, NEW g, NEW L, NEW D, Shape(h, L, D), g \in HeapType, g.brk = h.brk, g.freep = h.freep,
         \A u \in L \cup D \cup {Base} : g.unit[u] = h.unit[u]
  PROVE  Shape(g, L, D)
<1>1. Tiled(g.unit, g.brk, L \cup D)
  <2>1. Tiled(h.unit, h.brk, L \cup D) BY DEF Shape
  <2> QED BY <2>1 DEF Tiled
<1>2. Sorted(g.unit, L)
  <2>1. Sorted(h.unit, L) BY DEF Shape
  <2> QED BY <2>1 DEF Sorted
<1>3. Joined(g.unit, L)
  <2>1. Joined(h.unit, L) BY DEF Shape
  <2> QED BY <2>1 DEF Joined
<1> QED BY <1>1, <1>2, <1>3 DEF Shape

\* The units of a heap and the list's head, with another break or not.
LEMMA UnitType ==
  ASSUME NEW h \in HeapType
  PROVE  /\ h.unit \in [Units -> [ptr : Units \cup {Null}, size : Units]]
         /\ h = [unit |-> h.unit, freep |-> h.freep, brk |-> h.brk]
         /\ h.freep \in Units /\ h.brk \in 0 .. NUnits + 1
         /\ \A u \in Units : h.unit[u] = [ptr |-> h.unit[u].ptr, size |-> h.unit[u].size]
BY DEF HeapType

LEMMA TakeIs ==
  ASSUME NEW h \in HeapType, NEW prev \in Units, NEW p \in Units, prev # p
  PROVE  TakeWhole(h, prev, p).heap =
           [unit |-> [h.unit EXCEPT ![prev] = [ptr |-> h.unit[p].ptr, size |-> h.unit[prev].size],
                                    ![p] = [ptr |-> Null, size |-> h.unit[p].size]],
            freep |-> prev, brk |-> h.brk]
<1>1. /\ h.unit \in [Units -> [ptr : Units \cup {Null}, size : Units]]
      /\ h = [unit |-> h.unit, freep |-> h.freep, brk |-> h.brk]
      /\ h.unit[p] = [ptr |-> h.unit[p].ptr, size |-> h.unit[p].size]
      /\ h.unit[prev] = [ptr |-> h.unit[prev].ptr, size |-> h.unit[prev].size]
  BY UnitType
<1> DEFINE r == h.unit[p].ptr
           v == [h.unit EXCEPT ![prev] = [@ EXCEPT !.ptr = r]]
<1>2. TakeWhole(h, prev, p).heap =
        [h EXCEPT !.unit = [v EXCEPT ![p] = [@ EXCEPT !.ptr = Null]], !.freep = prev]
  BY <1>1 DEF TakeWhole
<1>3. [h.unit[prev] EXCEPT !.ptr = r] = [ptr |-> r, size |-> h.unit[prev].size] BY <1>1
<1>4. [h.unit[p] EXCEPT !.ptr = Null] = [ptr |-> Null, size |-> h.unit[p].size] BY <1>1
<1>5. v[p] = h.unit[p] BY <1>1
<1>6. [v EXCEPT ![p] = [@ EXCEPT !.ptr = Null]] =
        [h.unit EXCEPT ![prev] = [ptr |-> r, size |-> h.unit[prev].size],
                       ![p] = [ptr |-> Null, size |-> h.unit[p].size]]
  BY <1>3, <1>4, <1>5
<1> HIDE DEF v, r
<1>7. TakeWhole(h, prev, p).heap =
        [unit |-> [v EXCEPT ![p] = [@ EXCEPT !.ptr = Null]], freep |-> prev, brk |-> h.brk]
  BY <1>1, <1>2
<1> QED BY <1>6, <1>7 DEF r

LEMMA SplitIs ==
  ASSUME NEW h \in HeapType, NEW prev, NEW p \in Units, NEW n \in Nat,
         NEW tail \in Units, tail = p + h.unit[p].size - n, tail # p
  PROVE  /\ SplitTail(h, prev, p, n).heap =
              [unit |-> [h.unit EXCEPT ![p] = [ptr |-> h.unit[p].ptr, size |-> h.unit[p].size - n],
                                       ![tail] = [ptr |-> Null, size |-> n]],
               freep |-> prev, brk |-> h.brk]
         /\ SplitTail(h, prev, p, n).at = tail
<1>1. /\ h.unit \in [Units -> [ptr : Units \cup {Null}, size : Units]]
      /\ h = [unit |-> h.unit, freep |-> h.freep, brk |-> h.brk]
      /\ h.unit[p] = [ptr |-> h.unit[p].ptr, size |-> h.unit[p].size]
  BY UnitType
<1> DEFINE m == h.unit[p].size - n
           v == [h.unit EXCEPT ![p] = [@ EXCEPT !.size = m]]
           x == [ptr |-> Null, size |-> n]
<1>2. /\ SplitTail(h, prev, p, n).heap =
           [h EXCEPT !.unit[p].size = @ - n, !.unit[tail] = x, !.freep = prev]
      /\ SplitTail(h, prev, p, n).at = tail
  BY DEF SplitTail
<1>3. [h.unit[p] EXCEPT !.size = m] = [ptr |-> h.unit[p].ptr, size |-> m] BY <1>1
<1>4. [h EXCEPT !.unit[p].size = @ - n, !.unit[tail] = x, !.freep = prev] =
        [h EXCEPT !.unit = [v EXCEPT ![tail] = x], !.freep = prev]
  BY <1>1
<1>5. v = [h.unit EXCEPT ![p] = [ptr |-> h.unit[p].ptr, size |-> m]] BY <1>3
<1> HIDE DEF v, m, x
<1>6. SplitTail(h, prev, p, n).heap = [unit |-> [v EXCEPT ![tail] = x], freep |-> prev, brk |-> h.brk]
  BY <1>1, <1>2, <1>4
<1> QED BY <1>2, <1>5, <1>6 DEF m, x

\* The block after prev is taken from the list.
LEMMA TakeShape ==
  ASSUME NEW h, NEW L, NEW D, Shape(h, L, D), NEW prev \in L \cup {Base}, NEW p \in L,
         h.unit[prev].ptr = p
  PROVE  /\ Shape(TakeWhole(h, prev, p).heap, L \ {p}, D \cup {p})
         /\ Kept(h.unit, TakeWhole(h, prev, p).heap.unit, D)
         /\ TakeWhole(h, prev, p).heap.unit[p].size = h.unit[p].size
<1> DEFINE g == TakeWhole(h, prev, p).heap
           w == g.unit
           unit == h.unit
           r == unit[p].ptr
           M == L \ {p}
<1>1. /\ NUnits \in Nat /\ Base = 0 /\ L \subseteq Nat \ {0} /\ D \subseteq Nat
      /\ L \subseteq Units /\ D \subseteq Units /\ Base \in Units /\ h \in HeapType
      /\ unit \in [Units -> [ptr : Units \cup {Null}, size : Units]]
      /\ \A c \in L \cup {Base} : unit[c].ptr \in Units
  <2>1. /\ NUnits \in Nat /\ Base = 0 /\ L \subseteq 1 .. h.brk - 1 /\ D \subseteq 1 .. h.brk - 1
        /\ L \subseteq Units /\ D \subseteq Units
        /\ unit \in [Units -> [ptr : Units \cup {Null}, size : Units]]
        /\ \A c \in L \cup {Base} : unit[c].ptr \in L \cup {Base}
    BY ShapeTypes
  <2>2. L \subseteq Nat \ {0} /\ D \subseteq Nat BY <2>1
  <2>3. Base \in Units BY HeapAssumption DEF Base, Units
  <2>4. \A c \in L \cup {Base} : unit[c].ptr \in Units
    <3>1. \A c \in L \cup {Base} : c \in Units BY <2>1, <2>3
    <3> QED BY <2>1, <3>1
  <2>5. h \in HeapType BY DEF Shape
  <2> QED BY <2>1, <2>2, <2>3, <2>4, <2>5
<1>2. L \cap D = {} /\ \A c \in L \cup {Base} : NextIs(L, c, unit[c].ptr)
  BY DEF Shape, Sorted
<1>3. prev \in Nat /\ p \in Nat /\ p > prev /\ prev # p /\ p # 0
      /\ \A c \in L : c <= prev \/ p <= c
  <2>1. NextIs(L, prev, p) BY <1>2
  <2> QED BY <1>1, <2>1 DEF NextIs, Base
<1>4. prev \in Units /\ p \in Units /\ prev \notin D /\ p \notin D
  <2>1. prev \in Units /\ p \in Units BY <1>1
  <2>2. Base \notin D
    <3>1. D \subseteq 1 .. h.brk - 1 /\ Base = 0 BY ShapeTypes
    <3> QED BY <3>1
  <2> QED BY <1>2, <2>1, <2>2
<1>5. g = [unit |-> [unit EXCEPT ![prev] = [ptr |-> r, size |-> unit[prev].size],
                                 ![p] = [ptr |-> Null, size |-> unit[p].size]],
           freep |-> prev, brk |-> h.brk]
  BY <1>1, <1>3, <1>4, TakeIs
<1>6. TakeWhole(h, prev, p).heap = g OBVIOUS
<1> HIDE DEF g
<1>7. /\ w[prev] = [ptr |-> r, size |-> unit[prev].size]
      /\ w[p] = [ptr |-> Null, size |-> unit[p].size]
      /\ \A u \in Units : u # prev /\ u # p => w[u] = unit[u]
      /\ g.freep = prev /\ g.brk = h.brk
      /\ w = [unit EXCEPT ![prev] = [ptr |-> r, size |-> unit[prev].size],
                          ![p] = [ptr |-> Null, size |-> unit[p].size]]
  BY <1>1, <1>3, <1>4, <1>5
<1>8. \A u \in Units : w[u].size = unit[u].size BY <1>7
<1>9. g \in HeapType
  <2>1. r \in Units /\ unit[prev].size \in Units /\ unit[p].size \in Units BY <1>1, <1>4
  <2>2. w \in [Units -> [ptr : Units \cup {Null}, size : Units]]
    <3> DEFINE a == [ptr |-> r, size |-> unit[prev].size]
               z == [ptr |-> Null, size |-> unit[p].size]
    <3>1. a \in [ptr : Units \cup {Null}, size : Units] /\ z \in [ptr : Units \cup {Null}, size : Units]
      BY <2>1
    <3>2. w = [unit EXCEPT ![prev] = a, ![p] = z] BY <1>7
    <3> HIDE DEF a, z
    <3> QED BY <1>1, <3>1, <3>2
  <2>3. h.brk \in 0 .. NUnits + 1 BY <1>1, UnitType
  <2> HIDE DEF r
  <2>4. g = [unit |-> w, freep |-> prev, brk |-> h.brk] BY <1>5
  <2> HIDE DEF w
  <2> QED BY <1>4, <2>2, <2>3, <2>4 DEF HeapType
<1>10. Tiled(w, g.brk, M \cup (D \cup {p}))
  <2>1. M \cup (D \cup {p}) = L \cup D OBVIOUS
  <2>2. Tiled(unit, h.brk, L \cup D) BY DEF Shape
  <2>3. \A c \in L \cup D : w[c].size = unit[c].size BY <1>1, <1>8
  <2> HIDE DEF w
  <2> QED BY <1>7, <2>1, <2>2, <2>3 DEF Tiled
<1>11. Sorted(w, M)
  <2> SUFFICES ASSUME NEW x \in M \cup {Base} PROVE NextIs(M, x, w[x].ptr) BY DEF Sorted
  <2>1. x \in L \cup {Base} /\ x \in Units /\ x \in Nat /\ x # p BY <1>1, <1>3
  <2> DEFINE q == unit[x].ptr
  <2>2. CASE x = prev
    <3>1. w[x].ptr = r BY <1>7, <2>2
    <3>2. NextIs(L, p, r) BY <1>2
    <3> HIDE DEF r
    <3>3. r \in L \cup {Base} /\ (r = 0 \/ r > p) /\ \A c \in L : c <= p \/ (r # 0 /\ r <= c)
      BY <1>1, <3>2 DEF NextIs
    <3>4. r \in Nat BY <1>1, <3>3
    <3>5. r \in M \cup {Base} /\ (r = 0 \/ r > x) BY <1>1, <1>3, <2>2, <3>3, <3>4
    <3>6. ASSUME NEW c \in M PROVE c <= x \/ (r # 0 /\ r <= c)
      <4>1. c \in Nat /\ c # p /\ c \in L BY <1>1
      <4>2. c <= prev \/ p <= c BY <1>3, <4>1
      <4>3. c <= p \/ (r # 0 /\ r <= c) BY <3>3, <4>1
      <4> QED BY <1>3, <2>2, <4>1, <4>2, <4>3
    <3> QED BY <1>1, <3>1, <3>5, <3>6 DEF NextIs
  <2>3. CASE x # prev
    <3>1. w[x].ptr = q BY <1>7, <2>1, <2>3
    <3>2. NextIs(L, x, q) BY <1>2, <2>1
    <3> HIDE DEF q
    <3>3. q \in L \cup {Base} /\ (q = 0 \/ q > x) /\ \A c \in L : c <= x \/ (q # 0 /\ q <= c)
      BY <1>1, <3>2 DEF NextIs
    <3>4. q # p
      <4> SUFFICES ASSUME q = p PROVE FALSE OBVIOUS
      <4>1. prev <= x
        <5>1. CASE prev \in L BY <1>3, <2>1, <3>3, <5>1
        <5>2. CASE prev = Base BY <1>1, <2>1, <5>2
        <5> QED BY <5>1, <5>2
      <4>2. x \in L /\ x > prev BY <1>1, <1>3, <2>1, <2>3, <4>1
      <4> QED BY <1>3, <2>1, <3>3, <4>2
    <3>5. q \in M \cup {Base} BY <3>3, <3>4
    <3> QED BY <1>1, <3>1, <3>3, <3>5 DEF NextIs
  <2> QED BY <2>2, <2>3
<1>12. Joined(w, M)
  <2>1. Joined(unit, L) BY DEF Shape
  <2>2. \A c \in L : w[c].size = unit[c].size BY <1>1, <1>8
  <2> HIDE DEF w
  <2> QED BY <2>1, <2>2 DEF Joined
<1>13. w[Base].size = 0
  <2>1. unit[Base].size = 0 BY DEF Shape
  <2> QED BY <1>1, <1>8, <2>1
<1>14. M \cap (D \cup {p}) = {} /\ prev \in M \cup {Base} BY <1>2, <1>3
<1>15. h.brk # 0 BY DEF Shape
<1>16. Shape(g, M, D \cup {p})
  BY <1>7, <1>9, <1>10, <1>11, <1>12, <1>13, <1>14, <1>15 DEF Shape
<1>17. Kept(unit, w, D)
  <2>1. ASSUME NEW c \in D PROVE w[c] = unit[c]
    <3>1. c \in Units /\ c # p /\ c # prev BY <1>1, <1>4
    <3> QED BY <1>7, <3>1
  <2>2. ASSUME NEW c \in D, NEW i \in 1 .. unit[c].size - 1 PROVE w[c + i] = unit[c + i]
    <3>1. c + i \in Units \ (L \cup D \cup {Base}) BY Inside
    <3>2. c + i # p /\ c + i # prev BY <3>1
    <3> QED BY <1>7, <3>1, <3>2
  <2> HIDE DEF w
  <2> QED BY <2>1, <2>2 DEF Kept
<1> QED BY <1>6, <1>7, <1>16, <1>17

\* The end of a block of the list is given out.
LEMMA SplitShape ==
  ASSUME NEW h, NEW L, NEW D, Shape(h, L, D), NEW prev \in L \cup {Base}, NEW p \in L,
         NEW n \in Nat \ {0}, h.unit[p].size > n
  PROVE  LET x == SplitTail(h, prev, p, n) IN
         /\ x.at \in Units \ (L \cup D \cup {Base})
         /\ Shape(x.heap, L, D \cup {x.at})
         /\ Kept(h.unit, x.heap.unit, D)
         /\ x.heap.unit[x.at].size = n
<1> DEFINE g == SplitTail(h, prev, p, n).heap
           w == g.unit
           unit == h.unit
           brk == h.brk
           size == unit[p].size
           tail == p + size - n
           e == [ptr |-> unit[p].ptr, size |-> size - n]
           z == [ptr |-> Null, size |-> n]
<1>1. /\ NUnits \in Nat /\ Base = 0 /\ L \subseteq Nat \ {0} /\ D \subseteq Nat
      /\ L \subseteq Units /\ D \subseteq Units /\ h \in HeapType
      /\ unit \in [Units -> [ptr : Units \cup {Null}, size : Units]]
      /\ brk \in 1 .. NUnits + 1 /\ size \in Nat /\ p + size <= brk /\ p \in Nat /\ p # 0
      /\ \A c \in L \cup D : c < brk /\ c \in Nat \ {0} /\ unit[c].size \in Nat \ {0}
  <2>1. /\ NUnits \in Nat /\ Base = 0 /\ L \subseteq 1 .. brk - 1 /\ D \subseteq 1 .. brk - 1
        /\ L \subseteq Units /\ D \subseteq Units /\ brk \in 1 .. NUnits + 1
        /\ unit \in [Units -> [ptr : Units \cup {Null}, size : Units]]
        /\ \A c \in L \cup D : unit[c].size \in Nat \ {0} /\ c + unit[c].size <= brk
    BY ShapeTypes
  <2>2. L \subseteq Nat \ {0} /\ D \subseteq Nat \ {0} BY <2>1
  <2>3. \A c \in L \cup D : c < brk BY <2>1
  <2>4. h \in HeapType BY DEF Shape
  <2>5. p \in Nat \ {0} /\ size \in Nat /\ p + size <= brk BY <2>1, <2>2
  <2> QED BY <2>1, <2>2, <2>3, <2>4, <2>5
<1>2. /\ L \cap D = {} /\ unit[Base].size = 0
      /\ 1 \in L \cup D \cup {brk}
      /\ \A c \in L \cup D : c + unit[c].size \in L \cup D \cup {brk}
      /\ \A c, d \in L \cup D : c < d => c + unit[c].size <= d
      /\ \A c, d \in L : c + unit[c].size # d
  BY DEF Shape, Tiled, Joined
<1>3. size > n OBVIOUS
<1> HIDE DEF size
<1>4. /\ tail \in Nat /\ tail > p /\ tail < p + size /\ tail < brk /\ tail + n = p + size
      /\ size - n \in Nat \ {0} /\ p + (size - n) = tail
  BY <1>1, <1>3
<1>5. tail \notin L \cup D
  <2>1. \A d \in L \cup D : p < d => p + size <= d BY <1>2 DEF size
  <2> QED BY <1>1, <1>4, <2>1
<1>6. tail \in Units /\ tail # Base /\ p \in Units /\ Base \in Units /\ p # Base
  <2>1. tail \in 0 .. NUnits BY <1>1, <1>4
  <2> QED BY <1>1, <1>4, <2>1, HeapAssumption DEF Units, Base
<1> HIDE DEF tail
<1>7. /\ g = [unit |-> [unit EXCEPT ![p] = e, ![tail] = z], freep |-> prev, brk |-> brk]
      /\ SplitTail(h, prev, p, n).at = tail
  BY <1>1, <1>4, <1>6, SplitIs DEF tail, size
<1>8. e \in [ptr : Units \cup {Null}, size : Units] /\ z \in [ptr : Units \cup {Null}, size : Units]
  <2>1. unit[p].ptr \in Units \cup {Null} /\ size \in Units BY <1>1, <1>6 DEF size
  <2>2. size \in 0 .. NUnits BY <2>1 DEF Units
  <2>3. n \in 0 .. NUnits /\ size - n \in 0 .. NUnits BY <1>1, <1>3, <1>4, <2>2
  <2> QED BY <2>1, <2>3 DEF Units
<1>9. e.ptr = unit[p].ptr /\ e.size = size - n /\ z.size = n OBVIOUS
<1>10. SplitTail(h, prev, p, n).heap = g OBVIOUS
<1> HIDE DEF g, e, z
<1>11. /\ w = [unit EXCEPT ![p] = e, ![tail] = z] /\ g.freep = prev /\ g.brk = brk
       /\ g = [unit |-> w, freep |-> prev, brk |-> brk]
  BY <1>7
<1> HIDE DEF w
<1>12. w[p] = e /\ w[tail] = z /\ \A u \in Units : u # p /\ u # tail => w[u] = unit[u]
  BY <1>1, <1>4, <1>6, <1>11
<1>13. \A c \in L \cup D : c # p => w[c] = unit[c]
  <2>1. \A c \in L \cup D : c \in Units /\ c # tail BY <1>1, <1>5
  <2> QED BY <1>12, <2>1
<1>14. g \in HeapType
  <2>1. w \in [Units -> [ptr : Units \cup {Null}, size : Units]] BY <1>1, <1>8, <1>11
  <2>2. prev \in Units BY <1>1, <1>6
  <2>3. brk \in 0 .. NUnits + 1 BY <1>1, UnitType
  <2> QED BY <1>11, <2>1, <2>2, <2>3 DEF HeapType
<1> DEFINE B == L \cup (D \cup {tail})
<1>15. Tiled(w, brk, B)
  <2>1. B \subseteq 1 .. brk - 1
    <3>1. ASSUME NEW c \in L \cup D PROVE c \in 1 .. brk - 1 BY <1>1
    <3>2. tail \in 1 .. brk - 1 BY <1>1, <1>4
    <3> QED BY <3>1, <3>2
  <2>2. 1 \in B \cup {brk} BY <1>2
  <2>3. ASSUME NEW c \in B PROVE w[c].size > 0 /\ c + w[c].size \in B \cup {brk}
    <3>1. CASE c = p BY <1>4, <1>9, <1>12, <3>1
    <3>2. CASE c = tail
      <4>1. p + size \in L \cup D \cup {brk} BY <1>2 DEF size
      <4> QED BY <1>4, <1>9, <1>12, <3>2, <4>1
    <3>3. CASE c # p /\ c # tail
      <4>1. c \in L \cup D /\ w[c] = unit[c] BY <1>13, <3>3
      <4>2. c + unit[c].size \in L \cup D \cup {brk} /\ unit[c].size \in Nat \ {0} BY <1>1, <1>2, <4>1
      <4> QED BY <4>1, <4>2
    <3> QED BY <3>1, <3>2, <3>3
  <2>4. ASSUME NEW c \in B, NEW d \in B, c < d PROVE c + w[c].size <= d
    <3>1. c \in Nat /\ d \in Nat BY <1>1, <1>4
    <3>2. CASE c = p
      <4>1. CASE d = tail BY <1>4, <1>9, <1>12, <3>2, <4>1
      <4>2. CASE d # tail
        <5>1. p + size <= d BY <1>2, <2>4, <3>2, <4>2 DEF size
        <5> QED BY <1>1, <1>4, <1>9, <1>12, <3>1, <3>2, <5>1
      <4> QED BY <4>1, <4>2
    <3>3. CASE c = tail
      <4>1. d \in L \cup D /\ p < d BY <1>1, <1>4, <2>4, <3>1, <3>3
      <4>2. p + size <= d BY <1>2, <4>1 DEF size
      <4> QED BY <1>4, <1>9, <1>12, <3>3, <4>2
    <3>4. CASE c # p /\ c # tail
      <4>1. c \in L \cup D /\ w[c] = unit[c] /\ unit[c].size \in Nat BY <1>1, <1>13, <3>4
      <4>2. CASE d \in L \cup D BY <1>2, <2>4, <4>1, <4>2
      <4>3. CASE d = tail
        <5>1. c < p
          <6>1. ASSUME p < c PROVE FALSE
            <7>1. p + size <= c BY <1>2, <4>1, <6>1 DEF size
            <7> QED BY <1>4, <2>4, <3>1, <4>3, <7>1, <1>1
          <6> QED BY <1>1, <3>1, <3>4, <6>1
        <5>2. c + unit[c].size <= p BY <1>2, <4>1, <5>1
        <5> QED BY <1>1, <1>4, <3>1, <4>1, <4>3, <5>2
      <4> QED BY <4>2, <4>3
    <3> QED BY <3>2, <3>3, <3>4
  <2> QED BY <2>1, <2>2, <2>3, <2>4 DEF Tiled
<1>16. Sorted(w, L)
  <2>1. Sorted(unit, L) BY DEF Shape
  <2>2. ASSUME NEW c \in L \cup {Base} PROVE w[c].ptr = unit[c].ptr
    <3>1. CASE c = p BY <1>9, <1>12, <3>1
    <3>2. CASE c # p
      <4>1. c \in Units /\ c # tail BY <1>1, <1>5, <1>6
      <4> QED BY <1>12, <3>2, <4>1
    <3> QED BY <3>1, <3>2
  <2> QED BY <2>1, <2>2 DEF Sorted
<1>17. Joined(w, L)
  <2> SUFFICES ASSUME NEW c \in L, NEW d \in L PROVE c + w[c].size # d BY DEF Joined
  <2>1. CASE c = p BY <1>4, <1>5, <1>9, <1>12, <2>1
  <2>2. CASE c # p BY <1>2, <1>13, <2>2
  <2> QED BY <2>1, <2>2
<1>18. w[Base].size = 0 BY <1>2, <1>6, <1>12
<1>19. L \cap (D \cup {tail}) = {} BY <1>2, <1>5
<1>20. brk # 0 BY DEF Shape
<1>21. Shape(g, L, D \cup {tail})
  BY <1>11, <1>14, <1>15, <1>16, <1>17, <1>18, <1>19, <1>20 DEF Shape, w
<1>22. Kept(unit, w, D)
  <2>1. ASSUME NEW c \in D PROVE w[c] = unit[c] BY <1>2, <1>13
  <2>2. ASSUME NEW c \in D, NEW i \in 1 .. unit[c].size - 1 PROVE w[c + i] = unit[c + i]
    <3>1. c + i \in Units \ (L \cup D \cup {Base}) BY Inside
    <3>2. c + i # tail
      <4>1. /\ c \in L \cup D /\ c # p /\ c \in Nat /\ unit[c].size \in Nat
            /\ i \in Nat /\ i < unit[c].size /\ i > 0
        BY <1>1, <1>2
      <4>2. CASE c < p
        <5>1. c + unit[c].size <= p BY <1>2, <4>1, <4>2
        <5> QED BY <1>1, <1>4, <4>1, <5>1
      <4>3. CASE p < c
        <5>1. p + size <= c BY <1>2, <4>1, <4>3 DEF size
        <5> QED BY <1>1, <1>4, <4>1, <5>1
      <4> QED BY <1>1, <4>1, <4>2, <4>3
    <3> QED BY <1>12, <3>1, <3>2
  <2> QED BY <2>1, <2>2 DEF Kept
<1>23. w[tail].size = n BY <1>9, <1>12
<1> QED BY <1>5, <1>6, <1>7, <1>10, <1>21, <1>22, <1>23 DEF w

\* A block of n units that was not in use is given out, and those in use are left as
\* they are.
Given(h, n, D, x) ==
  /\ x.at \in Units \ (D \cup {Base})
  /\ \E M \in SUBSET Units : Shape(x.heap, M, D \cup {x.at})
  /\ Kept(h.unit, x.heap.unit, D)
  /\ x.heap.unit[x.at].size = n

\* What the search stops at is carved.
LEMMA CarveShape ==
  ASSUME NEW h, NEW L, NEW D, Shape(h, L, D), NEW prev \in L \cup {Base}, NEW n \in Nat \ {0},
         h.unit[h.unit[prev].ptr].size >= n
  PROVE  Given(h, n, D, Carve(h, prev, n))
<1> DEFINE p == h.unit[prev].ptr
           x == Carve(h, prev, n)
<1>1. /\ L \subseteq Units /\ L \cap D = {} /\ Base \notin L /\ Base = 0 /\ p \in L \cup {Base}
      /\ h.unit[Base].size = 0 /\ \A c \in L : h.unit[c].size \in Nat
  BY ShapeTypes DEF Shape
<1>2. p \in L BY <1>1
<1>3. CASE h.unit[p].size = n
  <2> DEFINE g == TakeWhole(h, prev, p)
  <2>1. x = g BY <1>3 DEF Carve
  <2>2. g.at = p BY DEF TakeWhole
  <2>3. /\ Shape(g.heap, L \ {p}, D \cup {p}) /\ Kept(h.unit, g.heap.unit, D)
        /\ g.heap.unit[p].size = h.unit[p].size
    BY <1>2, TakeShape
  <2> HIDE DEF g, p, x
  <2>4. L \ {p} \in SUBSET Units BY <1>1
  <2>5. p \in Units \ (D \cup {Base}) BY <1>1, <1>2
  <2> QED BY <1>3, <2>1, <2>2, <2>3, <2>4, <2>5 DEF x, Given
<1>4. CASE h.unit[p].size # n
  <2> DEFINE g == SplitTail(h, prev, p, n)
  <2>1. x = g BY <1>4 DEF Carve
  <2>2. h.unit[p].size > n BY <1>1, <1>2, <1>4
  <2> HIDE DEF p, x
  <2>3. /\ g.at \in Units \ (L \cup D \cup {Base}) /\ Shape(g.heap, L, D \cup {g.at})
        /\ Kept(h.unit, g.heap.unit, D) /\ g.heap.unit[g.at].size = n
    BY <1>2, <2>2, SplitShape
  <2> HIDE DEF g
  <2> QED BY <1>1, <2>1, <2>3 DEF x, Given
<1> QED BY <1>3, <1>4

\* Going round once finds a block that is large enough, if there is one, and what
\* it stops at is one.
LEMMA SearchIs ==
  ASSUME NEW h, NEW L, NEW D, Shape(h, L, D), NEW n \in Nat \ {0}
  PROVE  /\ (\E c \in L : h.unit[c].size >= n) => Fitting(h, n) # {}
         /\ Fitting(h, n) # {} => /\ Found(h, n) \in L \cup {Base}
                                  /\ h.unit[h.unit[Found(h, n)].ptr].size >= n
<1> DEFINE e == Nth(h)
           F == Fitting(h, n)
<1>1. /\ L \subseteq Units /\ Base \notin L /\ Base = 0 /\ NUnits \in Nat /\ L \subseteq Nat
      /\ h.freep \in L \cup {Base} /\ Sorted(h.unit, L)
  <2>1. /\ L \subseteq Units /\ Base \notin L /\ Base = 0 /\ NUnits \in Nat /\ L \subseteq 1 .. h.brk - 1
    BY ShapeTypes
  <2>2. L \subseteq Nat BY <2>1
  <2>3. h.freep \in L \cup {Base} /\ Sorted(h.unit, L) BY DEF Shape
  <2> QED BY <2>1, <2>2, <2>3
<1>2. /\ e \in [0 .. NUnits + 1 -> L \cup {Base}]
      /\ \A k \in 1 .. NUnits + 1 : e[k] = h.unit[e[k - 1]].ptr
      /\ \A p \in L \cup {Base} : \E k \in 0 .. NUnits : e[k] = p
  BY <1>1, ListCovered
<1>3. F = {k \in 0 .. NUnits : h.unit[e[k + 1]].size >= n} BY DEF Fitting
<1>4. Found(h, n) = e[Min(F)] BY DEF Found
<1>5. Fitting(h, n) = F OBVIOUS
<1> HIDE DEF e, F
<1>6. ASSUME NEW k \in 0 .. NUnits PROVE k + 1 \in 1 .. NUnits + 1 /\ k \in 0 .. NUnits + 1
                                        /\ e[k + 1] = h.unit[e[k]].ptr
  <2>1. k + 1 \in 1 .. NUnits + 1 /\ (k + 1) - 1 = k /\ k \in 0 .. NUnits + 1 BY <1>1
  <2> QED BY <1>2, <2>1
<1>7. ASSUME NEW c \in L, h.unit[c].size >= n PROVE F # {}
  <2>1. c \in Nat /\ c # 0 BY <1>1
  <2>2. PICK p \in L \cup {Base} : p < c /\ \A d \in L : d < c => d <= p BY <1>1, <2>1, Below
  <2>3. h.unit[p].ptr = c BY <1>1, <2>2, NextOfLast
  <2>4. PICK k \in 0 .. NUnits : e[k] = p BY <1>2
  <2>5. e[k + 1] = c BY <1>6, <2>3, <2>4
  <2>6. k \in F BY <1>3, <1>7, <2>5
  <2> QED BY <2>6
<1>8. ASSUME F # {} PROVE Found(h, n) \in L \cup {Base} /\ h.unit[h.unit[Found(h, n)].ptr].size >= n
  <2>1. F \subseteq Nat BY <1>3
  <2>2. Min(F) \in F BY <1>8, <2>1, MinIs
  <2> DEFINE k == Min(F)
  <2>3. k \in 0 .. NUnits /\ h.unit[e[k + 1]].size >= n BY <1>3, <2>2
  <2>4. Found(h, n) = e[k] BY <1>4
  <2> HIDE DEF k
  <2>5. e[k] \in L \cup {Base} BY <1>2, <1>6, <2>3
  <2> QED BY <1>6, <2>3, <2>4, <2>5
<1> QED BY <1>5, <1>7, <1>8

LEMMA MaxOfTwo ==
  ASSUME NEW m \in Nat, NEW n \in Nat
  PROVE  Max({m, n}) = IF m >= n THEN m ELSE n
<1> DEFINE M == IF m >= n THEN m ELSE n
<1>1. M \in {m, n} /\ \A x \in {m, n} : M >= x OBVIOUS
<1>2. \A y \in {m, n} : (\A x \in {m, n} : y >= x) => y = M OBVIOUS
<1> HIDE DEF M
<1>3. Max({m, n}) = M BY <1>1, <1>2 DEF Max
<1> QED BY <1>3 DEF M

\* What is asked for is less than 4 GiB: as an int it is what it was, or negative.
LEMMA Increments ==
  ASSUME NEW n \in Nat, n < 2 * IntUnits
  PROVE  AsInt(n) \in Int /\ (AsInt(n) >= 0 => AsInt(n) = n)
<1> DEFINE d == 2 * IntUnits
           m == n + IntUnits
<1>1. IntUnits \in Nat /\ d \in Nat \ {0} /\ m \in Nat BY RequestsAssumption
<1>2. AsInt(n) = (m % d) - IntUnits BY DEF AsInt
<1>3. CASE n < IntUnits
  <2>1. m < d BY <1>1, <1>3
  <2> HIDE DEF m, d
  <2>2. m % d = m BY <1>1, <2>1
  <2> QED BY <1>1, <1>2, <2>2 DEF m
<1>4. CASE n >= IntUnits
  <2>1. m = d + (m - d) /\ m - d \in Nat /\ m - d < d /\ m - d < IntUnits BY <1>1, <1>4
  <2> HIDE DEF m, d
  <2>2. m % d = m - d BY <1>1, <2>1
  <2> QED BY <1>1, <1>2, <2>1, <2>2
<1> QED BY <1>1, <1>3, <1>4

\* What mem_sbrk gives lies behind all blocks, and is one more block in use.
LEMMA SbrkShape ==
  ASSUME NEW h, NEW L, NEW D, Shape(h, L, D), NEW n \in Nat \ {0}, n < 2 * IntUnits,
         mem_sbrk(h, n).ok
  PROVE  LET s == mem_sbrk(h, n)
             g == [s.heap EXCEPT !.unit[s.at].size = n] IN
         /\ s.at \in Units \ (L \cup D \cup {Base})
         /\ Shape(g, L, D \cup {s.at})
         /\ Kept(h.unit, g.unit, D) /\ g.unit[s.at].size = n
<1> DEFINE s == mem_sbrk(h, n)
           at == s.at
           g == [s.heap EXCEPT !.unit[at].size = n]
           unit == h.unit
           w == g.unit
           brk == h.brk
           z == [ptr |-> unit[at].ptr, size |-> n]
<1>1. /\ NUnits \in Nat /\ Base = 0 /\ L \subseteq Nat \ {0} /\ D \subseteq Nat \ {0}
      /\ L \subseteq Units /\ D \subseteq Units /\ h \in HeapType
      /\ unit \in [Units -> [ptr : Units \cup {Null}, size : Units]]
      /\ brk \in 1 .. NUnits + 1
      /\ \A c \in L \cup D : c < brk /\ c \in Nat \ {0} /\ unit[c].size \in Nat \ {0}
      /\ \A c \in L \cup D : c + unit[c].size <= brk
  <2>1. /\ NUnits \in Nat /\ Base = 0 /\ L \subseteq 1 .. brk - 1 /\ D \subseteq 1 .. brk - 1
        /\ L \subseteq Units /\ D \subseteq Units /\ brk \in 1 .. NUnits + 1
        /\ unit \in [Units -> [ptr : Units \cup {Null}, size : Units]]
        /\ \A c \in L \cup D : unit[c].size \in Nat \ {0} /\ c + unit[c].size <= brk
    BY ShapeTypes
  <2>2. L \subseteq Nat \ {0} /\ D \subseteq Nat \ {0} BY <2>1
  <2>3. \A c \in L \cup D : c < brk BY <2>1
  <2>4. h \in HeapType BY DEF Shape
  <2> QED BY <2>1, <2>2, <2>3, <2>4
<1>2. Max({h.brk, 1}) = brk BY <1>1, MaxOfTwo
<1>3. at = brk /\ brk - 1 + n <= NUnits /\ s.heap = [h EXCEPT !.brk = brk + n]
  <2>1. AsInt(n) = n BY Increments DEF mem_sbrk
  <2> QED BY <1>2, <2>1 DEF mem_sbrk
<1>4. brk \in Units /\ brk + n \in 1 .. NUnits + 1 /\ brk # Base /\ n \in Units /\ brk > 0
  <2>1. brk \in 0 .. NUnits /\ n \in 0 .. NUnits /\ brk + n \in 1 .. NUnits + 1 /\ brk > 0
    BY <1>1, <1>3
  <2> QED BY <1>1, <2>1 DEF Units
<1>5. /\ h = [unit |-> unit, freep |-> h.freep, brk |-> brk]
      /\ unit[at] = [ptr |-> unit[at].ptr, size |-> unit[at].size]
      /\ h.freep \in Units /\ unit[at].ptr \in Units \cup {Null}
  BY <1>1, <1>3, <1>4, UnitType
<1>6. g = [unit |-> [unit EXCEPT ![at] = z], freep |-> h.freep, brk |-> brk + n]
  <2>1. s.heap = [unit |-> unit, freep |-> h.freep, brk |-> brk + n] BY <1>3, <1>5
  <2>2. [unit[at] EXCEPT !.size = n] = z BY <1>5
  <2>3. [unit EXCEPT ![at].size = n] = [unit EXCEPT ![at] = z] BY <2>2
  <2> HIDE DEF z, s, at
  <2> QED BY <2>1, <2>3
<1>7. z \in [ptr : Units \cup {Null}, size : Units] /\ z.size = n BY <1>4, <1>5
<1>8. at = mem_sbrk(h, n).at /\ g = [mem_sbrk(h, n).heap EXCEPT !.unit[at].size = n] OBVIOUS
<1> HIDE DEF s, at, g, z
<1>9. w = [unit EXCEPT ![at] = z] /\ g.freep = h.freep /\ g.brk = brk + n
      /\ g = [unit |-> w, freep |-> h.freep, brk |-> brk + n]
  BY <1>6
<1> HIDE DEF w
<1>10. w[at] = z /\ \A u \in Units : u # at => w[u] = unit[u] BY <1>1, <1>3, <1>4, <1>9
<1>11. at \notin L \cup D /\ at # Base /\ at \in Units BY <1>1, <1>3, <1>4
<1>12. \A c \in L \cup D \cup {Base} : w[c] = unit[c]
  <2>1. \A c \in L \cup D : c \in Units BY <1>1
  <2>2. Base \in Units BY HeapAssumption DEF Units, Base
  <2> QED BY <1>10, <1>11, <2>1, <2>2
<1>13. g \in HeapType
  <2>1. w \in [Units -> [ptr : Units \cup {Null}, size : Units]] BY <1>1, <1>7, <1>9
  <2>2. brk + n \in 0 .. NUnits + 1 BY <1>4
  <2> QED BY <1>5, <1>9, <2>1, <2>2 DEF HeapType
<1> DEFINE B == L \cup (D \cup {at})
<1>14. /\ 1 \in L \cup D \cup {brk}
       /\ \A c \in L \cup D : c + unit[c].size \in L \cup D \cup {brk}
       /\ \A c, d \in L \cup D : c < d => c + unit[c].size <= d
  BY DEF Shape, Tiled
<1>15. Tiled(w, brk + n, B)
  <2>1. B \subseteq 1 .. (brk + n) - 1
    <3>1. ASSUME NEW c \in L \cup D PROVE c \in 1 .. (brk + n) - 1 BY <1>1
    <3>2. at \in 1 .. (brk + n) - 1 BY <1>1, <1>3
    <3> QED BY <3>1, <3>2
  <2>2. 1 \in B \cup {brk + n} BY <1>3, <1>14
  <2>3. ASSUME NEW c \in B PROVE w[c].size > 0 /\ c + w[c].size \in B \cup {brk + n}
    <3>1. CASE c = at BY <1>3, <1>7, <1>10, <3>1
    <3>2. CASE c # at BY <1>1, <1>3, <1>12, <1>14, <3>2
    <3> QED BY <3>1, <3>2
  <2>4. ASSUME NEW c \in B, NEW d \in B, c < d PROVE c + w[c].size <= d
    <3>1. c # at
      <4>1. \A x \in B : x <= brk BY <1>1, <1>3
      <4>2. d <= brk /\ d \in Nat BY <1>1, <1>3, <4>1
      <4> QED BY <1>1, <1>3, <2>4, <4>2
    <3>2. c \in L \cup D /\ w[c] = unit[c] BY <1>12, <3>1
    <3>3. CASE d = at BY <1>1, <1>3, <3>2, <3>3
    <3>4. CASE d # at BY <1>14, <2>4, <3>2, <3>4
    <3> QED BY <3>3, <3>4
  <2> HIDE DEF B
  <2> QED BY <2>1, <2>2, <2>3, <2>4 DEF Tiled
<1>16. Sorted(w, L)
  <2>1. Sorted(unit, L) BY DEF Shape
  <2> QED BY <1>12, <2>1 DEF Sorted
<1>17. Joined(w, L)
  <2>1. Joined(unit, L) BY DEF Shape
  <2> QED BY <1>12, <2>1 DEF Joined
<1>18. w[Base].size = 0
  <2>1. unit[Base].size = 0 BY DEF Shape
  <2> QED BY <1>12, <2>1
<1>19. L \cap (D \cup {at}) = {} /\ h.freep \in L \cup {Base}
  <2>1. L \cap D = {} /\ h.freep \in L \cup {Base} BY DEF Shape
  <2> QED BY <1>11, <2>1
<1>20. brk + n # 0 BY <1>4
<1>21. Shape(g, L, D \cup {at})
  BY <1>9, <1>13, <1>15, <1>16, <1>17, <1>18, <1>19, <1>20 DEF Shape, w
<1>22. Kept(unit, w, D)
  <2>1. ASSUME NEW c \in D, NEW i \in 1 .. unit[c].size - 1 PROVE w[c + i] = unit[c + i]
    <3>1. c + i \in Units /\ c + i < brk BY Inside
    <3> QED BY <1>1, <1>3, <1>10, <3>1
  <2> QED BY <1>12, <2>1 DEF Kept
<1> QED BY <1>7, <1>8, <1>10, <1>11, <1>21, <1>22 DEF w

LEMMA MallocGives ==
  ASSUME NEW h, NEW L, NEW D, Shape(h, L, D), NEW n \in 0 .. MaxRequest, MmMalloc(h, n).ok
  PROVE  Given(h, n + 1, D, MmMalloc(h, n))
<1> DEFINE nunits == n + 1
           m == MmMalloc(h, n)
           more == morecore(h, nunits)
           x == Carve(h, Found(h, nunits), nunits)
           y == Carve(more.heap, Found(more.heap, nunits), nunits)
<1>1. nunits \in Nat \ {0} /\ nunits < 2 * IntUnits /\ mm_units(n) = nunits
  BY HeapAssumption, RequestsAssumption DEF mm_units
<1>2. CASE Fitting(h, nunits) # {}
  <2>1. Found(h, nunits) \in L \cup {Base} /\ h.unit[h.unit[Found(h, nunits)].ptr].size >= nunits
    BY <1>1, <1>2, SearchIs
  <2>2. m.heap = x.heap /\ m.at = x.at BY <1>1, <1>2 DEF MmMalloc
  <2> HIDE DEF m, nunits
  <2>3. Given(h, nunits, D, x) BY <1>1, <2>1, CarveShape
  <2> HIDE DEF x
  <2> QED BY <2>2, <2>3 DEF Given, m, nunits
<1>3. CASE Fitting(h, nunits) = {}
  <2> DEFINE nu == Max({nunits, PageUnits})
             s == mem_sbrk(h, nu)
             g == [s.heap EXCEPT !.unit[s.at].size = nu]
             f == MmFree(g, s.at)
  <2>1. more.ok /\ m.heap = y.heap /\ m.at = y.at BY <1>1, <1>3 DEF MmMalloc
  <2>2. nu \in Nat \ {0} /\ nu >= nunits /\ nu < 2 * IntUnits
    BY <1>1, HeapAssumption, RequestsAssumption, MaxOfTwo
  <2>3. s.ok /\ more.heap = f BY <2>1 DEF morecore
  <2> HIDE DEF nu, m, nunits, y
  <2>4. /\ s.at \in Units \ (L \cup D \cup {Base})
        /\ Shape(g, L, D \cup {s.at})
        /\ Kept(h.unit, g.unit, D) /\ g.unit[s.at].size = nu
    BY <2>2, <2>3, SbrkShape
  <2>5. s.at \in D \cup {s.at} /\ (D \cup {s.at}) \ {s.at} = D BY <2>4
  <2> HIDE DEF g, s
  <2>6. /\ Shape(f, Freed(g, L, s.at), D)
        /\ \E c \in Freed(g, L, s.at) : f.unit[c].size >= nu
        /\ Kept(g.unit, f.unit, D)
    <3>1. /\ Shape(f, Freed(g, L, s.at), (D \cup {s.at}) \ {s.at})
          /\ \E c \in Freed(g, L, s.at) : f.unit[c].size >= g.unit[s.at].size
      <4> DEFINE at == s.at
                 E == D \cup {at}
      <4>1. Shape(g, L, E) /\ at \in E BY <2>4, <2>5
      <4> HIDE DEF at, E
      <4>2. /\ Shape(MmFree(g, at), Freed(g, L, at), E \ {at})
            /\ \E c \in Freed(g, L, at) : MmFree(g, at).unit[c].size >= g.unit[at].size
        BY <4>1, FreedShape
      <4> QED BY <4>2 DEF at, E
    <3>2. Kept(g.unit, f.unit, (D \cup {s.at}) \ {s.at}) BY <2>4, <2>5, FreedKeeps
    <3> QED BY <2>4, <2>5, <3>1, <3>2
  <2> DEFINE M == Freed(g, L, s.at)
  <2>7. more.heap = f BY <2>3
  <2> HIDE DEF f, M, more
  <2>8. Shape(f, M, D) /\ Kept(g.unit, f.unit, D) BY <2>6 DEF M
  <2>9. \E c \in M : f.unit[c].size >= nunits
    <3>1. PICK c \in M : f.unit[c].size >= nu BY <2>6 DEF M
    <3>2. f.unit[c].size \in Nat BY <2>8, ShapeTypes
    <3> QED BY <1>1, <2>2, <3>1, <3>2
  <2>10. Fitting(f, nunits) # {} BY <1>1, <2>8, <2>9, SearchIs
  <2>11. Found(f, nunits) \in M \cup {Base} /\ f.unit[f.unit[Found(f, nunits)].ptr].size >= nunits
    BY <1>1, <2>8, <2>10, SearchIs
  <2>12. y = Carve(f, Found(f, nunits), nunits) BY <2>7 DEF y
  <2>13. Given(f, nunits, D, y) BY <1>1, <2>8, <2>11, <2>12, CarveShape
  <2>14. Kept(h.unit, y.heap.unit, D)
    <3>1. Kept(h.unit, g.unit, D) BY <2>4
    <3>2. Kept(h.unit, f.unit, D) BY <2>8, <3>1, KeptTwice
    <3>3. Kept(f.unit, y.heap.unit, D) BY <2>13 DEF Given
    <3> QED BY <3>2, <3>3, KeptTwice
  <2> QED BY <2>1, <2>13, <2>14 DEF Given, m, nunits
<1> QED BY <1>2, <1>3

-----------------------------------------------------------------------------
(* What the client writes. *)

\* A write inside a block in use.
WritesInside(h, b, w) ==
  /\ w \in [Units -> [ptr : Units \cup {Null}, size : Units]]
  /\ \A u \in Units : (\A i \in 1 .. h.unit[b].size - 1 : u # b + i) => w[u] = h.unit[u]

WithUnits(h, w) == [h EXCEPT !.unit = w]

Wrote(h, L, D, b, w, g) ==
  /\ Shape(g, L, D) /\ g.unit = w
  /\ Kept(h.unit, w, D \ {b}) /\ w[b] = h.unit[b]

LEMMA WriteInside ==
  ASSUME NEW h, NEW L, NEW D, Shape(h, L, D), NEW b \in D, NEW w, WritesInside(h, b, w)
  PROVE  Wrote(h, L, D, b, w, WithUnits(h, w))
<1> DEFINE g == [h EXCEPT !.unit = w]
           unit == h.unit
           size(c) == unit[c].size
<1>0. /\ w \in [Units -> [ptr : Units \cup {Null}, size : Units]]
      /\ \A u \in Units : (\A i \in 1 .. size(b) - 1 : u # b + i) => w[u] = unit[u]
  BY DEF WritesInside
<1>1. h \in HeapType BY DEF Shape
<1>2. h = [unit |-> unit, freep |-> h.freep, brk |-> h.brk] /\ h.freep \in Units /\ h.brk \in 0 .. NUnits + 1
  BY <1>1, UnitType
<1>3. g = [unit |-> w, freep |-> h.freep, brk |-> h.brk] BY <1>2
<1>4. WithUnits(h, w) = g BY DEF WithUnits
<1> HIDE DEF g
<1>5. g \in HeapType /\ g.brk = h.brk /\ g.freep = h.freep /\ g.unit = w
  BY <1>0, <1>2, <1>3 DEF HeapType
<1>6. /\ L \subseteq Units /\ D \subseteq Units /\ Base \in Units /\ D \subseteq Nat
      /\ \A c \in D : size(c) \in Nat
  <2>1. L \subseteq Units /\ D \subseteq Units /\ D \subseteq 1 .. h.brk - 1 /\ \A c \in D : size(c) \in Nat
    BY ShapeTypes
  <2>2. Base \in Units BY HeapAssumption DEF Base, Units
  <2>3. D \subseteq Nat BY <2>1
  <2> QED BY <2>1, <2>2, <2>3
<1>7. \A u \in L \cup D \cup {Base} : w[u] = unit[u]
  <2> SUFFICES ASSUME NEW u \in L \cup D \cup {Base} PROVE w[u] = unit[u] OBVIOUS
  <2>1. \A i \in 1 .. size(b) - 1 : b + i \in Units \ (L \cup D \cup {Base}) BY Inside
  <2>2. u \in Units BY <1>6
  <2> QED BY <1>0, <2>1, <2>2
<1>8. Shape(g, L, D)
  <2>1. \A u \in L \cup D \cup {Base} : g.unit[u] = h.unit[u] BY <1>5, <1>7
  <2> QED BY <1>5, <2>1, ShapeKept
<1>9. Kept(unit, w, D \ {b})
  <2>1. ASSUME NEW c \in D \ {b}, NEW j \in 1 .. size(c) - 1 PROVE w[c + j] = unit[c + j]
    <3>1. c + j \in Units BY Inside
    <3>2. ASSUME NEW i \in 1 .. size(b) - 1 PROVE c + j # b + i
      <4>1. \A x, y \in L \cup D : x < y => x + size(x) <= y BY DEF Shape, Tiled
      <4>2. c \in Nat /\ b \in Nat /\ size(c) \in Nat /\ size(b) \in Nat /\ c # b BY <1>6
      <4>3. j \in 1 .. size(c) - 1 /\ i \in 1 .. size(b) - 1 OBVIOUS
      <4> HIDE DEF size
      <4>4. CASE c < b
        <5>1. c + size(c) <= b BY <4>1, <4>4
        <5> QED BY <4>2, <4>3, <5>1
      <4>5. CASE b < c
        <5>1. b + size(b) <= c BY <4>1, <4>5
        <5> QED BY <4>2, <4>3, <5>1
      <4> QED BY <4>2, <4>4, <4>5
    <3> QED BY <1>0, <3>1, <3>2
  <2> QED BY <1>7, <2>1 DEF Kept
<1> QED BY <1>4, <1>5, <1>7, <1>8, <1>9 DEF Wrote

\* The client fills a block from a place on, and has what it had before that place.
LEMMA FillGood ==
  ASSUME NEW h, NEW L \in SUBSET Units, NEW D, Shape(h, L, D), NEW b \in D,
         NEW s \in Seq(Vals), Len(s) < h.unit[b].size, NEW from \in Nat \ {0},
         \A i \in 1 .. Len(s) : i < from => h.unit[b + i] = Blob(s[i]),
         NEW held \in [D -> Seq(Vals)], held[b] = s,
         \A c \in D \ {b} : Holds(h.unit, c, held[c])
  PROVE  Good(Fill(h, b, from, s), held)
<1> DEFINE w == [u \in Units |-> IF u \in b + from .. b + Len(s) THEN Blob(s[u - b]) ELSE h.unit[u]]
           g == [h EXCEPT !.unit = w]
<1>1. /\ NUnits \in Nat /\ b \in Nat /\ h.unit[b].size \in Nat /\ Len(s) \in Nat
      /\ h.unit \in [Units -> [ptr : Units \cup {Null}, size : Units]]
      /\ \A c \in D : h.unit[c].size \in Nat
  <2>1. /\ NUnits \in Nat /\ D \subseteq 1 .. h.brk - 1 /\ \A c \in D : h.unit[c].size \in Nat
        /\ h.unit \in [Units -> [ptr : Units \cup {Null}, size : Units]]
    BY ShapeTypes
  <2>2. b \in Nat BY <2>1
  <2> QED BY <2>1, <2>2
<1>2. Fill(h, b, from, s) = g BY DEF Fill
<1>3. \A u : u \in b + from .. b + Len(s) => u - b \in from .. Len(s) /\ u - b \in 1 .. Len(s) /\ u = b + (u - b)
  BY <1>1
<1>4. w \in [Units -> [ptr : Units \cup {Null}, size : Units]]
  <2> SUFFICES ASSUME NEW u \in Units PROVE w[u] \in [ptr : Units \cup {Null}, size : Units] OBVIOUS
  <2>1. CASE u \in b + from .. b + Len(s)
    <3>1. s[u - b] \in Vals BY <1>3, <2>1
    <3>2. s[u - b] \in Units BY <3>1, HeapAssumption DEF Units
    <3>3. Blob(s[u - b]) \in [ptr : Units \cup {Null}, size : Units] BY <3>2 DEF Blob
    <3>4. w[u] = Blob(s[u - b]) BY <2>1
    <3> QED BY <3>3, <3>4
  <2>2. CASE u \notin b + from .. b + Len(s) BY <1>1, <2>2
  <2> QED BY <2>1, <2>2
<1>5. \A u \in Units : (\A i \in 1 .. h.unit[b].size - 1 : u # b + i) => w[u] = h.unit[u]
  <2> SUFFICES ASSUME NEW u \in Units, u \in b + from .. b + Len(s)
               PROVE  \E i \in 1 .. h.unit[b].size - 1 : u = b + i
    OBVIOUS
  <2>1. u - b \in 1 .. Len(s) /\ u = b + (u - b) BY <1>3
  <2>2. u - b \in 1 .. h.unit[b].size - 1 BY <1>1, <2>1
  <2> QED BY <2>1, <2>2
<1>6. ASSUME NEW i \in 1 .. Len(s) PROVE w[b + i] = Blob(s[i])
  <2>1. i \in 1 .. h.unit[b].size - 1 BY <1>1
  <2>2. b + i \in Units BY <2>1, Inside
  <2>3. (b + i) - b = i BY <1>1
  <2>4. i >= from <=> b + i \in b + from .. b + Len(s) BY <1>1
  <2>5. CASE i >= from BY <2>2, <2>3, <2>4, <2>5
  <2>6. CASE i < from
    <3>1. b + i \notin b + from .. b + Len(s) BY <1>1, <2>4, <2>6
    <3>2. w[b + i] = h.unit[b + i] BY <2>2, <3>1
    <3> QED BY <2>6, <3>2
  <2> QED BY <2>5, <2>6
<1> HIDE DEF w
<1>7. /\ Shape(g, L, D) /\ g.unit = w
      /\ Kept(h.unit, w, D \ {b}) /\ w[b] = h.unit[b]
  <2>1. WritesInside(h, b, w) BY <1>4, <1>5 DEF WritesInside
  <2>2. WithUnits(h, w) = g BY DEF WithUnits
  <2> HIDE DEF g
  <2>3. Wrote(h, L, D, b, w, WithUnits(h, w)) BY <2>1, WriteInside
  <2> QED BY <2>2, <2>3 DEF Wrote
<1> HIDE DEF g
<1>8. ASSUME NEW c \in D PROVE Holds(w, c, held[c])
  <2>1. CASE c = b
    <3>1. Len(s) < w[b].size BY <1>7
    <3> QED BY <1>6, <2>1, <3>1 DEF Holds
  <2>2. CASE c # b
    <3>1. c \in D \ {b} /\ h.unit[c].size \in Nat BY <1>1, <2>2
    <3> QED BY <1>7, <3>1, HoldsKept
  <2> QED BY <2>1, <2>2
<1>9. DOMAIN held = D OBVIOUS
<1> QED BY <1>2, <1>7, <1>8, <1>9 DEF Good

\* The client's view once it has s at an address besides D.
Put(held, D, at, s) == [b \in D \cup {at} |-> IF b = at THEN s ELSE held[b]]
Repeated(n, v) == [i \in 1 .. n |-> v]

\* What mm_malloc gives, the client fills.
LEMMA MallocGood ==
  ASSUME NEW h, NEW held, Good(h, held), NEW n \in 0 .. MaxRequest, MmMalloc(h, n).ok,
         NEW v \in Vals
  PROVE  LET m == MmMalloc(h, n) IN
         Good(Fill(m.heap, m.at, 1, Repeated(n, v)), Put(held, DOMAIN held, m.at, Repeated(n, v)))
<1> DEFINE m == MmMalloc(h, n)
           s == Repeated(n, v)
           D == DOMAIN held
           E == D \cup {m.at}
           new == [b \in E |-> IF b = m.at THEN s ELSE held[b]]
<1>0. n \in Nat BY HeapAssumption
<1>1. s \in Seq(Vals) /\ Len(s) = n BY <1>0 DEF Repeated
<1>2. PICK L \in SUBSET Units : Shape(h, L, D) BY DEF Good
<1>3. Given(h, n + 1, D, m) BY <1>2, MallocGives
<1>4. \A b \in D : Holds(h.unit, b, held[b]) BY DEF Good
<1>5. held \in [D -> Seq(Vals)] BY DEF Good
<1>6. \A b \in D : h.unit[b].size \in Nat BY <1>2, ShapeTypes
<1> HIDE DEF m, s, D
<1>7. PICK M \in SUBSET Units : Shape(m.heap, M, E) BY <1>3 DEF Given
<1>8. m.at \notin D /\ Kept(h.unit, m.heap.unit, D) /\ m.heap.unit[m.at].size = n + 1 BY <1>3 DEF Given
<1>9. new \in [E -> Seq(Vals)] /\ new[m.at] = s BY <1>1, <1>5
<1>10. ASSUME NEW b \in E \ {m.at} PROVE Holds(m.heap.unit, b, new[b])
  <2>1. b \in D /\ new[b] = held[b] OBVIOUS
  <2> QED BY <1>4, <1>6, <1>8, <2>1, HoldsKept
<1>11. Len(s) < m.heap.unit[m.at].size BY <1>1, <1>8
<1>12. \A i \in 1 .. Len(s) : i < 1 => m.heap.unit[m.at + i] = Blob(s[i])
  <2>1. \A i \in 1 .. Len(s) : ~(i < 1) BY <1>1
  <2> QED BY <2>1
<1>13. m.at \in E /\ 1 \in Nat \ {0} OBVIOUS
<1> HIDE DEF new, E
<1>14. Good(Fill(m.heap, m.at, 1, s), new) BY <1>1, <1>7, <1>9, <1>10, <1>11, <1>12, <1>13, FillGood
<1> QED BY <1>14 DEF new, E, m, s, D, Put

LEMMA FreeGood ==
  ASSUME NEW h, NEW held, Good(h, held), NEW b \in DOMAIN held
  PROVE  Good(MmFree(h, b), [c \in DOMAIN held \ {b} |-> held[c]])
<1> DEFINE f == MmFree(h, b)
           D == DOMAIN held
           new == [c \in D \ {b} |-> held[c]]
<1>1. PICK L \in SUBSET Units : Shape(h, L, D) BY DEF Good
<1>2. Shape(f, Freed(h, L, b), D \ {b}) /\ Freed(h, L, b) \subseteq L \cup {b} BY <1>1, FreedShape
<1>3. Kept(h.unit, f.unit, D \ {b}) BY <1>1, FreedKeeps
<1>4. D \subseteq Units /\ \A c \in D : h.unit[c].size \in Nat BY <1>1, ShapeTypes
<1>5. \A c \in D : Holds(h.unit, c, held[c]) BY DEF Good
<1>6. held \in [D -> Seq(Vals)] BY DEF Good
<1>7. b \in D OBVIOUS
<1> HIDE DEF f, D
<1>8. Freed(h, L, b) \in SUBSET Units BY <1>2, <1>4, <1>7
<1>9. ASSUME NEW c \in D \ {b} PROVE Holds(f.unit, c, new[c])
  <2>1. new[c] = held[c] OBVIOUS
  <2> QED BY <1>3, <1>4, <1>5, <2>1, HoldsKept
<1>10. new \in [D \ {b} -> Seq(Vals)] /\ DOMAIN new = D \ {b} BY <1>6
<1> HIDE DEF new
<1>11. Good(f, new) BY <1>2, <1>8, <1>9, <1>10 DEF Good
<1> QED BY <1>11 DEF f, new, D

\* mm_realloc, where the block has room: the client writes what is new.
Grown(s, n, v) == [i \in 1 .. n |-> IF i <= Len(s) THEN s[i] ELSE v]

LEMMA GrownIs ==
  ASSUME NEW s \in Seq(Vals), NEW n \in Nat, NEW v \in Vals
  PROVE  /\ Grown(s, n, v) \in Seq(Vals) /\ Len(Grown(s, n, v)) = n
         /\ \A i \in 1 .. n : i <= Len(s) => Grown(s, n, v)[i] = s[i]
<1>1. \A i \in 1 .. n : i <= Len(s) => s[i] \in Vals BY Len(s) \in Nat
<1>2. Grown(s, n, v) \in [1 .. n -> Vals] BY <1>1 DEF Grown
<1>3. Grown(s, n, v) \in Seq(Vals) /\ Len(Grown(s, n, v)) = n BY <1>2
<1> QED BY <1>3 DEF Grown

LEMMA StayGood ==
  ASSUME NEW h, NEW held, Good(h, held), NEW b \in DOMAIN held, NEW n \in Nat, NEW v \in Vals,
         h.unit[b].size >= n + 1
  PROVE  Good(Fill(h, b, Len(held[b]) + 1, Grown(held[b], n, v)),
              Put(held, DOMAIN held \ {b}, b, Grown(held[b], n, v)))
<1> DEFINE D == DOMAIN held
           old == held[b]
           s == Grown(old, n, v)
           new == [c \in D |-> IF c = b THEN s ELSE held[c]]
<1>1. PICK L \in SUBSET Units : Shape(h, L, D) BY DEF Good
<1>2. held \in [D -> Seq(Vals)] /\ \A c \in D : Holds(h.unit, c, held[c]) BY DEF Good
<1>3. b \in D /\ (D \ {b}) \cup {b} = D /\ old = held[b] OBVIOUS
<1> HIDE DEF D
<1>4. old \in Seq(Vals) /\ Len(old) \in Nat BY <1>2, <1>3
<1>5. /\ s \in Seq(Vals) /\ Len(s) = n
      /\ \A i \in 1 .. n : i <= Len(old) => s[i] = old[i]
  BY <1>4, GrownIs
<1> HIDE DEF s
<1>6. h.unit[b].size \in Nat BY <1>1, <1>3, ShapeTypes
<1>7. Len(s) < h.unit[b].size BY <1>5, <1>6
<1>8. ASSUME NEW i \in 1 .. Len(s), i < Len(old) + 1 PROVE h.unit[b + i] = Blob(s[i])
  <2>1. i \in 1 .. Len(old) /\ i \in 1 .. n /\ i <= Len(old) BY <1>4, <1>5, <1>8
  <2>2. h.unit[b + i] = Blob(old[i]) BY <1>2, <1>3, <2>1 DEF Holds
  <2> QED BY <1>5, <2>1, <2>2
<1>9. new \in [D -> Seq(Vals)] /\ new[b] = s BY <1>2, <1>3, <1>5
<1>10. \A c \in D \ {b} : Holds(h.unit, c, new[c]) BY <1>2
<1> HIDE DEF new, old
<1>11. Len(old) + 1 \in Nat \ {0} BY <1>4
<1>12. Good(Fill(h, b, Len(old) + 1, s), new)
  BY <1>1, <1>3, <1>5, <1>7, <1>8, <1>9, <1>10, <1>11, FillGood
<1>13. new = Put(held, D \ {b}, b, s) BY <1>3 DEF new, Put
<1> QED BY <1>12, <1>13 DEF old, s, D

LEMMA MinOfTwo ==
  ASSUME NEW m \in Nat, NEW n \in Nat
  PROVE  Min({m, n}) = IF m <= n THEN m ELSE n
<1> DEFINE M == IF m <= n THEN m ELSE n
<1>1. M \in {m, n} /\ \A x \in {m, n} : M <= x OBVIOUS
<1>2. \A y \in {m, n} : (\A x \in {m, n} : y <= x) => y = M OBVIOUS
<1> HIDE DEF M
<1>3. Min({m, n}) = M BY <1>1, <1>2 DEF Min
<1> QED BY <1>3 DEF M

\* memcpy stays inside the block it copies to, and copies as much as the client had
\* and asks for.
LEMMA CopyIs ==
  ASSUME NEW h, NEW L, NEW D, Shape(h, L, D), NEW b \in D, NEW to \in D, NEW n \in Nat,
         h.unit[to].size = n + 1
  PROVE  /\ Shape(Copy(h, b, to, n), L, D)
         /\ Kept(h.unit, Copy(h, b, to, n).unit, D \ {to})
         /\ Copy(h, b, to, n).unit[to].size = n + 1
         /\ \A i \in 1 .. n : i < h.unit[b].size => Copy(h, b, to, n).unit[to + i] = h.unit[b + i]
<1> DEFINE len == Min({h.unit[b].size - 1, n})
           w == [u \in Units |-> IF u \in to + 1 .. to + len THEN h.unit[u - to + b] ELSE h.unit[u]]
           g == [h EXCEPT !.unit = w]
           size == h.unit[b].size
<1>1. /\ NUnits \in Nat /\ b \in Nat /\ to \in Nat /\ size \in Nat \ {0}
      /\ h.unit \in [Units -> [ptr : Units \cup {Null}, size : Units]]
  <2>1. /\ NUnits \in Nat /\ D \subseteq 1 .. h.brk - 1 /\ \A c \in D : h.unit[c].size \in Nat \ {0}
        /\ h.unit \in [Units -> [ptr : Units \cup {Null}, size : Units]]
    BY ShapeTypes
  <2>2. b \in Nat /\ to \in Nat BY <2>1
  <2> QED BY <2>1, <2>2
<1>2. Copy(h, b, to, n) = g BY DEF Copy
<1>3. \A i \in 1 .. size - 1 : b + i \in Units BY Inside
<1>4. len = IF size - 1 <= n THEN size - 1 ELSE n
  <2>1. size - 1 \in Nat BY <1>1
  <2> HIDE DEF size
  <2> QED BY <2>1, MinOfTwo DEF size
<1> HIDE DEF len, size
<1>5. len \in Nat /\ len <= n /\ len <= size - 1 /\ \A i \in 1 .. n : i < size => i <= len
  BY <1>1, <1>4
<1>6. ASSUME NEW u \in to + 1 .. to + len
      PROVE  u - to \in 1 .. len /\ u - to + b = b + (u - to) /\ u = to + (u - to)
  BY <1>1, <1>5
<1>7. ASSUME NEW i \in 1 .. len PROVE i \in 1 .. n /\ i \in 1 .. size - 1
  BY <1>1, <1>5
<1>8. w \in [Units -> [ptr : Units \cup {Null}, size : Units]]
  <2> SUFFICES ASSUME NEW u \in Units PROVE w[u] \in [ptr : Units \cup {Null}, size : Units] OBVIOUS
  <2>1. CASE u \in to + 1 .. to + len
    <3>1. u - to + b \in Units BY <1>3, <1>6, <1>7, <2>1
    <3> QED BY <1>1, <2>1, <3>1
  <2>2. CASE u \notin to + 1 .. to + len BY <1>1, <2>2
  <2> QED BY <2>1, <2>2
<1>9. \A u \in Units : (\A i \in 1 .. h.unit[to].size - 1 : u # to + i) => w[u] = h.unit[u]
  <2> SUFFICES ASSUME NEW u \in Units, u \in to + 1 .. to + len
               PROVE  \E i \in 1 .. h.unit[to].size - 1 : u = to + i
    OBVIOUS
  <2>1. u - to \in 1 .. n /\ u = to + (u - to) BY <1>6, <1>7
  <2>2. h.unit[to].size - 1 = n OBVIOUS
  <2> QED BY <2>1, <2>2
<1>10. ASSUME NEW i \in 1 .. n, i < size PROVE w[to + i] = h.unit[b + i]
  <2>1. i \in 1 .. len BY <1>1, <1>5, <1>10
  <2>2. to + i \in to + 1 .. to + len /\ (to + i) - to + b = b + i BY <1>1, <1>5, <2>1
  <2>3. to + i \in Units
    <3>1. i \in 1 .. h.unit[to].size - 1 OBVIOUS
    <3> QED BY <3>1, Inside
  <2> QED BY <2>2, <2>3
<1> HIDE DEF w
<1>11. /\ Shape(g, L, D) /\ g.unit = w
       /\ Kept(h.unit, w, D \ {to}) /\ w[to] = h.unit[to]
  <2>1. WritesInside(h, to, w) BY <1>8, <1>9 DEF WritesInside
  <2>2. WithUnits(h, w) = g BY DEF WithUnits
  <2> HIDE DEF g
  <2>3. Wrote(h, L, D, to, w, WithUnits(h, w)) BY <2>1, WriteInside
  <2> QED BY <2>2, <2>3 DEF Wrote
<1> HIDE DEF g
<1> QED BY <1>2, <1>10, <1>11 DEF size

\* mm_realloc, where the block has no room: another is allocated, the contents are
\* copied, the old one is freed, and the client writes what is new.
LEMMA MoveGood ==
  ASSUME NEW h, NEW held, Good(h, held), NEW b \in DOMAIN held, NEW n \in 0 .. MaxRequest,
         NEW v \in Vals, MmMalloc(h, n).ok
  PROVE  LET m == MmMalloc(h, n) IN
         Good(Fill(MmFree(Copy(m.heap, b, m.at, n), b), m.at, Len(held[b]) + 1, Grown(held[b], n, v)),
              Put(held, DOMAIN held \ {b}, m.at, Grown(held[b], n, v)))
<1> DEFINE m == MmMalloc(h, n)
           D == DOMAIN held
           E == D \cup {m.at}
           B == (D \ {b}) \cup {m.at}
           old == held[b]
           s == Grown(old, n, v)
           g == Copy(m.heap, b, m.at, n)
           f == MmFree(g, b)
           new == [c \in B |-> IF c = m.at THEN s ELSE held[c]]
<1>0. n \in Nat BY HeapAssumption
<1>1. PICK L \in SUBSET Units : Shape(h, L, D) BY DEF Good
<1>2. Given(h, n + 1, D, m) BY <1>1, MallocGives
<1>3. held \in [D -> Seq(Vals)] /\ \A c \in D : Holds(h.unit, c, held[c]) BY DEF Good
<1>4. b \in D /\ old = held[b] OBVIOUS
<1>5. \A c \in D : h.unit[c].size \in Nat BY <1>1, ShapeTypes
<1> HIDE DEF m, D
<1>6. PICK M \in SUBSET Units : Shape(m.heap, M, E) BY <1>2 DEF Given
<1>7. m.at \notin D /\ Kept(h.unit, m.heap.unit, D) /\ m.heap.unit[m.at].size = n + 1 BY <1>2 DEF Given
<1>8. b \in E /\ m.at \in E /\ b # m.at BY <1>4, <1>7
<1>9. /\ Shape(g, M, E) /\ Kept(m.heap.unit, g.unit, E \ {m.at}) /\ g.unit[m.at].size = n + 1
      /\ \A i \in 1 .. n : i < m.heap.unit[b].size => g.unit[m.at + i] = m.heap.unit[b + i]
  BY <1>6, <1>7, <1>8, CopyIs
<1> HIDE DEF g, E
<1>10. Shape(f, Freed(g, M, b), E \ {b}) /\ Freed(g, M, b) \subseteq M \cup {b} BY <1>8, <1>9, FreedShape
<1>11. Kept(g.unit, f.unit, E \ {b}) BY <1>8, <1>9, FreedKeeps
<1> HIDE DEF f
<1>12. E \ {b} = B /\ E \ {m.at} = D BY <1>4, <1>7 DEF E
<1>13. Freed(g, M, b) \in SUBSET Units
  <2>1. E \subseteq Units BY <1>6, ShapeTypes
  <2> QED BY <1>8, <1>10, <2>1
<1>14. Shape(f, Freed(g, M, b), B) BY <1>10, <1>12
<1>15. old \in Seq(Vals) /\ Len(old) \in Nat BY <1>3, <1>4
<1>16. /\ s \in Seq(Vals) /\ Len(s) = n
       /\ \A i \in 1 .. n : i <= Len(old) => s[i] = old[i]
  BY <1>15, GrownIs
<1> HIDE DEF s
<1>17. m.at \in B /\ m.at \in E \ {b} BY <1>8
<1>18. f.unit[m.at].size = n + 1 BY <1>9, <1>11, <1>17 DEF Kept
<1>19. Len(s) < f.unit[m.at].size BY <1>16, <1>18
<1>20. ASSUME NEW i \in 1 .. Len(s), i < Len(old) + 1 PROVE f.unit[m.at + i] = Blob(s[i])
  <2>1. i \in 1 .. Len(old) /\ i \in 1 .. n /\ i <= Len(old) BY <1>15, <1>16, <1>20
  <2>2. h.unit[b + i] = Blob(old[i]) /\ Len(old) < h.unit[b].size BY <1>3, <1>4, <2>1 DEF Holds
  <2>3. i < h.unit[b].size /\ i \in 1 .. h.unit[b].size - 1 BY <1>4, <1>5, <1>15, <2>1, <2>2
  <2>4. m.heap.unit[b].size = h.unit[b].size /\ m.heap.unit[b + i] = h.unit[b + i]
    BY <1>4, <1>7, <2>3 DEF Kept
  <2>5. g.unit[m.at + i] = m.heap.unit[b + i] BY <1>9, <2>1, <2>3, <2>4
  <2>6. i \in 1 .. g.unit[m.at].size - 1 BY <1>9, <2>1
  <2>7. f.unit[m.at + i] = g.unit[m.at + i] BY <1>11, <1>17, <2>6 DEF Kept
  <2> QED BY <1>16, <2>1, <2>2, <2>4, <2>5, <2>7
<1>21. new \in [B -> Seq(Vals)] /\ new[m.at] = s
  <2>1. ASSUME NEW c \in B PROVE new[c] \in Seq(Vals)
    <3>1. CASE c = m.at BY <1>16, <3>1
    <3>2. CASE c # m.at BY <1>3, <3>2
    <3> QED BY <3>1, <3>2
  <2> QED BY <1>17, <2>1
<1>22. ASSUME NEW c \in B \ {m.at} PROVE Holds(f.unit, c, new[c])
  <2>1. c \in D /\ c \in E \ {m.at} /\ c \in E \ {b} /\ new[c] = held[c] BY <1>12
  <2>2. Holds(m.heap.unit, c, held[c]) BY <1>3, <1>5, <1>7, <2>1, HoldsKept
  <2>3. m.heap.unit[c].size = h.unit[c].size BY <1>7, <2>1 DEF Kept
  <2>4. Holds(g.unit, c, held[c]) BY <1>5, <1>9, <2>1, <2>2, <2>3, HoldsKept
  <2>5. g.unit[c].size = h.unit[c].size BY <1>9, <2>1, <2>3 DEF Kept
  <2>6. Holds(f.unit, c, held[c]) BY <1>5, <1>11, <2>1, <2>4, <2>5, HoldsKept
  <2> QED BY <2>1, <2>6
<1> HIDE DEF new, old, B
<1>23. Len(old) + 1 \in Nat \ {0} BY <1>15
<1>24. Good(Fill(f, m.at, Len(old) + 1, s), new)
  <2>1. s \in Seq(Vals) /\ m.at \in B BY <1>16, <1>17
  <2>2. \A i \in 1 .. Len(s) : i < Len(old) + 1 => f.unit[m.at + i] = Blob(s[i]) BY <1>20
  <2>3. \A c \in B \ {m.at} : Holds(f.unit, c, new[c]) BY <1>22
  <2> QED BY <1>13, <1>14, <1>19, <1>21, <1>23, <2>1, <2>2, <2>3, FillGood
<1>25. new = Put(held, D \ {b}, m.at, s) BY DEF new, B, Put
<1> QED BY <1>24, <1>25 DEF old, s, f, g, m, D

-----------------------------------------------------------------------------
(* Every step keeps the invariant. *)

LEMMA EmptiedGood ==
  ASSUME NEW units \in [Units -> [ptr : Units \cup {Null}, size : Units]]
  PROVE  Good(Emptied(units), NoneHeld)
<1> DEFINE w == [units EXCEPT ![Base] = [ptr |-> Base, size |-> 0]]
           h == Emptied(units)
<1>1. NUnits \in Nat /\ Base \in Units /\ 0 \in Units /\ Base = 0 BY HeapAssumption DEF Units, Base
<1>2. h = [unit |-> w, freep |-> Base, brk |-> 1] BY DEF Emptied
<1>3. w \in [Units -> [ptr : Units \cup {Null}, size : Units]] /\ w[Base] = [ptr |-> Base, size |-> 0]
  BY <1>1
<1> HIDE DEF w, h
<1>4. h.unit = w /\ h.freep = Base /\ h.brk = 1 BY <1>2
<1>5. h \in HeapType
  <2>1. 1 \in 0 .. NUnits + 1 BY <1>1
  <2> QED BY <1>1, <1>2, <1>3, <2>1 DEF HeapType
<1>6. Tiled(w, 1, {}) /\ Joined(w, {}) BY DEF Tiled, Joined
<1>7. Sorted(w, {}) BY <1>3 DEF Sorted, NextIs
<1>8. w[Base].size = 0 BY <1>3
<1>9. {} \cup {} = {} /\ {} \cap {} = {} /\ Base \in {} \cup {Base} /\ {} \in SUBSET Units OBVIOUS
<1>10. Shape(h, {}, {}) BY <1>4, <1>5, <1>6, <1>7, <1>8, <1>9 DEF Shape
<1>11. DOMAIN NoneHeld = {} /\ NoneHeld \in [{} -> Seq(Vals)] BY DEF NoneHeld
<1> QED BY <1>9, <1>10, <1>11 DEF Good, h

LEMMA ZerosType == Zeros \in [Units -> [ptr : Units \cup {Null}, size : Units]]
<1>1. 0 \in Units BY HeapAssumption DEF Units
<1> QED BY <1>1 DEF Zeros, Blob

LEMMA GoodOpen ==
  ASSUME NEW h, NEW held, Good(h, held)
  PROVE  h.brk # 0 /\ h \in HeapType
BY DEF Good, Shape

LEMMA InitInv == Init => IInv
<1> SUFFICES ASSUME Init PROVE IInv OBVIOUS
<1>1. heap = Emptied(Zeros) /\ live = NoneHeld BY DEF Init, NoneHeld
<1>2. Good(heap, live) BY <1>1, ZerosType, EmptiedGood
<1> QED BY <1>2, GoodOpen DEF IInv

\* The heap is good, and the client has s at an address besides the blocks D.
PutStep(D, s) == /\ Good(heap', live')
                 /\ \E at : at \notin D /\ live' = Put(live, D, at, s)

LEMMA MallocStep ==
  ASSUME Good(heap, live), NEW n \in 0 .. MaxRequest, NEW v \in Vals, Malloc(n, v)
  PROVE  (heap' = heap /\ live' = live) \/ PutStep(DOMAIN live, Repeated(n, v))
<1>1. n \in Nat BY HeapAssumption
<1>2. CASE MmMalloc(heap, n).ok
  <2> DEFINE m == MmMalloc(heap, n)
             s == Repeated(n, v)
  <2>1. heap' = Fill(m.heap, m.at, 1, s) /\ live' = Put(live, DOMAIN live, m.at, s)
    BY <1>2 DEF Malloc, Put, Repeated
  <2>2. Good(Fill(m.heap, m.at, 1, s), Put(live, DOMAIN live, m.at, s))
    BY <1>1, <1>2, MallocGood
  <2>3. PICK L \in SUBSET Units : Shape(heap, L, DOMAIN live) BY DEF Good
  <2>4. Given(heap, n + 1, DOMAIN live, m) BY <1>1, <1>2, <2>3, MallocGives
  <2> HIDE DEF m, s
  <2>5. m.at \notin DOMAIN live BY <2>4 DEF Given
  <2>6. Good(heap', live') BY <2>1, <2>2
  <2> QED BY <2>1, <2>5, <2>6 DEF PutStep, s
<1>3. CASE ~ MmMalloc(heap, n).ok
  BY <1>3 DEF Malloc, vars
<1> QED BY <1>2, <1>3

LEMMA FreeStep ==
  ASSUME Good(heap, live), NEW b \in DOMAIN live, Free(b)
  PROVE  Good(heap', live') /\ live' = [c \in DOMAIN live \ {b} |-> live[c]]
BY FreeGood DEF Free

LEMMA ReallocStep ==
  ASSUME Good(heap, live), NEW n \in 0 .. MaxRequest, NEW v \in Vals, NEW b \in DOMAIN live,
         Realloc(b, n, v)
  PROVE  (heap' = heap /\ live' = live) \/ PutStep(DOMAIN live \ {b}, Grown(live[b], n, v))
<1>1. n \in Nat BY HeapAssumption
<1> DEFINE m == MmMalloc(heap, n)
           fits == n > 0 /\ heap.unit[b].size >= mm_units(n)
           s == Grown(live[b], n, v)
<1>2. CASE fits
  <2>1. /\ heap' = Fill(heap, b, Len(live[b]) + 1, s)
        /\ live' = Put(live, DOMAIN live \ {b}, b, s)
    BY <1>2 DEF Realloc, Grown, Put
  <2>2. heap.unit[b].size >= n + 1 BY <1>2 DEF mm_units
  <2>3. Good(Fill(heap, b, Len(live[b]) + 1, s), Put(live, DOMAIN live \ {b}, b, s))
    BY <1>1, <2>2, StayGood
  <2>4. b \notin DOMAIN live \ {b} OBVIOUS
  <2> HIDE DEF s
  <2>5. Good(heap', live') BY <2>1, <2>3
  <2> QED BY <2>1, <2>4, <2>5 DEF PutStep, s
<1>3. CASE ~ fits /\ m.ok
  <2> DEFINE g == Fill(MmFree(Copy(m.heap, b, m.at, n), b), m.at, Len(live[b]) + 1, s)
             held == Put(live, DOMAIN live \ {b}, m.at, s)
  <2>1. heap' = g /\ live' = held BY <1>3 DEF Realloc, Grown, Put
  <2>2. Good(g, held) BY <1>1, <1>3, MoveGood
  <2>3. PICK L \in SUBSET Units : Shape(heap, L, DOMAIN live) BY DEF Good
  <2>4. Given(heap, n + 1, DOMAIN live, m) BY <1>1, <1>3, <2>3, MallocGives
  <2> HIDE DEF g, held, m, s
  <2>5. m.at \notin DOMAIN live \ {b} BY <2>4 DEF Given
  <2>6. Good(heap', live') BY <2>1, <2>2
  <2> QED BY <2>1, <2>5, <2>6 DEF PutStep, s, held
<1>4. CASE ~ fits /\ ~ m.ok
  BY <1>4 DEF Realloc, vars
<1> QED BY <1>2, <1>3, <1>4

LEMMA NextInv == IInv /\ [Next]_vars => IInv'
<1> SUFFICES ASSUME IInv, [Next]_vars PROVE IInv' OBVIOUS
<1>1. heap \in HeapType
  <2>1. CASE heap.brk = 0 BY <2>1 DEF IInv, Closed
  <2>2. CASE heap.brk # 0 BY <2>2, GoodOpen DEF IInv
  <2> QED BY <2>1, <2>2
<1>2. heap.unit \in [Units -> [ptr : Units \cup {Null}, size : Units]] BY <1>1, UnitType
<1>3. CASE heap.brk = 0 /\ mm_init
  <2>1. PICK units \in {heap.unit, Zeros} : heap' = Emptied(units) /\ live' = live BY <1>3 DEF mm_init
  <2>2. units \in [Units -> [ptr : Units \cup {Null}, size : Units]] BY <1>2, <2>1, ZerosType
  <2>3. live' = NoneHeld BY <1>3, <2>1 DEF IInv, Closed
  <2>4. Good(heap', live') BY <2>1, <2>2, <2>3, EmptiedGood
  <2> QED BY <2>4, GoodOpen DEF IInv
<1>4. CASE heap.brk # 0 /\ \E n \in 0 .. MaxRequest, v \in Vals : Malloc(n, v)
  <2>1. Good(heap, live) BY <1>4 DEF IInv
  <2>2. (heap' = heap /\ live' = live) \/ Good(heap', live') BY <1>4, <2>1, MallocStep DEF PutStep
  <2> QED BY <2>1, <2>2, GoodOpen DEF IInv
<1>5. CASE heap.brk # 0 /\ \E n \in 0 .. MaxRequest, v \in Vals : \E b \in DOMAIN live : Realloc(b, n, v)
  <2>1. Good(heap, live) BY <1>5 DEF IInv
  <2>2. (heap' = heap /\ live' = live) \/ Good(heap', live') BY <1>5, <2>1, ReallocStep DEF PutStep
  <2> QED BY <2>1, <2>2, GoodOpen DEF IInv
<1>6. CASE heap.brk # 0 /\ \E b \in DOMAIN live : Free(b)
  <2>1. Good(heap, live) BY <1>6 DEF IInv
  <2>2. Good(heap', live') BY <1>6, <2>1, FreeStep
  <2> QED BY <2>2, GoodOpen DEF IInv
<1>7. CASE mm_reset
  <2>1. heap' = Emptied(heap.unit) /\ live' = NoneHeld BY <1>7 DEF mm_reset, NoBlocks, NoneHeld
  <2>2. Good(heap', live') BY <1>2, <2>1, EmptiedGood
  <2> QED BY <2>2, GoodOpen DEF IInv
<1>8. CASE mm_deinit
  <2> DEFINE w == [heap.unit EXCEPT ![Base] = [ptr |-> Base, size |-> 0]]
  <2>1. heap' = [unit |-> w, freep |-> Base, brk |-> 0] /\ live' = NoneHeld
    BY <1>8 DEF mm_deinit, NoBlocks, NoneHeld, Emptied
  <2>2. NUnits \in Nat /\ Base \in Units /\ 0 \in Units BY HeapAssumption DEF Units, Base
  <2>3. w \in [Units -> [ptr : Units \cup {Null}, size : Units]] /\ w[Base] = [ptr |-> Base, size |-> 0]
    BY <1>2, <2>2
  <2> HIDE DEF w
  <2>4. 0 \in 0 .. NUnits + 1 BY <2>2
  <2>5. heap' \in HeapType BY <2>1, <2>2, <2>3, <2>4 DEF HeapType
  <2>6. heap'.freep = Base /\ heap'.brk = 0 /\ heap'.unit[Base].ptr = Base BY <2>1, <2>3
  <2> QED BY <2>1, <2>5, <2>6 DEF IInv, Closed
<1>9. CASE UNCHANGED vars
  <2>1. heap' = heap /\ live' = live BY <1>9 DEF vars
  <2> QED BY <2>1 DEF IInv, Closed
<1> QED BY <1>3, <1>4, <1>5, <1>6, <1>7, <1>8, <1>9 DEF Next

-----------------------------------------------------------------------------
(* What the invariant says of the heap. *)

\* The blocks are those on the list and those in use.
LEMMA BlocksAre ==
  ASSUME NEW L \in SUBSET Units, NEW D, D = DOMAIN live, Shape(heap, L, D)
  PROVE  /\ Starts = (L \cup D) \cup {heap.brk} /\ Blocks = L \cup D
         /\ FreeBlocks = L /\ OnList = L \cup {Base}
<1> DEFINE e == Nth(heap)
<1>1. /\ heap.brk \in 1 .. NUnits + 1 /\ NUnits \in Nat /\ Base \notin L
      /\ L \subseteq 1 .. heap.brk - 1 /\ D \subseteq 1 .. heap.brk - 1
      /\ \A b \in L \cup D : heap.unit[b].size \in Nat
  BY ShapeTypes
<1>2. /\ Tiled(heap.unit, heap.brk, L \cup D) /\ L \cap D = {}
      /\ heap.freep \in L \cup {Base} /\ Sorted(heap.unit, L)
  BY DEF Shape
<1>3. Starts = (L \cup D) \cup {heap.brk} BY <1>1, <1>2, StartsCovered
<1>4. Blocks = L \cup D
  <2>1. \A b \in L \cup D : b < heap.brk BY <1>1
  <2>2. ~ (heap.brk < heap.brk) BY <1>1
  <2> QED BY <1>3, <2>1, <2>2 DEF Blocks
<1>5. FreeBlocks = L BY <1>2, <1>4 DEF FreeBlocks
<1>6. /\ e \in [0 .. NUnits + 1 -> L \cup {Base}]
      /\ \A p \in L \cup {Base} : \E k \in 0 .. NUnits : e[k] = p
  BY <1>1, <1>2, ListCovered
<1>7. OnList = {e[k] : k \in 0 .. NUnits} BY DEF OnList
<1> HIDE DEF e
<1>8. \A k \in 0 .. NUnits : e[k] \in L \cup {Base}
  <2>1. \A k \in 0 .. NUnits : k \in 0 .. NUnits + 1 BY <1>1
  <2> QED BY <1>6, <2>1
<1>9. OnList = L \cup {Base} BY <1>6, <1>7, <1>8
<1> QED BY <1>3, <1>4, <1>5, <1>9

LEMMA StartsIs ==
  ASSUME NEW f, f = [k \in 0 .. NUnits |->
                       IF k = 0 THEN 1
                       ELSE LET b == f[k - 1] IN IF b < heap.brk THEN b + heap.unit[b].size ELSE b]
  PROVE  \E e : /\ e = [k \in 0 .. NUnits |->
                          IF k = 0 THEN 1
                          ELSE LET b == e[k - 1] IN IF b < heap.brk THEN b + heap.unit[b].size ELSE b]
                /\ Starts = {e[k] : k \in 0 .. NUnits}
BY DEF Starts

\* Without an area there are no blocks, and the list is base.
LEMMA NoneWhenClosed ==
  ASSUME heap.brk = 0, Closed
  PROVE  Blocks = {} /\ OnList = {Base}
<1>1. NUnits \in Nat BY HeapAssumption
<1> DEFINE Is(f) == f = [k \in 0 .. NUnits |->
                           IF k = 0 THEN 1
                           ELSE LET b == f[k - 1] IN IF b < heap.brk THEN b + heap.unit[b].size ELSE b]
<1>2. Is([k \in 0 .. NUnits |-> 1])
  <2> DEFINE f == [k \in 0 .. NUnits |-> 1]
  <2>1. \A k \in 0 .. NUnits : k # 0 => k - 1 \in 0 .. NUnits BY <1>1
  <2>2. ~ (1 < heap.brk) OBVIOUS
  <2>3. \A k \in 0 .. NUnits : k # 0 => f[k - 1] = 1 BY <2>1
  <2> QED BY <2>2, <2>3
<1>3. PICK e : Is(e) /\ Starts = {e[k] : k \in 0 .. NUnits}
  <2>1. PICK f : Is(f) BY <1>2
  <2> QED BY <2>1, StartsIs
<1>4. /\ e[0] = 1
      /\ \A k \in 1 .. NUnits :
           e[k] = IF e[k - 1] < heap.brk THEN e[k - 1] + heap.unit[e[k - 1]].size ELSE e[k - 1]
  <2>1. 0 \in 0 .. NUnits /\ \A k \in 1 .. NUnits : k # 0 /\ k \in 0 .. NUnits BY <1>1
  <2> QED BY <1>3, <2>1
<1> HIDE DEF Is
<1>5. \A k \in 0 .. NUnits : e[k] = 1
  <2> DEFINE Out == {k \in Nat : k <= NUnits /\ e[k] # 1}
  <2>1. ASSUME Out # {} PROVE FALSE
    <3>1. PICK k \in Out : \A l \in Out : k <= l
      <4>1. Out \subseteq Nat OBVIOUS
      <4> HIDE DEF Out
      <4> QED BY <2>1, <4>1, LeastOf
    <3>2. k # 0 BY <1>4, <3>1
    <3>3. k \in 1 .. NUnits /\ k - 1 \in Nat /\ k - 1 <= NUnits BY <1>1, <3>1, <3>2
    <3>4. k - 1 \notin Out
      <4> HIDE DEF Out
      <4> QED BY <3>1, <3>3
    <3>5. e[k - 1] = 1 BY <3>3, <3>4
    <3>6. e[k] = 1 BY <1>4, <3>3, <3>5
    <3> QED BY <3>1, <3>6
  <2> QED BY <1>1, <2>1
<1>6. Blocks = {}
  <2>1. Starts \subseteq {1} BY <1>3, <1>5
  <2>2. ~ (1 < heap.brk) OBVIOUS
  <2> QED BY <2>1, <2>2 DEF Blocks
<1>7. OnList = {Base}
  <2> DEFINE n == Nth(heap)
  <2>1. heap.freep \in {Base} /\ \A p \in {Base} : heap.unit[p].ptr \in {Base} BY DEF Closed
  <2>2. n \in [0 .. NUnits + 1 -> {Base}] BY <2>1, NthIs
  <2>3. OnList = {n[k] : k \in 0 .. NUnits} BY DEF OnList
  <2> HIDE DEF n
  <2>4. \A k \in 0 .. NUnits : n[k] = Base
    <3>1. \A k \in 0 .. NUnits : k \in 0 .. NUnits + 1 BY <1>1
    <3> QED BY <2>2, <3>1
  <2>5. 0 \in 0 .. NUnits BY <1>1
  <2> QED BY <2>3, <2>4, <2>5
<1> QED BY <1>6, <1>7

LEMMA InvSizesTile == IInv => SizesTile
<1> SUFFICES ASSUME IInv PROVE SizesTile OBVIOUS
<1>1. CASE heap.brk = 0
  <2>1. Closed BY <1>1 DEF IInv
  <2>2. heap \in HeapType /\ DOMAIN live = {} BY <2>1 DEF Closed, NoneHeld
  <2>3. TypeOK BY <2>2, UnitType DEF TypeOK
  <2> QED BY <1>1, <2>2, <2>3 DEF SizesTile
<1>2. CASE heap.brk # 0
  <2>1. Good(heap, live) BY <1>2 DEF IInv
  <2> DEFINE D == DOMAIN live
  <2>2. PICK L \in SUBSET Units : Shape(heap, L, D) BY <2>1 DEF Good
  <2>3. Starts = (L \cup D) \cup {heap.brk} /\ Blocks = L \cup D BY <2>2, BlocksAre
  <2>4. /\ D \subseteq Units /\ D \subseteq 1 .. heap.brk - 1 /\ heap.brk \in 1 .. NUnits + 1
        /\ \A b \in L \cup D : heap.unit[b].size \in Nat \ {0} /\ b + heap.unit[b].size <= heap.brk
    BY <2>2, ShapeTypes
  <2>5. TypeOK BY <2>1, <2>4, GoodOpen, UnitType DEF TypeOK
  <2>6. ASSUME NEW b \in D PROVE heap.unit[b].size > Len(live[b]) /\ Valid(heap, b)
    <3>1. Holds(heap.unit, b, live[b]) BY <2>1 DEF Good
    <3>2. Len(live[b]) < heap.unit[b].size /\ Len(live[b]) \in Nat BY <3>1 DEF Holds
    <3>3. /\ heap.unit[b].size \in Nat \ {0} /\ b \in 1 .. heap.brk - 1
          /\ b + heap.unit[b].size <= heap.brk /\ heap.brk \in Nat
      BY <2>4
    <3>4. heap.unit[b].size > 0 /\ heap.unit[b].size <= heap.brk - 1 BY <3>3
    <3> QED BY <3>2, <3>3, <3>4 DEF Valid
  <2> QED BY <2>3, <2>5, <2>6 DEF SizesTile
<1> QED BY <1>1, <1>2

LEMMA InvListSorted == IInv => ListSorted
<1> SUFFICES ASSUME IInv PROVE ListSorted OBVIOUS
<1>1. CASE heap.brk = 0
  <2>1. Closed BY <1>1 DEF IInv
  <2>2. Blocks = {} /\ OnList = {Base} BY <1>1, <2>1, NoneWhenClosed
  <2>3. FreeBlocks = {} BY <2>2 DEF FreeBlocks
  <2>4. DOMAIN live = {} /\ heap.unit[Base].ptr = Base BY <2>1 DEF Closed, NoneHeld
  <2> QED BY <2>2, <2>3, <2>4 DEF ListSorted, Succ
<1>2. CASE heap.brk # 0
  <2>1. Good(heap, live) BY <1>2 DEF IInv
  <2> DEFINE D == DOMAIN live
  <2>2. PICK L \in SUBSET Units : Shape(heap, L, D) BY <2>1 DEF Good
  <2>3. FreeBlocks = L /\ OnList = L \cup {Base} BY <2>2, BlocksAre
  <2>4. \A p \in L \cup {Base} : NextIs(L, p, heap.unit[p].ptr) BY <2>2 DEF Shape, Sorted
  <2>5. \A b \in OnList : Succ(b) = Base \/ Succ(b) > b BY <2>3, <2>4 DEF NextIs, Succ
  <2>6. ASSUME NEW b \in D PROVE \E p \in OnList : Between(heap, p, b)
    <3>1. Base = 0 /\ L \subseteq 1 .. heap.brk - 1 /\ D \subseteq 1 .. heap.brk - 1 BY <2>2, ShapeTypes
    <3>2. b \in Nat /\ b # 0 /\ L \subseteq Nat \ {0} BY <3>1
    <3>3. L \cap D = {} BY <2>2 DEF Shape
    <3>4. PICK p \in L \cup {Base} : p < b /\ \A c \in L : c < b => c <= p BY <3>2, Below
    <3> DEFINE q == heap.unit[p].ptr
    <3>5. NextIs(L, p, q) BY <2>4
    <3>6. Between(heap, p, b) <=> (b > p /\ b < q) \/ (p >= q /\ (b > p \/ b < q)) BY DEF Between
    <3> HIDE DEF q
    <3>7. q \in L \cup {0} /\ (q = 0 \/ q > p) BY <3>1, <3>5 DEF NextIs
    <3>8. p \in Nat /\ q \in Nat /\ b \notin L BY <3>1, <3>2, <3>3, <3>7
    <3>9. CASE q = 0
      <4>1. p >= q /\ b > p BY <3>2, <3>4, <3>8, <3>9
      <4> QED BY <2>3, <3>4, <3>6, <4>1
    <3>10. CASE q # 0
      <4>1. q \in L /\ q > p BY <3>7, <3>10
      <4>2. b < q BY <3>2, <3>4, <3>8, <4>1
      <4>3. b > p BY <3>2, <3>4, <3>8
      <4> QED BY <2>3, <3>4, <3>6, <4>2, <4>3
    <3> QED BY <3>9, <3>10
  <2> QED BY <2>3, <2>5, <2>6 DEF ListSorted
<1> QED BY <1>1, <1>2

LEMMA InvCoalesced == IInv => Coalesced
<1> SUFFICES ASSUME IInv PROVE Coalesced OBVIOUS
<1>1. CASE heap.brk = 0
  <2>1. FreeBlocks = {} BY <1>1, NoneWhenClosed DEF IInv, FreeBlocks
  <2> QED BY <2>1 DEF Coalesced
<1>2. CASE heap.brk # 0
  <2>1. PICK L \in SUBSET Units : Shape(heap, L, DOMAIN live) BY <1>2 DEF IInv, Good
  <2>2. FreeBlocks = L BY <2>1, BlocksAre
  <2>3. \A a, b \in L : a + heap.unit[a].size # b BY <2>1 DEF Shape, Joined
  <2> QED BY <2>2, <2>3 DEF Coalesced
<1> QED BY <1>1, <1>2

\* The inductive invariant: the blocks on the list and those in use tile the area up to
\* the break, the list leads from each free block to the next above it, no free block
\* ends where another begins, and what the client wrote is still there; a heap that
\* mm_deinit has closed is a header that leads to itself.
THEOREM Invariance == Spec => []IInv
<1> QED BY InitInv, NextInv, PTL DEF Spec

\* The blocks tile the area, whatever the client calls: the sizes in the headers lead
\* from block to block to the break, and the assertion of mm_free holds of every block
\* the client has (mm_malloc, mm_free and mm_realloc of mm_kr_heap.c).
THEOREM BlocksTileTheArea == Spec => []SizesTile
<1> QED BY Invariance, InvSizesTile, PTL

\* The list is base and exactly the free blocks, in the order of their addresses, and
\* the loop of mm_free that looks for the place of a block ends.
THEOREM ListIsSorted == Spec => []ListSorted
<1> QED BY Invariance, InvListSorted, PTL

\* No two free blocks are neighbours: mm_free joins them on either side.
THEOREM NeighboursAreJoined == Spec => []Coalesced
<1> QED BY Invariance, InvCoalesced, PTL

-----------------------------------------------------------------------------
(* The free list implements the abstract heap. *)

\* The client's view, as the abstract heap shows it.
Blobs(s) == [i \in 1 .. Len(s) |-> Blob(s[i])]
At(D) == {b + 1 : b \in D}
Shown(held) == [p \in At(DOMAIN held) |-> Blobs(held[p - 1])]

LEMMA GoodHeld ==
  ASSUME NEW h, NEW held, Good(h, held)
  PROVE  /\ DOMAIN held \subseteq Nat /\ held \in [DOMAIN held -> Seq(Vals)]
         /\ \A b \in DOMAIN held : Len(held[b]) \in Nat
<1>1. PICK L \in SUBSET Units : Shape(h, L, DOMAIN held) BY DEF Good
<1>2. DOMAIN held \subseteq 1 .. h.brk - 1 BY <1>1, ShapeTypes
<1>3. held \in [DOMAIN held -> Seq(Vals)] BY DEF Good
<1>4. DOMAIN held \subseteq Nat BY <1>2
<1>5. \A b \in DOMAIN held : held[b] \in Seq(Vals) BY <1>3
<1>6. \A b \in DOMAIN held : Len(held[b]) \in Nat BY <1>5
<1> QED BY <1>3, <1>4, <1>6

LEMMA ShownIs ==
  ASSUME NEW held, DOMAIN held \subseteq Nat
  PROVE  /\ DOMAIN Shown(held) = At(DOMAIN held)
         /\ \A b \in DOMAIN held : Shown(held)[b + 1] = Blobs(held[b])
<1>1. \A b \in DOMAIN held : b + 1 \in At(DOMAIN held) /\ (b + 1) - 1 = b BY DEF At
<1> QED BY <1>1 DEF Shown

LEMMA BlobsLen ==
  ASSUME NEW s, Len(s) \in Nat
  PROVE  Len(Blobs(s)) = Len(s) /\ DOMAIN Blobs(s) = 1 .. Len(s)
BY DEF Blobs

\* What the client has written shows where it is.
LEMMA PayloadIs == IInv => Payload = Shown(live)
<1> SUFFICES ASSUME IInv PROVE Payload = Shown(live) OBVIOUS
<1>1. /\ DOMAIN live \subseteq Nat
      /\ \A b \in DOMAIN live : Len(live[b]) \in Nat
      /\ \A b \in DOMAIN live : \A i \in 1 .. Len(live[b]) : heap.unit[b + i] = Blob(live[b][i])
  <2>1. CASE heap.brk = 0
    <3>1. DOMAIN live = {} BY <2>1 DEF IInv, Closed, NoneHeld
    <3> QED BY <3>1
  <2>2. CASE heap.brk # 0
    <3>1. Good(heap, live) BY <2>2 DEF IInv
    <3>2. \A b \in DOMAIN live : Holds(heap.unit, b, live[b]) BY <3>1 DEF Good
    <3> QED BY <3>1, <3>2, GoodHeld DEF Holds
  <2> QED BY <2>1, <2>2
<1>2. ASSUME NEW p \in At(DOMAIN live)
      PROVE  [i \in 1 .. Len(live[p - 1]) |-> heap.unit[p + i - 1]] = Blobs(live[p - 1])
  <2>1. PICK b \in DOMAIN live : p = b + 1 BY DEF At
  <2>2. p - 1 = b /\ b \in Nat /\ Len(live[b]) \in Nat BY <1>1, <2>1
  <2>3. \A i \in 1 .. Len(live[b]) : p + i - 1 = b + i BY <2>1, <2>2
  <2>4. \A i \in 1 .. Len(live[b]) : heap.unit[p + i - 1] = Blob(live[b][i]) BY <1>1, <2>3
  <2> QED BY <2>2, <2>4 DEF Blobs
<1>3. Payload = [p \in At(DOMAIN live) |-> [i \in 1 .. Len(live[p - 1]) |-> heap.unit[p + i - 1]]]
  BY DEF Payload, At
<1> QED BY <1>2, <1>3 DEF Shown

\* Two blocks in use have no unit in common, and their units are in the area.
LEMMA GoodApart ==
  ASSUME NEW h, NEW held, Good(h, held), NEW b \in DOMAIN held
  PROVE  /\ Promise!Span(b + 1, Len(held[b])) \subseteq Units
         /\ \A c \in DOMAIN held \ {b} :
              Promise!Span(b + 1, Len(held[b])) \cap Promise!Span(c + 1, Len(held[c])) = {}
<1> DEFINE D == DOMAIN held
           size(c) == h.unit[c].size
<1>1. PICK L \in SUBSET Units : Shape(h, L, D) BY DEF Good
<1>2. D \subseteq Nat /\ \A c \in D : Len(held[c]) \in Nat BY GoodHeld
<1>3. ASSUME NEW c \in D PROVE Len(held[c]) < size(c) /\ size(c) \in Nat
  <2>1. Holds(h.unit, c, held[c]) BY DEF Good
  <2>2. size(c) \in Nat BY <1>1, ShapeTypes
  <2> QED BY <2>1, <2>2 DEF Holds
<1>4. ASSUME NEW c \in D
      PROVE  Promise!Span(c + 1, Len(held[c])) = c + 1 .. c + Len(held[c])
  <2>1. c + 1 + Len(held[c]) - 1 = c + Len(held[c]) BY <1>2
  <2> QED BY <2>1 DEF Promise!Span
<1>5. Promise!Span(b + 1, Len(held[b])) \subseteq Units
  <2> SUFFICES ASSUME NEW u \in b + 1 .. b + Len(held[b]) PROVE u \in Units BY <1>4
  <2>1. b \in D /\ b \in Nat /\ Len(held[b]) \in Nat BY <1>2
  <2>2. Len(held[b]) < size(b) /\ size(b) \in Nat BY <1>3
  <2> HIDE DEF size
  <2>3. u - b \in 1 .. size(b) - 1 /\ u = b + (u - b) BY <2>1, <2>2
  <2>4. b + (u - b) \in Units BY <1>1, <2>1, <2>3, Inside DEF size
  <2> QED BY <2>3, <2>4
<1>6. ASSUME NEW c \in D \ {b}
      PROVE  Promise!Span(b + 1, Len(held[b])) \cap Promise!Span(c + 1, Len(held[c])) = {}
  <2>1. \A x, y \in L \cup D : x < y => x + size(x) <= y BY <1>1 DEF Shape, Tiled
  <2>2. /\ c \in D /\ b \in D /\ c # b /\ b \in Nat /\ c \in Nat
        /\ Len(held[b]) \in Nat /\ Len(held[c]) \in Nat
    BY <1>2
  <2>3. /\ Len(held[b]) < size(b) /\ size(b) \in Nat
        /\ Len(held[c]) < size(c) /\ size(c) \in Nat
    BY <1>3, <2>2
  <2>4. b < c => b + size(b) <= c BY <2>1, <2>2
  <2>5. c < b => c + size(c) <= b BY <2>1, <2>2
  <2> HIDE DEF size, D
  <2>6. (b + 1 .. b + Len(held[b])) \cap (c + 1 .. c + Len(held[c])) = {}
    BY <2>2, <2>3, <2>4, <2>5
  <2> QED BY <1>4, <2>2, <2>6
<1> QED BY <1>5, <1>6

\* What such a step does to the blocks of the abstract heap.
LEMMA PutMaps ==
  ASSUME NEW D, D \subseteq DOMAIN live, NEW s, Len(s) \in Nat,
         Good(heap, live), Payload = Shown(live), Payload' = Shown(live'), PutStep(D, s)
  PROVE  \E p \in DOMAIN Payload' :
           /\ Payload'[p] = Blobs(s)
           /\ Promise!Apart(p, Len(Blobs(s)), At(D))
           /\ Payload' = Promise!With(p, Blobs(s), At(D))
<1>1. PICK at : at \notin D /\ live' = Put(live, D, at, s) BY DEF PutStep
<1>2. Good(heap', live') BY DEF PutStep
<1> DEFINE X == Shown(live)
           E == D \cup {at}
<1>3. /\ DOMAIN live' = E /\ live'[at] = s /\ at \in E
      /\ \A c \in D : live'[c] = live[c]
  BY <1>1 DEF Put
<1>4. DOMAIN live \subseteq Nat /\ E \subseteq Nat BY <1>2, <1>3, GoodHeld
<1>5. DOMAIN Payload' = At(E) /\ \A c \in E : Payload'[c + 1] = Blobs(live'[c])
  BY <1>3, <1>4, ShownIs
<1>6. DOMAIN X = At(DOMAIN live) /\ \A c \in DOMAIN live : X[c + 1] = Blobs(live[c])
  BY <1>4, GoodHeld, ShownIs
<1>7. at + 1 \in DOMAIN Payload' /\ Payload'[at + 1] = Blobs(s) BY <1>3, <1>5 DEF At
<1>8. At(E) = At(D) \cup {at + 1} /\ at + 1 \notin At(D) /\ at \in Nat /\ D \subseteq Nat
  BY <1>1, <1>3, <1>4 DEF At
<1>9. Payload' = Promise!With(at + 1, Blobs(s), At(D))
  <2>1. Payload' = [p \in At(E) |-> Payload'[p]] BY <1>5 DEF Shown
  <2>2. ASSUME NEW p \in At(E) PROVE Payload'[p] = IF p = at + 1 THEN Blobs(s) ELSE X[p]
    <3>1. CASE p = at + 1 BY <1>7, <3>1
    <3>2. CASE p # at + 1
      <4>1. PICK c \in D : p = c + 1 BY <1>8, <3>2 DEF At
      <4>2. Payload'[c + 1] = Blobs(live'[c]) /\ live'[c] = live[c] BY <1>3, <1>5, <4>1
      <4>3. X[c + 1] = Blobs(live[c]) BY <1>6, <4>1
      <4> QED BY <3>2, <4>1, <4>2, <4>3
    <3> QED BY <3>1, <3>2
  <2>3. Payload = X OBVIOUS
  <2> HIDE DEF X
  <2> QED BY <1>8, <2>1, <2>2, <2>3 DEF Promise!With
<1>10. Promise!Apart(at + 1, Len(Blobs(s)), At(D))
  <2>1. Len(Blobs(s)) = Len(s) BY BlobsLen
  <2>2. /\ Promise!Span(at + 1, Len(s)) \subseteq Units
        /\ \A c \in E \ {at} : Promise!Span(at + 1, Len(s)) \cap Promise!Span(c + 1, Len(live'[c])) = {}
    BY <1>2, <1>3, GoodApart
  <2>3. ASSUME NEW q \in At(D)
        PROVE  at + 1 # q /\ Promise!Span(at + 1, Len(s)) \cap Promise!Span(q, Len(Payload[q])) = {}
    <3>1. PICK c \in D : q = c + 1 BY DEF At
    <3>2. c \in E \ {at} /\ c \in DOMAIN live /\ live'[c] = live[c] BY <1>1, <1>3
    <3>3. Payload[q] = Blobs(live[c]) BY <1>6, <3>1, <3>2
    <3>4. Len(live[c]) \in Nat BY <3>2, GoodHeld
    <3>5. Len(Payload[q]) = Len(live[c]) BY <3>3, <3>4, BlobsLen
    <3>6. at + 1 # q BY <1>8
    <3> QED BY <2>2, <3>1, <3>2, <3>5, <3>6
  <2> QED BY <2>1, <2>2, <2>3 DEF Promise!Apart
<1> QED BY <1>7, <1>9, <1>10

\* Every step is one of the abstract heap's, or none.
LEMMA NextMaps ==
  ASSUME IInv, IInv', [Next]_vars, Payload = Shown(live), Payload' = Shown(live')
  PROVE  [Promise!Next]_Payload
<1>1. CASE live' = live
  BY <1>1
<1>2. CASE live' = NoneHeld
  <2>1. Shown(NoneHeld) = [p \in {} |-> <<>>] BY DEF Shown, At, NoneHeld
  <2>2. Promise!Reset BY <1>2, <2>1 DEF Promise!Reset, Promise!Init
  <2> QED BY <2>2 DEF Promise!Next
<1>3. CASE heap.brk # 0 /\ \E n \in 0 .. MaxRequest, v \in Vals : Malloc(n, v)
  <2>1. PICK n \in 0 .. MaxRequest, v \in Vals : Malloc(n, v) BY <1>3
  <2>2. Good(heap, live) BY <1>3 DEF IInv
  <2>3. CASE PutStep(DOMAIN live, Repeated(n, v))
    <3>1. Len(Repeated(n, v)) \in Nat BY HeapAssumption DEF Repeated
    <3>2. PICK p \in DOMAIN Payload' :
                 /\ Payload'[p] = Blobs(Repeated(n, v))
                 /\ Promise!Apart(p, Len(Blobs(Repeated(n, v))), At(DOMAIN live))
                 /\ Payload' = Promise!With(p, Blobs(Repeated(n, v)), At(DOMAIN live))
      BY <2>2, <2>3, <3>1, PutMaps
    <3>3. Promise!Held = At(DOMAIN live) BY <2>2, GoodHeld, ShownIs DEF Promise!Held
    <3>4. Promise!Malloc(p, Payload'[p]) BY <3>2, <3>3 DEF Promise!Malloc
    <3> QED BY <3>2, <3>4 DEF Promise!Next
  <2> QED BY <1>1, <2>1, <2>2, <2>3, MallocStep
<1>4. CASE heap.brk # 0 /\ \E n \in 0 .. MaxRequest, v \in Vals : \E b \in DOMAIN live : Realloc(b, n, v)
  <2>1. PICK n \in 0 .. MaxRequest, v \in Vals : \E b \in DOMAIN live : Realloc(b, n, v) BY <1>4
  <2>2. PICK b \in DOMAIN live : Realloc(b, n, v) BY <2>1
  <2>3. Good(heap, live) BY <1>4 DEF IInv
  <2> DEFINE s == Grown(live[b], n, v)
             D == DOMAIN live \ {b}
  <2>4. CASE PutStep(D, s)
    <3>1. /\ DOMAIN live \subseteq Nat /\ live[b] \in Seq(Vals) /\ n \in Nat
          /\ Len(live[b]) \in Nat
      BY <2>3, GoodHeld, HeapAssumption
    <3>2. /\ Len(s) = n
          /\ \A i \in 1 .. n : i <= Len(live[b]) => s[i] = live[b][i]
      BY <3>1, GrownIs
    <3> HIDE DEF s, D
    <3>3. PICK p \in DOMAIN Payload' :
                 /\ Payload'[p] = Blobs(s)
                 /\ Promise!Apart(p, Len(Blobs(s)), At(D))
                 /\ Payload' = Promise!With(p, Blobs(s), At(D))
      <4>1. D \subseteq DOMAIN live BY DEF D
      <4> QED BY <2>3, <2>4, <3>1, <3>2, <4>1, PutMaps
    <3>4. /\ Promise!Held = At(DOMAIN live) /\ Payload[b + 1] = Blobs(live[b])
      BY <3>1, ShownIs DEF Promise!Held
    <3>5. b + 1 \in Promise!Held /\ At(D) = Promise!Held \ {b + 1} BY <3>1, <3>4 DEF At, D
    <3>6. \A i \in DOMAIN Blobs(s) : i <= Len(Payload[b + 1]) => Blobs(s)[i] = Payload[b + 1][i]
      <4> SUFFICES ASSUME NEW i \in DOMAIN Blobs(s), i <= Len(Payload[b + 1])
                   PROVE  Blobs(s)[i] = Payload[b + 1][i]
        OBVIOUS
      <4>1. i \in 1 .. n BY <3>1, <3>2, BlobsLen
      <4>2. Len(Payload[b + 1]) = Len(live[b]) BY <3>1, <3>4, BlobsLen
      <4>3. i <= Len(live[b]) /\ i \in 1 .. Len(live[b]) BY <3>1, <4>1, <4>2
      <4>4. s[i] = live[b][i] BY <3>2, <4>1, <4>3
      <4>5. Blobs(s)[i] = Blob(s[i]) /\ Blobs(live[b])[i] = Blob(live[b][i])
        BY <3>2, <4>1, <4>3 DEF Blobs
      <4> QED BY <3>4, <4>4, <4>5
    <3>7. Promise!Realloc(b + 1, p, Payload'[p]) BY <3>3, <3>5, <3>6 DEF Promise!Realloc
    <3> QED BY <3>3, <3>5, <3>7 DEF Promise!Next
  <2> QED BY <1>1, <2>2, <2>3, <2>4, ReallocStep
<1>5. CASE heap.brk # 0 /\ \E b \in DOMAIN live : Free(b)
  <2>1. PICK b \in DOMAIN live : Free(b) BY <1>5
  <2>2. Good(heap, live) BY <1>5 DEF IInv
  <2> DEFINE D == DOMAIN live \ {b}
  <2>3. live' = [c \in D |-> live[c]] BY <2>1, <2>2, FreeStep
  <2>4. DOMAIN live \subseteq Nat BY <2>2, GoodHeld
  <2>5. /\ Promise!Held = At(DOMAIN live)
        /\ \A c \in DOMAIN live : Payload[c + 1] = Blobs(live[c])
    BY <2>4, ShownIs DEF Promise!Held
  <2>6. b + 1 \in Promise!Held /\ At(D) = Promise!Held \ {b + 1} BY <2>4, <2>5 DEF At
  <2>7. Payload' = [p \in At(D) |-> Payload[p]]
    <3>1. DOMAIN live' = D /\ D \subseteq Nat BY <2>3, <2>4
    <3>2. DOMAIN Payload' = At(D) /\ \A c \in D : Payload'[c + 1] = Blobs(live'[c])
      BY <3>1, ShownIs
    <3>3. Payload' = [p \in At(D) |-> Payload'[p]] BY <3>1 DEF Shown
    <3>4. \A p \in At(D) : Payload'[p] = Payload[p] BY <2>3, <2>5, <3>2 DEF At
    <3> QED BY <3>3, <3>4
  <2>8. Promise!Free(b + 1) BY <2>6, <2>7 DEF Promise!Free
  <2> QED BY <2>6, <2>8 DEF Promise!Next
<1>6. CASE mm_init BY <1>1, <1>6 DEF mm_init
<1>7. CASE mm_reset \/ mm_deinit BY <1>2, <1>7 DEF mm_reset, mm_deinit, NoBlocks, NoneHeld
<1>8. CASE UNCHANGED vars BY <1>1, <1>8 DEF vars
<1> QED BY <1>3, <1>4, <1>5, <1>6, <1>7, <1>8 DEF Next

\* Every allocation is a run of units of its own that holds what the client wrote until
\* it is freed; mm_realloc keeps the contents; a call that fails changes nothing.
THEOREM FreeListRefinement == Spec => ImplementsHeap
<1>1. Init => Promise!Init
  <2> SUFFICES ASSUME Init PROVE Promise!Init OBVIOUS
  <2>1. live = NoneHeld BY DEF Init, NoneHeld
  <2>2. Payload = Shown(live) BY InitInv, PayloadIs
  <2>3. Shown(NoneHeld) = [p \in {} |-> <<>>] BY DEF Shown, At, NoneHeld
  <2> QED BY <2>1, <2>2, <2>3 DEF Promise!Init
<1>2. IInv /\ IInv' /\ [Next]_vars => [Promise!Next]_Payload
  <2>1. (IInv => Payload = Shown(live))' BY PayloadIs, PTL
  <2>2. IInv' => Payload' = Shown(live)' BY <2>1
  <2>3. Shown(live)' = Shown(live') BY DEF Shown, At
  <2>4. IInv' => Payload' = Shown(live') BY <2>2, <2>3
  <2> QED BY <2>4, PayloadIs, NextMaps
<1> QED BY <1>1, <1>2, Invariance, PTL DEF Spec, ImplementsHeap, Promise!Spec

=============================================================================
