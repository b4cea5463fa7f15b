---------------------------- MODULE ShellProofs -----------------------------
(***************************************************************************)
(* Theorems about Shell, for any commands and command files.  Of the       *)
(* volume nothing is assumed: it may be as a full one leaves it.           *)
(***************************************************************************)
EXTENDS Shell, SequenceTheorems, NaturalsInduction, WellFoundedInduction, TLAPS

Streams == [file : {Stdin} \cup DOMAIN Script, line : Nat]

\* The working directory has no "." or ".."; the stack has the terminal at its bottom,
\* command files above it, and no more streams than there is room for.
IInv ==
  /\ CwdNormal
  /\ cmdstk \in Seq(Streams) /\ StackFits

-----------------------------------------------------------------------------
(* Recursive functions.  One round of the walk of a path, or of            *)
(* normalize_dot_paths, comes after the other.                             *)

LEMMA LeastOf ==
  ASSUME NEW S, S \subseteq Nat, S # {}
  PROVE  \E n \in S : \A m \in S : n <= m
<1>1. \A m, n \in Nat : m < n => <<m, n>> \in OpToRel(<, Nat)
  BY DEF OpToRel
<1>2. PICK R : IsWellFoundedOn(R, Nat) /\ \A m, n \in Nat : m < n => <<m, n>> \in R
  BY <1>1, NatLessThanWellFounded, Zenon
<1>3. PICK n \in S : \A m \in S : ~(<<m, n>> \in R)
  BY <1>2, WFMin, ZenonT(40)
<1>4. ASSUME NEW m \in S PROVE n <= m
  <2>1. m \in Nat /\ n \in Nat /\ <<m, n>> \notin R BY <1>3
  <2>2. ~(m < n) BY <1>2, <2>1, Zenon
  <2> QED BY <2>1, <2>2
<1> QED BY <1>4

\* what holds at 0 and is kept by each step holds up to m
LEMMA UpTo ==
  ASSUME NEW m \in Nat, NEW S, 0 \in S, \A k \in 1 .. m : k - 1 \in S => k \in S
  PROVE  \A k \in 0 .. m : k \in S
<1> DEFINE Others == {k \in 0 .. m : k \notin S}
<1>1. ASSUME Others # {} PROVE FALSE
  <2>1. PICK n \in Others : \A l \in Others : n <= l
    <3>1. Others \subseteq Nat OBVIOUS
    <3> HIDE DEF Others
    <3> QED BY <1>1, <3>1, LeastOf
  <2>2. n \in 0 .. m /\ n \notin S BY <2>1
  <2>3. n # 0 BY <2>2
  <2>4. n \in 1 .. m /\ n - 1 \in 0 .. m /\ ~(n <= n - 1) BY <2>2, <2>3
  <2>5. n - 1 \notin Others
    <3> HIDE DEF Others
    <3> QED BY <2>1, <2>4
  <2> QED BY <2>2, <2>4, <2>5
<1> QED BY <1>1

Origin(way) == IF way = "walk" THEN [found |-> TRUE, inum |-> Root] ELSE <<>>
Round(way, v, before, n) == IF way = "walk" THEN Step(v, before, n) ELSE Keep(before, n)

\* e[k] is what the first k names lead to
Rounds(e, way, v, names, m) ==
  /\ e = [k \in 0 .. m |-> e[k]]
  /\ e[0] = Origin(way)
  /\ \A k \in 1 .. m : e[k] = Round(way, v, e[k - 1], names[k])

LEMMA RoundsGoOn ==
  ASSUME NEW way, NEW v, NEW names, NEW n \in Nat \ {0}, NEW d, Rounds(d, way, v, names, n - 1)
  PROVE  \E e : Rounds(e, way, v, names, n)
<1> DEFINE next == Round(way, v, d[n - 1], names[n])
           e == [k \in 0 .. n |-> IF k = n THEN next ELSE d[k]]
<1>1. n - 1 \in Nat OBVIOUS
<1>2. /\ e = [k \in 0 .. n |-> e[k]] /\ e[n] = next
      /\ \A k \in 0 .. n - 1 : e[k] = d[k]
  BY <1>1
<1> HIDE DEF e
<1>3. e[0] = Origin(way)
  <2>1. 0 \in 0 .. n - 1 BY <1>1
  <2>2. e[0] = d[0] BY <1>2, <2>1
  <2> QED BY <2>2 DEF Rounds
<1>4. ASSUME NEW k \in 1 .. n PROVE e[k] = Round(way, v, e[k - 1], names[k])
  <2>0. k - 1 \in 0 .. n - 1 OBVIOUS
  <2>1. e[k - 1] = d[k - 1] BY <1>2, <2>0
  <2>2. CASE k = n BY <1>2, <2>1, <2>2
  <2>3. CASE k # n
    <3>1. k \in 1 .. n - 1 /\ k \in 0 .. n - 1 BY <1>1, <2>3
    <3>2. d[k] = Round(way, v, d[k - 1], names[k]) BY <3>1 DEF Rounds
    <3> QED BY <1>2, <2>1, <3>1, <3>2
  <2> QED BY <2>2, <2>3
<1>5. Rounds(e, way, v, names, n) BY <1>2, <1>3, <1>4 DEF Rounds
<1> QED BY <1>5

LEMMA RoundsExist ==
  ASSUME NEW way, NEW v, NEW names, NEW m \in Nat
  PROVE  \E e : Rounds(e, way, v, names, m)
<1> DEFINE S == {n \in Nat : \E e : Rounds(e, way, v, names, n)}
<1>1. 0 \in S
  <2> DEFINE e == [k \in 0 .. 0 |-> Origin(way)]
  <2>1. e[0] = Origin(way) /\ e = [k \in 0 .. 0 |-> e[k]] OBVIOUS
  <2> HIDE DEF e
  <2>2. Rounds(e, way, v, names, 0) BY <2>1 DEF Rounds
  <2> QED BY <2>2
<1>2. ASSUME NEW k \in 1 .. m, k - 1 \in S PROVE k \in S
  <2>1. k \in Nat \ {0} OBVIOUS
  <2>2. PICK d : Rounds(d, way, v, names, k - 1) BY <1>2
  <2>3. \E e : Rounds(e, way, v, names, k) BY <2>1, <2>2, RoundsGoOn
  <2> QED BY <2>1, <2>3
<1>3. m \in S
  <2>1. m \in 0 .. m OBVIOUS
  <2> HIDE DEF S
  <2> QED BY <1>1, <1>2, <2>1, UpTo
<1> QED BY <1>3

\* rounds of the same names agree, whatever names follow
LEMMA RoundsAgree ==
  ASSUME NEW way, NEW v, NEW names, NEW others, NEW m \in Nat, NEW n \in Nat, m <= n,
         \A k \in 1 .. m : names[k] = others[k],
         NEW d, Rounds(d, way, v, names, m), NEW e, Rounds(e, way, v, others, n)
  PROVE  \A k \in 0 .. m : d[k] = e[k]
<1> DEFINE S == {k \in Nat : d[k] = e[k]}
<1>1. 0 \in S BY DEF Rounds
<1>2. ASSUME NEW k \in 1 .. m, k - 1 \in S PROVE k \in S
  <2>1. k \in Nat /\ k \in 1 .. n /\ d[k - 1] = e[k - 1] /\ names[k] = others[k] BY <1>2
  <2>2. d[k] = Round(way, v, d[k - 1], names[k]) BY DEF Rounds
  <2>3. e[k] = Round(way, v, e[k - 1], others[k]) BY <2>1 DEF Rounds
  <2> QED BY <2>1, <2>2, <2>3
<1>3. \A k \in 0 .. m : k \in S
  <2> HIDE DEF S
  <2> QED BY <1>1, <1>2, UpTo
<1> QED BY <1>3

LEMMA WalkIs ==
  ASSUME NEW v, NEW S, NEW names \in Seq(S)
  PROVE  \E e : Rounds(e, "walk", v, names, Len(names)) /\ Walk(v, names) = e[Len(names)]
<1> DEFINE m == Len(names)
           Is(e) == e = [k \in 0 .. m |-> IF k = 0 THEN [found |-> TRUE, inum |-> Root]
                                          ELSE Step(v, e[k - 1], names[k])]
<1>1. m \in Nat OBVIOUS
<1>2. PICK d : Rounds(d, "walk", v, names, m) BY <1>1, RoundsExist
<1>3. Is(d)
  <2>1. d = [k \in 0 .. m |-> d[k]] BY <1>2 DEF Rounds
  <2>2. \A k \in 0 .. m : d[k] = IF k = 0 THEN [found |-> TRUE, inum |-> Root]
                                 ELSE Step(v, d[k - 1], names[k])
    <3>1. \A k \in 0 .. m : k # 0 => k \in 1 .. m BY <1>1
    <3> QED BY <1>2, <3>1 DEF Rounds, Origin, Round
  <2> QED BY <2>1, <2>2
<1>4. PICK e : Is(e) /\ Walk(v, names) = e[m]
  <2>1. Walk(v, names) = (CHOOSE e : Is(e))[m] BY Zenon DEF Walk
  <2> DEFINE e == CHOOSE e : Is(e)
  <2>2. Is(e) BY <1>3
  <2> QED BY <2>1, <2>2
<1>5. 0 \in 0 .. m /\ \A k \in 1 .. m : k \in 0 .. m /\ k # 0 BY <1>1
<1>6. e = [k \in 0 .. m |-> e[k]] BY <1>4
<1>7. e[0] = Origin("walk") BY <1>4, <1>5 DEF Origin
<1>8. \A k \in 1 .. m : e[k] = Round("walk", v, e[k - 1], names[k]) BY <1>4, <1>5 DEF Round
<1> QED BY <1>4, <1>6, <1>7, <1>8 DEF Rounds

LEMMA NormalizedIs ==
  ASSUME NEW S, NEW names \in Seq(S)
  PROVE  \E e : Rounds(e, "dots", 0, names, Len(names)) /\ Normalized(names) = e[Len(names)]
<1> DEFINE m == Len(names)
           Is(e) == e = [k \in 0 .. m |-> IF k = 0 THEN <<>> ELSE Keep(e[k - 1], names[k])]
<1>1. m \in Nat OBVIOUS
<1>2. PICK d : Rounds(d, "dots", 0, names, m) BY <1>1, RoundsExist
<1>3. Is(d)
  <2>1. d = [k \in 0 .. m |-> d[k]] BY <1>2 DEF Rounds
  <2>2. \A k \in 0 .. m : d[k] = IF k = 0 THEN <<>> ELSE Keep(d[k - 1], names[k])
    <3>1. \A k \in 0 .. m : k # 0 => k \in 1 .. m BY <1>1
    <3> QED BY <1>2, <3>1 DEF Rounds, Origin, Round
  <2> QED BY <2>1, <2>2
<1>4. PICK e : Is(e) /\ Normalized(names) = e[m]
  <2>1. Normalized(names) = (CHOOSE e : Is(e))[m] BY Zenon DEF Normalized
  <2> DEFINE e == CHOOSE e : Is(e)
  <2>2. Is(e) BY <1>3
  <2> QED BY <2>1, <2>2
<1>5. 0 \in 0 .. m /\ \A k \in 1 .. m : k \in 0 .. m /\ k # 0 BY <1>1
<1>6. e = [k \in 0 .. m |-> e[k]] BY <1>4
<1>7. e[0] = Origin("dots") BY <1>4, <1>5 DEF Origin
<1>8. \A k \in 1 .. m : e[k] = Round("dots", 0, e[k - 1], names[k]) BY <1>4, <1>5 DEF Round
<1> QED BY <1>4, <1>6, <1>7, <1>8 DEF Rounds

-----------------------------------------------------------------------------
(* The working directory and the stack. *)

\* "." goes, ".." strikes out the name before it, and any other name is a Leaf
LEMMA KeepIs ==
  ASSUME NEW kept \in Seq(Leaf), NEW n \in Names
  PROVE  Keep(kept, n) \in Seq(Leaf)
<1>1. CASE n = Dot BY <1>1 DEF Keep
<1>2. CASE n # Dot /\ n = DotDot
  <2>1. CASE kept = <<>> BY <1>2, <2>1 DEF Keep
  <2>2. CASE kept # <<>>
    <3>1. Front(kept) \in Seq(Leaf) BY <2>2 DEF Front
    <3> QED BY <1>2, <2>2, <3>1 DEF Keep
  <2> QED BY <2>1, <2>2
<1>3. CASE n # Dot /\ n # DotDot
  <2>1. n \in Leaf BY <1>3 DEF Names
  <2> QED BY <1>3, <2>1 DEF Keep
<1> QED BY <1>1, <1>2, <1>3

LEMMA NormalizedClean ==
  ASSUME NEW names \in Seq(Names)
  PROVE  Normalized(names) \in Seq(Leaf)
<1>1. PICK e : Rounds(e, "dots", 0, names, Len(names)) /\ Normalized(names) = e[Len(names)]
  BY NormalizedIs
<1> DEFINE m == Len(names)
           S == {k \in Nat : e[k] \in Seq(Leaf)}
<1>2. m \in Nat /\ \A k \in 1 .. m : names[k] \in Names BY ElementOfSeq
<1>3. 0 \in S
  <2>1. e[0] = <<>> /\ <<>> \in Seq(Leaf) BY <1>1, EmptySeq DEF Rounds, Origin
  <2>2. e[0] \in Seq(Leaf) BY <2>1
  <2> QED BY <2>2
<1>4. ASSUME NEW k \in 1 .. m, k - 1 \in S PROVE k \in S
  <2>1. k \in Nat /\ e[k - 1] \in Seq(Leaf) BY <1>2, <1>4
  <2>2. e[k] = Keep(e[k - 1], names[k]) BY <1>1 DEF Rounds, Round
  <2>3. names[k] \in Names BY <1>2
  <2>4. e[k] \in Seq(Leaf) BY <2>1, <2>2, <2>3, KeepIs
  <2> QED BY <2>1, <2>4
<1>5. m \in S
  <2>1. m \in 0 .. m BY <1>2
  <2> HIDE DEF S, m
  <2> QED BY <1>2, <1>3, <1>4, <2>1, UpTo
<1> QED BY <1>1, <1>5

\* the path of a command
LEMMA PathIs ==
  ASSUME CwdNormal, NEW c \in Lines, c.cmd \notin {"run", "quit"}
  PROVE  /\ c.p.names \in Seq(Names) /\ cwd \in Seq(Names) /\ FullPath(c.p) \in Seq(Names)
         /\ ~c.p.abs => FullPath(c.p) = cwd \o c.p.names
         /\ c.cmd # "cd" => c.p.names # <<>>
<1>1. c.p.names \in Seq(Names) /\ (c.cmd # "cd" => c.p.names # <<>>) BY ShellAssumption
<1>2. cwd \in Seq(Names) BY SeqMonotonic DEF CwdNormal, Names
<1>3. cwd \o c.p.names \in Seq(Names) BY <1>1, <1>2
<1> QED BY <1>1, <1>2, <1>3 DEF FullPath

LEMMA AdvancedIs ==
  ASSUME IInv, cmdstk # <<>>
  PROVE  /\ Advanced \in Seq(Streams) /\ Len(Advanced) = Len(cmdstk)
         /\ \A k \in DOMAIN cmdstk : Advanced[k].file = cmdstk[k].file
<1> DEFINE n == Len(cmdstk)
           next == [cmdstk EXCEPT ![n].line = cmdstk[n].line + 1]
<1>1. cmdstk \in Seq(Streams) /\ n \in Nat /\ n # 0 /\ n \in 1 .. n /\ DOMAIN cmdstk = 1 .. n
  BY EmptySeq DEF IInv
<1>2. cmdstk[n] \in Streams BY <1>1, ElementOfSeq
<1> DEFINE top == [cmdstk[n] EXCEPT !.line = cmdstk[n].line + 1]
<1>3. top \in Streams /\ top.file = cmdstk[n].file BY <1>2 DEF Streams
<1>4. next = [cmdstk EXCEPT ![n] = top] OBVIOUS
<1> HIDE DEF top, next
<1>5. next \in Seq(Streams) /\ Len(next) = n BY <1>1, <1>3, <1>4, ExceptSeq
<1>6. \A k \in 1 .. n : next[k] = IF k = n THEN top ELSE cmdstk[k] BY <1>1, <1>4
<1>7. \A k \in DOMAIN cmdstk : next[k].file = cmdstk[k].file BY <1>1, <1>3, <1>6
<1>8. Advanced = cmdstk \/ Advanced = next BY DEF Advanced, next
<1> QED BY <1>1, <1>5, <1>7, <1>8

LEMMA AdvanceKeeps ==
  ASSUME IInv, cmdstk # <<>>, cmdstk' = Advanced
  PROVE  (cmdstk \in Seq(Streams) /\ StackFits)'
<1>1. /\ cmdstk' \in Seq(Streams) /\ Len(cmdstk') = Len(cmdstk)
      /\ \A k \in DOMAIN cmdstk : cmdstk'[k].file = cmdstk[k].file
  BY AdvancedIs
<1>2. DOMAIN cmdstk = 1 .. Len(cmdstk) /\ DOMAIN cmdstk' = 1 .. Len(cmdstk')
  BY <1>1 DEF IInv
<1> QED BY <1>1, <1>2 DEF IInv, StackFits

LEMMA PushKeeps ==
  ASSUME IInv, cmdstk # <<>>, NEW f \in DOMAIN Script, Len(cmdstk) < CMDSTKMAX,
         cmdstk' = Append(Advanced, [file |-> f, line |-> 1])
  PROVE  (cmdstk \in Seq(Streams) /\ StackFits)'
<1> DEFINE n == Len(cmdstk)
           x == [file |-> f, line |-> 1]
<1>1. /\ Advanced \in Seq(Streams) /\ Len(Advanced) = n
      /\ \A k \in DOMAIN cmdstk : Advanced[k].file = cmdstk[k].file
  BY AdvancedIs
<1>2. x \in Streams /\ x.file # Stdin BY ShellAssumption DEF Streams
<1>3. n \in Nat /\ n # 0 /\ DOMAIN cmdstk = 1 .. n BY EmptySeq DEF IInv
<1> HIDE DEF x
<1>4. /\ cmdstk' \in Seq(Streams) /\ Len(cmdstk') = n + 1 /\ cmdstk'[n + 1] = x
      /\ \A k \in 1 .. n : cmdstk'[k] = Advanced[k]
  BY <1>1, <1>2, <1>3, AppendProperties DEF x
<1>5. ASSUME NEW k \in 1 .. n + 1 PROVE cmdstk'[k].file = Stdin <=> k = 1
  <2>1. CASE k = n + 1 BY <1>2, <1>3, <1>4, <2>1
  <2>2. CASE k # n + 1
    <3>1. k \in 1 .. n BY <1>3, <2>2
    <3> QED BY <1>1, <1>3, <1>4, <3>1 DEF IInv, StackFits
  <2> QED BY <2>1, <2>2
<1>6. DOMAIN cmdstk' = 1 .. n + 1 /\ n + 1 <= CMDSTKMAX
  BY <1>3, <1>4, ShellAssumption
<1> QED BY <1>4, <1>5, <1>6 DEF StackFits

LEMMA EmptyFits == ASSUME cmdstk' = <<>> PROVE (cmdstk \in Seq(Streams) /\ StackFits)'
<1>1. CMDSTKMAX \in Nat BY ShellAssumption
<1> QED BY <1>1 DEF StackFits

LEMMA OnlyStdin ==
  ASSUME NEW s, s = <<[file |-> Stdin, line |-> 1]>>
  PROVE  s \in Seq(Streams) /\ Len(s) = 1 /\ DOMAIN s = {1} /\ s[1].file = Stdin
BY DEF Streams

LEMMA CommandKeeps ==
  ASSUME IInv, NEW c \in Lines, Performed(c)
  PROVE  IInv'
<1>1. cmdstk # <<>> BY DEF Performed, Cd, Entry, Attribute, PutFile, LinkFile, RenameFile,
                           RenameInPlace, RenameFromNowhere, RenameToNowhere, Run, Quit, Crash,
                           Reads, NextLine
<1>2. CASE cmdstk' = Advanced /\ UNCHANGED cwd
  BY <1>1, <1>2, AdvanceKeeps DEF IInv, CwdNormal
<1>3. CASE cmdstk' = <<>> /\ UNCHANGED cwd
  BY <1>3, EmptyFits DEF IInv, CwdNormal
<1>4. CASE Cd(c)
  <2>1. cmdstk' = Advanced /\ cwd' \in {cwd, Normalized(FullPath(c.p))} BY <1>4 DEF Cd
  <2>2. c.cmd = "cd" BY <1>4 DEF Cd, Reads
  <2>3. FullPath(c.p) \in Seq(Names) BY <2>2, PathIs DEF IInv
  <2>4. CwdNormal' BY <2>1, <2>3, NormalizedClean DEF IInv, CwdNormal
  <2> QED BY <1>1, <2>1, <2>4, AdvanceKeeps DEF IInv
<1>5. CASE Run(c)
  <2>1. UNCHANGED cwd BY <1>5 DEF Run
  <2>2. CASE c.file \notin DOMAIN Script \/ Len(cmdstk) >= CMDSTKMAX
    BY <1>2, <1>5, <2>2 DEF Run
  <2>3. CASE ~(c.file \notin DOMAIN Script \/ Len(cmdstk) >= CMDSTKMAX)
    <3>1. cmdstk' = Append(Advanced, [file |-> c.file, line |-> 1]) BY <1>5, <2>3 DEF Run
    <3>2. c.file \in DOMAIN Script /\ Len(cmdstk) < CMDSTKMAX
      <4>1. Len(cmdstk) \in Nat /\ CMDSTKMAX \in Nat BY ShellAssumption DEF IInv
      <4> QED BY <2>3, <4>1
    <3> QED BY <1>1, <2>1, <3>1, <3>2, PushKeeps DEF IInv, CwdNormal
  <2> QED BY <2>2, <2>3
<1>6. CASE Entry(c) BY <1>2, <1>6 DEF Entry, Performs
<1>7. CASE Attribute(c) BY <1>2, <1>7 DEF Attribute, Performs
<1>8. CASE PutFile(c) BY <1>2, <1>8 DEF PutFile, Performs
<1>9. CASE LinkFile(c) BY <1>2, <1>9 DEF LinkFile, Performs
<1>10. CASE RenameFile(c)
  <2>1. CASE RenameInPlace(c) BY <1>2, <2>1 DEF RenameInPlace
  <2>2. CASE RenameFromNowhere(c)
    <3>1. cmdstk' \in {Advanced, <<>>} /\ UNCHANGED cwd BY <2>2 DEF RenameFromNowhere
    <3> QED BY <1>2, <1>3, <3>1
  <2>3. CASE RenameToNowhere(c)
    <3>1. cmdstk' \in {Advanced, <<>>} /\ UNCHANGED cwd BY <2>3 DEF RenameToNowhere
    <3> QED BY <1>2, <1>3, <3>1
  <2> QED BY <1>10, <2>1, <2>2, <2>3 DEF RenameFile
<1>11. CASE Quit(c) BY <1>3, <1>11 DEF Quit
<1>12. CASE Crash(c) BY <1>3, <1>12 DEF Crash
<1> QED BY <1>4, <1>5, <1>6, <1>7, <1>8, <1>9, <1>10, <1>11, <1>12 DEF Performed

LEMMA PopKeeps ==
  ASSUME IInv, EndOfFile
  PROVE  IInv'
<1> DEFINE n == Len(cmdstk)
<1>1. cmdstk \in Seq(Streams) /\ cmdstk # <<>> /\ cmdstk' = Front(cmdstk) BY DEF IInv, EndOfFile
<1>2. n \in Nat \ {0} /\ DOMAIN cmdstk = 1 .. n BY <1>1, EmptySeq
<1>3. /\ cmdstk' \in Seq(Streams) /\ Len(cmdstk') = n - 1
      /\ \A k \in 1 .. n - 1 : cmdstk'[k] = cmdstk[k]
  BY <1>1, <1>2 DEF Front
<1>4. DOMAIN cmdstk' = 1 .. n - 1 /\ n - 1 <= n /\ \A k \in 1 .. n - 1 : k \in 1 .. n
  BY <1>2, <1>3
<1>5. StackFits'
  <2>1. n <= CMDSTKMAX /\ CMDSTKMAX \in Nat BY ShellAssumption DEF IInv, StackFits
  <2>2. Len(cmdstk') <= CMDSTKMAX BY <1>2, <1>3, <2>1
  <2>3. \A k \in 1 .. n - 1 : cmdstk'[k].file = Stdin <=> k = 1
    BY <1>2, <1>3, <1>4 DEF IInv, StackFits
  <2> QED BY <1>4, <2>2, <2>3 DEF StackFits
<1> QED BY <1>3, <1>5 DEF IInv, EndOfFile, CwdNormal

\* The volume is the subject of FsProofs; of the rest of ShellTypeOK, that it holds for any
\* command files, which may run themselves or each other.
THEOREM TextAndStack == ShellSpec => [](CwdNormal /\ StackFits)
<1>1. ASSUME ShellInit PROVE IInv
  <2>1. cwd = <<>> /\ cmdstk = <<[file |-> Stdin, line |-> 1]>> BY <1>1 DEF ShellInit
  <2> QED BY <2>1, OnlyStdin, ShellAssumption DEF IInv, CwdNormal, StackFits
<1>2. ASSUME IInv, [ShellNext]_shellVars PROVE IInv'
  <2>1. ASSUME NEW c \in Lines, Performed(c) PROVE IInv' BY <1>2, <2>1, CommandKeeps
  <2>2. CASE EndOfFile BY <1>2, <2>2, PopKeeps
  <2>3. CASE Start
    <3>1. cwd' = <<>> /\ cmdstk' = <<[file |-> Stdin, line |-> 1]>> BY <2>3 DEF Start
    <3> QED BY <3>1, OnlyStdin, ShellAssumption DEF IInv, CwdNormal, StackFits
  <2>4. CASE UNCHANGED shellVars
    BY <1>2, <2>4 DEF shellVars, IInv, CwdNormal, StackFits
  <2> QED BY <1>2, <2>1, <2>2, <2>3, <2>4 DEF ShellNext
<1>3. IInv => CwdNormal /\ StackFits BY DEF IInv
<1> QED BY <1>1, <1>2, <1>3, PTL DEF ShellSpec

-----------------------------------------------------------------------------
(* A working directory that is gone. *)

\* a walk that has come to what is no directory
Nowhere(v, at) == ~(at.found /\ IsDir(v, at.inum))

LEMMA StepFromNowhere ==
  ASSUME NEW v, NEW at, Nowhere(v, at), NEW n
  PROVE  ~Step(v, at, n).found
<1>1. CASE ~at.found BY <1>1 DEF Step
<1>2. CASE at.found /\ ~IsDir(v, at.inum)
  <2>1. Step(v, at, n) = [found |-> FALSE, inum |-> Wild] BY <1>2 DEF Step
  <2> QED BY <2>1
<1> QED BY <1>1, <1>2 DEF Nowhere

\* no path goes on from what is no directory
LEMMA WalkOn ==
  ASSUME NEW v, NEW S, NEW s \in Seq(S), NEW t \in Seq(S), ~IsDirAt(v, s)
  PROVE  /\ ~IsDirAt(v, s \o t)
         /\ t # <<>> => ~Walk(v, s \o t).found
<1> DEFINE m == Len(s)
           n == Len(s \o t)
<1>1. m \in Nat /\ Len(t) \in Nat /\ n = m + Len(t) /\ s \o t \in Seq(S) OBVIOUS
<1>2. \A k \in 1 .. m : s[k] = (s \o t)[k] BY <1>1
<1>3. PICK d : Rounds(d, "walk", v, s, m) /\ Walk(v, s) = d[m] BY WalkIs
<1>4. PICK e : Rounds(e, "walk", v, s \o t, n) /\ Walk(v, s \o t) = e[n] BY <1>1, WalkIs
<1>5. Nowhere(v, e[m])
  <2>1. n \in Nat /\ m <= n /\ m \in 0 .. m BY <1>1
  <2> DEFINE both == s \o t
  <2>2. Rounds(d, "walk", v, s, m) /\ Rounds(e, "walk", v, both, n) /\ \A k \in 1 .. m : s[k] = both[k]
    BY <1>2, <1>3, <1>4
  <2>3. m \in Nat BY <1>1
  <2> HIDE DEF m, n, both
  <2>4. \A k \in 0 .. m : d[k] = e[k] BY <2>1, <2>2, <2>3, RoundsAgree
  <2>5. d[m] = e[m] BY <2>1, <2>4
  <2> QED BY <1>3, <2>5 DEF IsDirAt, Nowhere, m
<1> DEFINE T == {k \in Nat : Nowhere(v, e[m + k]) /\ (k > 0 => ~e[m + k].found)}
<1>6. 0 \in T BY <1>1, <1>5
<1>7. ASSUME NEW k \in 1 .. Len(t), k - 1 \in T PROVE k \in T
  <2>1. k \in Nat /\ m + (k - 1) = (m + k) - 1 /\ m + k \in 1 .. n BY <1>1
  <2>2. Nowhere(v, e[(m + k) - 1]) BY <1>7, <2>1
  <2>3. e[m + k] = Step(v, e[(m + k) - 1], (s \o t)[m + k])
    BY <1>4, <2>1 DEF Rounds, Round
  <2>4. ~e[m + k].found BY <2>2, <2>3, StepFromNowhere
  <2> QED BY <2>1, <2>4 DEF Nowhere
<1>8. Len(t) \in T
  <2>1. Len(t) \in 0 .. Len(t) BY <1>1
  <2> HIDE DEF T
  <2> QED BY <1>1, <1>6, <1>7, <2>1, UpTo
<1>9. Nowhere(v, e[n]) /\ (t # <<>> => ~e[n].found)
  <2>1. t # <<>> => Len(t) > 0 BY <1>1, EmptySeq
  <2> QED BY <1>1, <1>8, <2>1
<1> QED BY <1>4, <1>9 DEF IsDirAt, Nowhere

LEMMA FrontIs ==
  ASSUME NEW S, NEW t \in Seq(S), NEW n \in Nat \ {0}, Len(t) = n
  PROVE  /\ Front(t) \in Seq(S) /\ Len(Front(t)) = n - 1
         /\ \A k \in 1 .. n - 1 : Front(t)[k] = t[k]
<1>1. Front(t) = SubSeq(t, 1, n - 1) BY DEF Front
<1>2. n - 1 \in Nat OBVIOUS
<1> QED BY <1>1, <1>2

LEMMA FrontOf ==
  ASSUME NEW S, NEW s \in Seq(S), NEW t \in Seq(S), t # <<>>
  PROVE  Front(t) \in Seq(S) /\ Front(s \o t) = s \o Front(t)
<1> DEFINE m == Len(s)
           n == Len(t)
           x == Front(s \o t)
           y == s \o Front(t)
<1>1. m \in Nat /\ n \in Nat \ {0} BY EmptySeq
<1>2. /\ Front(t) \in Seq(S) /\ Len(Front(t)) = n - 1
      /\ \A k \in 1 .. n - 1 : Front(t)[k] = t[k]
  <2> HIDE DEF n
  <2>1. Len(t) = n BY DEF n
  <2> QED BY <1>1, <2>1, FrontIs
<1>3. s \o t \in Seq(S) /\ Len(s \o t) = m + n /\ m + n # 0 BY <1>1
<1>4. /\ x \in Seq(S) /\ Len(x) = (m + n) - 1
      /\ \A k \in 1 .. (m + n) - 1 : x[k] = (s \o t)[k]
  BY <1>1, <1>3 DEF Front
<1>5. y \in Seq(S) /\ Len(y) = (m + n) - 1
  <2> DEFINE z == Front(t)
  <2>1. z \in Seq(S) /\ Len(z) = n - 1 BY <1>2
  <2> HIDE DEF z
  <2>2. s \o z \in Seq(S) /\ Len(s \o z) = m + Len(z) BY <2>1
  <2> HIDE DEF n
  <2>3. m + Len(z) = (m + n) - 1 BY <1>1, <2>1
  <2> QED BY <2>2, <2>3 DEF z
<1>6. ASSUME NEW k \in 1 .. (m + n) - 1 PROVE x[k] = y[k]
  <2>1. CASE k <= m
    <3>1. (s \o t)[k] = s[k] /\ y[k] = s[k] BY <1>1, <1>2, <2>1
    <3> QED BY <1>4, <3>1
  <2>2. CASE ~(k <= m)
    <3>1. k - m \in 1 .. n - 1 /\ k \in 1 .. m + n BY <1>1, <2>2
    <3>2. (s \o t)[k] = t[k - m] BY <1>1, <2>2, <3>1
    <3>3. y[k] = Front(t)[k - m] BY <1>1, <1>2, <2>2, <3>1
    <3> QED BY <1>2, <1>4, <3>1, <3>2, <3>3
  <2> QED BY <2>1, <2>2
<1>7. x = y
  <2> HIDE DEF x, y
  <2> QED BY <1>4, <1>5, <1>6, SeqEqual
<1> QED BY <1>2, <1>7

\* a path that does not lead to its directory, nor to anything
Lost(v, names) == ~IsDirAt(v, Front(names)) /\ ~Walk(v, names).found

LEMMA TouchLost == ASSUME NEW v, NEW names, Lost(v, names) PROVE TouchCall(v, names).vol = v
<1>1. ~InDir(v, names, LAMBDA d, n : [ok |-> Found(v, d, n) # {}]).ok
  BY DEF InDir, Lost, Fail
<1>2. InDir(v, names, LAMBDA d, n : MkEntry(v, d, n, "file")) = Fail(v) BY DEF InDir, Lost
<1>3. TouchCall(v, names) = Fail(v) BY <1>1, <1>2 DEF TouchCall
<1> QED BY <1>3 DEF Fail

LEMMA PutLost ==
  ASSUME NEW v, NEW names, Lost(v, names), NEW m \in Nat, NEW t
  PROVE  PutCall(v, names, m, t).vol = v
<1> DEFINE made == InDir(v, names, LAMBDA d, n : MkEntry(v, d, n, "file"))
           at == Walk(made.vol, names)
           Is(e) == e = [j \in 0 .. m |->
                           IF j = 0 THEN made
                           ELSE IF e[j - 1].ok THEN DoWrite(e[j - 1].vol, at.inum, t)
                           ELSE e[j - 1]]
           e == CHOOSE f : Is(f)
<1>1. made = Fail(v) BY DEF InDir, Lost
<1>2. made.vol = v /\ ~made.ok
  <2> HIDE DEF made
  <2> QED BY <1>1 DEF Fail
<1>3. PutCall(v, names, m, t) = IF made.ok /\ ~at.found THEN Fail(made.vol) ELSE e[m]
  BY Zenon DEF PutCall
<1>4. Is(e)
  <2> DEFINE f == [j \in 0 .. m |-> made]
  <2>1. Is(f)
    <3>1. \A j \in 0 .. m : j # 0 => j - 1 \in 0 .. m OBVIOUS
    <3> HIDE DEF made
    <3> QED BY <1>2, <3>1
  <2> HIDE DEF f
  <2> QED BY <2>1
<1> HIDE DEF e, made
<1>5. \A j \in 0 .. m : e[j] = made
  <2> DEFINE S == {j \in Nat : e[j] = made}
  <2>1. 0 \in S BY <1>4
  <2>2. ASSUME NEW k \in 1 .. m, k - 1 \in S PROVE k \in S BY <1>2, <1>4, <2>2
  <2>3. \A k \in 0 .. m : k \in S
    <3> HIDE DEF S
    <3> QED BY <2>1, <2>2, UpTo
  <2> QED BY <2>3
<1> QED BY <1>2, <1>3, <1>5

LEMMA LostKeeps ==
  ASSUME NEW c \in Lines, Lost(vol, FullPath(c.p)),
         Entry(c) \/ Attribute(c) \/ PutFile(c) \/ LinkFile(c) \/ RenameFile(c)
  PROVE  UNCHANGED vol
<1> DEFINE names == FullPath(c.p)
<1>1. Fail(vol).vol = vol BY DEF Fail
<1>2. ~IsDirAt(vol, Front(names)) /\ ~Walk(vol, names).found BY DEF Lost
<1>3. CASE Entry(c)
  <2>1. /\ InDir(vol, names, LAMBDA d, n : MkdirCall(vol, d, n)) = Fail(vol)
        /\ InDir(vol, names, LAMBDA d, n : RmdirCall(vol, d, n)) = Fail(vol)
        /\ InDir(vol, names, LAMBDA d, n : UnlinkCall(vol, d, n)) = Fail(vol)
        /\ InDir(vol, names, LAMBDA d, n : SymlinkCall(vol, d, n, c.t)) = Fail(vol)
    BY <1>2 DEF InDir
  <2> QED BY <1>1, <1>3, <2>1 DEF Entry, Performs
<1>4. CASE Attribute(c)
  <2>1. OnInode(vol, names, AnyKind, LAMBDA i : Touched(vol, i)) = Fail(vol) BY <1>2 DEF OnInode
  <2>2. TruncateCall(vol, names) = Fail(vol) BY <1>2 DEF TruncateCall, OnInode
  <2>3. TouchCall(vol, names).vol = vol BY TouchLost
  <2> QED BY <1>1, <1>4, <2>1, <2>2, <2>3 DEF Attribute, Performs
<1>5. CASE PutFile(c)
  <2>1. c.n \in Nat BY <1>5, ShellAssumption DEF PutFile, Reads
  <2>2. PutCall(vol, names, c.n, c.t).vol = vol BY <2>1, PutLost
  <2> QED BY <1>5, <2>2 DEF PutFile, Performs
<1>6. CASE LinkFile(c)
  <2>1. LinkCall(vol, names, FullPath(c.q)) = Fail(vol) BY <1>2 DEF LinkCall, OnInode
  <2> QED BY <1>1, <1>6, <2>1 DEF LinkFile, Performs
<1>7. CASE RenameFile(c)
  <2>1. ~RenameInPlace(c) /\ ~RenameToNowhere(c) BY <1>2 DEF RenameInPlace, RenameToNowhere
  <2>2. RenameFromNowhere(c) BY <1>7, <2>1 DEF RenameFile
  <2> QED BY <2>2 DEF RenameFromNowhere
<1> QED BY <1>3, <1>4, <1>5, <1>6, <1>7

\* A relative name is looked for below the working directory's text.  When that leads to
\* no directory, no command that changes the volume and gets a relative name first
\* changes anything: not rename either, which goes on with an error number for the
\* directory (fs_op_rename.c:44-71).
THEOREM GoneDirectoryInert == ShellSpec => GoneCwdInert
<1> DEFINE Inert == \A c \in Lines :
             /\ cwd # <<>> /\ ~IsDirAt(vol, cwd) /\ c.cmd \notin {"run", "quit"} /\ ~c.p.abs
             /\ Entry(c) \/ Attribute(c) \/ PutFile(c) \/ LinkFile(c) \/ RenameFile(c)
             => UNCHANGED vol
<1>1. ASSUME CwdNormal PROVE Inert
  <2>1. SUFFICES ASSUME NEW c \in Lines, ~IsDirAt(vol, cwd), c.cmd \notin {"run", "quit"},
                        ~c.p.abs,
                        Entry(c) \/ Attribute(c) \/ PutFile(c) \/ LinkFile(c) \/ RenameFile(c)
                 PROVE  UNCHANGED vol
    OBVIOUS
  <2>2. c.cmd # "cd" BY <2>1 DEF Entry, Attribute, PutFile, LinkFile, RenameFile, RenameInPlace,
                                RenameFromNowhere, RenameToNowhere, Reads
  <2> DEFINE t == c.p.names
  <2>3. t \in Seq(Names) /\ cwd \in Seq(Names) /\ FullPath(c.p) = cwd \o t /\ t # <<>>
    BY <1>1, <2>1, <2>2, PathIs
  <2> HIDE DEF t
  <2>4. Front(t) \in Seq(Names) /\ Front(cwd \o t) = cwd \o Front(t) BY <2>3, FrontOf
  <2>5. ~IsDirAt(vol, cwd \o Front(t)) BY <2>1, <2>3, <2>4, WalkOn
  <2>6. ~Walk(vol, cwd \o t).found BY <2>1, <2>3, WalkOn
  <2>7. Lost(vol, FullPath(c.p)) BY <2>3, <2>4, <2>5, <2>6 DEF Lost
  <2> QED BY <2>1, <2>7, LostKeeps
<1>2. ShellSpec => []CwdNormal
  <2>1. CwdNormal /\ StackFits => CwdNormal OBVIOUS
  <2> QED BY <2>1, TextAndStack, PTL
<1>3. CwdNormal /\ [ShellNext]_shellVars => [Inert]_shellVars BY <1>1
<1> QED BY <1>2, <1>3, PTL DEF ShellSpec, GoneCwdInert

=============================================================================
