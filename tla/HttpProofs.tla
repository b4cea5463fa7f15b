----------------------------- MODULE HttpProofs -----------------------------
(***************************************************************************)
(* Theorems about HttpRequests, for every set of connections, every tree   *)
(* of paths, every mix of requests and any number of threads and           *)
(* descriptors.                                                            *)
(***************************************************************************)
EXTENDS HttpRequests, SequenceTheorems, WellFoundedInduction,
        NaturalsInduction, TLAPS

-----------------------------------------------------------------------------
(* The inductive invariant, part by part. *)

Cells == Requests \cup {Old, Hole}
Page == Cells \cup {Listing}
Answers == [status : Nat, lens : Seq(Nat)]
Dues == [status : Nat, body : Seq(Page)]

ConnType ==
  [pc : Labels, sock : Fds \cup {None}, file : Fds \cup {None},
   ino : Inodes \cup {None, Dir}, status : Nat, then : {"close", "return", "answer"},
   lens : Seq(Nat), answers : Seq(Answers), want : Seq(Page), body : Seq(Page),
   flushed : Nat, dirs : Nat, alone : BOOLEAN, due : Dues]

TypeInv ==
  /\ req \in Scenarios
  /\ tree \in [Nodes -> Inodes \cup {Absent, Dir}]
  /\ data \in [Inodes -> Seq(Cells)]
  /\ owner \in [Fds -> Requests \cup {None}]
  /\ gone \subseteq Resetting
  /\ fault \in {"none", "null stream", "broken pipe", "stray close"}
  /\ conn \in [Requests -> ConnType]

(* The pool holds a request in one place, which the request's label tells. *)
Running == Labels \ {"idle", "queued", "done"}
PoolInv ==
  /\ pending \in Seq(Requests)
  /\ \A i, j \in 1 .. Len(pending) : pending[i] = pending[j] => i = j
  /\ \A r \in Requests : /\ conn[r].pc \in Running <=> r \in running
                         /\ conn[r].pc = "queued" <=> r \in Elements(pending)
                         /\ conn[r].pc = "done" <=> r \in finished

(* The labels that each method goes through. *)
Started == {"idle", "queued"}
Opening == Started \cup {"stat", "list", "rmdir", "unlink", "mkdirs", "create"}
LabelsOf(r) ==
  CASE req[r].method \in {"GET", "HEAD"} -> {"stat", "list", "head", "open", "send"}
    [] req[r].method = "DELETE" -> {"stat", "rmdir", "unlink", "answer"}
    [] req[r].method \in Writers -> {"mkdirs", "create", "copy", "answer"}
    [] OTHER -> {}
MethodOK(r, c) ==
  /\ c.pc \in Started \cup {"error", "close", "close again", "done", "return"} \cup LabelsOf(r)
  /\ c.pc \in {"open", "send"} => req[r].method = "GET"
  /\ LeftOpen(r) => c.pc \in Started \cup {"error", "return", "done"}
  /\ c.pc = "return" => LeftOpen(r)
  /\ c.pc = "error" => /\ c.then = "return" <=> LeftOpen(r)
                       /\ c.then = "answer" => Lengthless(r)
  /\ c.pc = "copy" => ~Lengthless(r)
  /\ c.pc \in Opening \cup {"head", "copy"} => c.then = "close"

(* A descriptor belongs to the request that remembers it. *)
OwnerInv ==
  \A f \in Fds : owner[f] # None =>
    LET r == owner[f] IN
    \/ conn[r].pc \notin {"idle", "close again", "done"} /\ f \in {conn[r].sock, conn[r].file}
    \/ Ended(r) /\ LeftOpen(r) /\ f = conn[r].sock
SockOK(r, c) ==
  /\ c.pc # "idle" => c.sock \in Fds
  /\ c.pc \in Opening \cup {"open", "return"} => c.file = None
  /\ LeftOpen(r) => c.file = None

(* What a request has said to its client by each label. *)
AnswerOK(r, c) ==
  /\ c.pc \in Opening \cup {"error", "head", "copy"} => c.answers = <<>> /\ c.lens = <<>>
  /\ c.pc = "answer" => Lengthless(r) \/ (c.answers = <<>> /\ c.lens = <<>>)
  /\ c.pc \in {"open", "send", "close", "close again", "return", "done"} =>
       \/ Lengthless(r) \/ req[r].method = "empty"
       \/ Len(c.answers) = 1 /\ Len(c.answers[1].lens) <= 1

(* What a request has open and has copied by each label. *)
BodyOK(r, c) ==
  /\ c.pc \in Opening \cup {"head", "open"} => c.ino = None /\ c.body = <<>> /\ c.flushed = 0
  /\ req[r].method \in Writers =>
       c.ino \in Inodes \cup {None} /\ c.body \in Seq({r}) /\ c.flushed <= Len(c.body)
  /\ req[r].method \notin Writers \cup {"GET"} => c.body = <<>>
  /\ c.pc = "copy" => c.ino \in Inodes
  /\ c.pc = "send" => Len(c.body) <= Copied(Len(c.want))
  /\ c.pc \in Started => c.dirs = 0
  /\ c.pc = "mkdirs" => c.dirs < Len(DirPath(r))

(* These four are about one request and what it remembers. *)
LocalOK(r, c) == MethodOK(r, c) /\ SockOK(r, c) /\ AnswerOK(r, c) /\ BodyOK(r, c)
LocalInv == \A r \in Requests : LocalOK(r, conn[r])

(* A path exists only below directories, and a file is at one path. *)
Home(i) == IF i \in Requests THEN Node(i) ELSE i
TreeInv ==
  /\ \A n \in Nodes : tree[n] # Absent => Reachable(n)
  /\ \A n \in Nodes : tree[n] \in Inodes => Home(tree[n]) = n
  /\ \A r \in Requests : conn[r].ino \in Inodes => Home(conn[r].ino) = Node(r)

(* Nobody who conflicts with a request that is still alone runs beside it. *)
AloneInv ==
  \A q, r \in Requests : q # r /\ q \in running /\ r \in running /\ conn[r].alone => ~Conflict(q, r)

(* What a request that is alone finds in the tree, by each label, while it   *)
(* has still to act on the promise of its start ...                          *)
Waiting(c) ==
  \/ c.pc \in {"stat", "list", "mkdirs", "create", "open", "rmdir", "unlink"}
  \/ c.pc = "head" /\ c.file = None
Before(r, c) ==
  /\ Waiting(c) => c.due = Promise(r)
  /\ c.pc \in {"list", "rmdir"} => IsDir(r) /\ req[r].slash
  /\ c.pc \in {"open", "unlink"} \/ (c.pc = "head" /\ c.file = None) => IsFile(r)
  /\ c.pc = "mkdirs" /\ Writable(r) => \A i \in 1 .. c.dirs : tree[Above[Node(r)][i]] = Dir
  /\ c.pc = "create" /\ Writable(r) => Reachable(Node(r))

(* ... what it then reads ...                                                *)
Reading(r, c) ==
  /\ c.pc \in {"head", "open", "send"} => c.due = [status |-> 200, body |-> c.want]
  /\ c.pc = "send" => /\ c.ino # None => c.ino \in Inodes /\ data[c.ino] = c.want
                      /\ \A i \in 1 .. Len(c.body) : c.body[i] = c.want[i]

(* ... what it has left there ...                                            *)
Holding == {"copy", "answer", "close", "close again"}
Stored(r, c) ==
  req[r].method \in Writers /\ c.due.status \in {200, 201} /\ c.pc \in Holding =>
    /\ c.due.body = Content(r) /\ req[r].length # None
    /\ Reachable(Node(r)) /\ tree[Node(r)] = c.ino /\ c.ino \in Inodes
    /\ Len(c.body) <= Len(Content(r))
    /\ c.pc # "close again" => data[c.ino] = SubSeq(c.body, 1, c.flushed)
    /\ c.pc = "close again" => data[c.ino] = c.body
    /\ c.pc # "copy" /\ r \notin gone /\ req[r].length < IntCells => Len(c.body) = Len(Content(r))
Removed(r, c) ==
  req[r].method = "DELETE" /\ c.due.status = 200 /\ c.pc \in Holding => tree[Node(r)] = Absent

(* ... and what it tells its client.                                         *)
Answered == {"open", "send", "close", "close again", "done"}
Told(r, c) ==
  /\ c.pc = "copy" => c.due.status \in {200, 201}
  /\ c.pc = "error" => c.status = c.due.status /\ c.status \notin {200, 201}
  /\ c.pc = "answer" /\ c.answers = <<>> =>
       c.due.status = 200 \/ (req[r].method = "PUT" /\ c.due.status = 201)
  /\ c.pc \in {"copy", "answer"} /\ req[r].method = "POST" => c.due.status # 201
  /\ c.answers # <<>> => \/ c.answers[1].status = c.due.status
                         \/ req[r].method = "PUT" /\ c.answers[1].status = 201
  /\ c.pc \in Answered => c.answers # <<>> \/ req[r].method = "empty"
  /\ c.pc = "return" /\ req[r].method = "bad" => c.answers # <<>>
Shown(r, c) ==
  c.pc \in Answered /\ c.answers # <<>> /\ c.answers[1].status = 200 /\ req[r].method \in {"GET", "HEAD"} =>
    /\ c.answers[1].lens = <<Len(c.due.body)>>
    /\ c.pc \in {"close", "close again", "done"} /\ r \notin gone =>
         /\ req[r].method = "GET" /\ Len(c.due.body) < IntCells => c.body = c.due.body
         /\ req[r].method = "HEAD" => c.body = <<>>

LoneOK(r, c) ==
  Before(r, c) /\ Reading(r, c) /\ Stored(r, c) /\ Removed(r, c) /\ Told(r, c) /\ Shown(r, c)
LoneInv == \A r \in Requests : conn[r].alone => LoneOK(r, conn[r])

IInv == TypeInv /\ LocalInv /\ PoolInv /\ OwnerInv /\ TreeInv /\ AloneInv /\ LoneInv

-----------------------------------------------------------------------------
(* The operators. *)

LEMMA MinOf ==
  ASSUME NEW S, S \subseteq Nat, S # {}
  PROVE  Min(S) \in S
<1>1. \A m, n \in Nat : m < n => <<m, n>> \in OpToRel(<, Nat)
  BY DEF OpToRel
<1>2. PICK R : IsWellFoundedOn(R, Nat) /\ \A m, n \in Nat : m < n => <<m, n>> \in R
  BY <1>1, NatLessThanWellFounded, Zenon
<1>3. PICK n \in S : \A m \in S : ~(<<m, n>> \in R)
  BY <1>2, WFMin, ZenonT(40)
<1>4. ASSUME NEW m \in S PROVE n =< m
  <2>1. m \in Nat /\ n \in Nat /\ <<m, n>> \notin R BY <1>3
  <2>2. ~(m < n) BY <1>2, <2>1, Zenon
  <2> QED BY <2>1, <2>2
<1>5. \E x \in S : \A y \in S : x =< y
  BY <1>4
<1> QED BY <1>5 DEF Min

LEMMA MaxOf ==
  ASSUME NEW a \in Nat, NEW b \in Nat
  PROVE  Max({a, b}) \in Nat /\ Max({a, b}) >= a /\ Max({a, b}) >= b
         /\ Max({a, b}) \in {a, b}
<1>1. \E x \in {a, b} : \A y \in {a, b} : x >= y
  OBVIOUS
<1> QED BY <1>1 DEF Max

LEMMA MinOfTwo ==
  ASSUME NEW a \in Nat, NEW b \in Nat
  PROVE  Min({a, b}) \in Nat /\ Min({a, b}) <= a /\ Min({a, b}) <= b
         /\ Min({a, b}) \in {a, b}
<1>1. \E x \in {a, b} : \A y \in {a, b} : x =< y
  OBVIOUS
<1> QED BY <1>1 DEF Min

(* What copyFileStreamBytes copies is never more than it was asked, and all of *)
(* it when an int holds the length.                                           *)
LEMMA CopiedIs ==
  ASSUME NEW n \in Nat
  PROVE  Copied(n) \in Nat /\ Copied(n) <= n /\ (n < IntCells => Copied(n) = n)
<1> DEFINE M == 2 * IntCells
           m == (n + IntCells) % M
<1>1. IntCells \in Nat /\ IntCells > 0 /\ M \in Nat /\ M > 0 BY IntAssumption
<1>2. m \in 0 .. M - 1 /\ m <= n + IntCells BY <1>1
<1>3. n < IntCells => m = n + IntCells
  <2>1. SUFFICES ASSUME n < IntCells PROVE m = n + IntCells OBVIOUS
  <2>2. n + IntCells \in 0 .. M - 1 BY <1>1, <2>1
  <2> QED BY <1>1, <2>2
<1>4. Copied(n) = IF m - IntCells < 0 THEN 0 ELSE m - IntCells BY DEF Copied
<1> HIDE DEF m, M
<1> QED BY <1>1, <1>2, <1>3, <1>4

LEMMA Request ==
  ASSUME TypeInv, NEW r \in Requests
  PROVE  /\ req[r] \in RequestType /\ Node(r) \in Nodes /\ Above[Node(r)] \in Seq(Nodes)
         /\ req[r].slash \/ Above[Node(r)] # <<>>
         /\ conn[r] \in ConnType
BY PathsAssumption, ScenariosAssumption DEF TypeInv, RequestType, Node

LEMMA FreeOne ==
  ASSUME TypeInv, Free # {}
  PROVE  Min(Free) \in Fds /\ owner[Min(Free)] = None
<1>1. Free \subseteq Nat BY NamesAssumption DEF Free
<1>2. Min(Free) \in Free BY <1>1, MinOf
<1> QED BY <1>2 DEF Free

LEMMA CellsArePage ==
  ASSUME NEW s \in Seq(Cells)
  PROVE  s \in Seq(Page)
<1>1. s \in [1 .. Len(s) -> Page] /\ Len(s) \in Nat BY DEF Page
<1> QED BY <1>1

LEMMA WriteAtType ==
  ASSUME NEW s \in Seq(Cells), NEW pos \in Nat, NEW cells \in Seq(Cells)
  PROVE  WriteAt(s, pos, cells) \in Seq(Cells)
<1> DEFINE n == Max({Len(s), pos + Len(cells)})
<1>1. n \in Nat BY MaxOf
<1>2. \A i \in 1 .. n : i \in pos + 1 .. pos + Len(cells) => cells[i - pos] \in Cells
  OBVIOUS
<1>3. \A i \in 1 .. n : (IF i \in pos + 1 .. pos + Len(cells) THEN cells[i - pos]
                         ELSE IF i <= Len(s) THEN s[i] ELSE Hole) \in Cells
  BY <1>1, <1>2 DEF Cells
<1>4. WriteAt(s, pos, cells) =
        [i \in 1 .. n |-> IF i \in pos + 1 .. pos + Len(cells) THEN cells[i - pos]
                         ELSE IF i <= Len(s) THEN s[i] ELSE Hole]
  BY DEF WriteAt
<1> HIDE DEF n
<1> QED BY <1>1, <1>3, <1>4

LEMMA OwnCells ==
  ASSUME NEW r \in Requests, NEW s \in Seq({r})
  PROVE  s \in Seq(Cells) /\ Append(s, r) \in Seq(Cells)
<1>1. s \in [1 .. Len(s) -> Cells] /\ Len(s) \in Nat BY DEF Cells
<1>2. s \in Seq(Cells) BY <1>1
<1> QED BY <1>2 DEF Cells

-----------------------------------------------------------------------------
(* Types. *)

LEMMA FreshType == Fresh \in ConnType
BY NamesAssumption DEF Fresh, ConnType, Labels, Dues, Answers

LEMMA InitTypeInv == Init => TypeInv
<1> SUFFICES ASSUME Init PROVE TypeInv
  OBVIOUS
<1>1. Fresh \in ConnType BY FreshType
<1>2. data \in [Inodes -> Seq(Cells)]
  <2>1. <<Old, Old>> \in Seq(Cells) /\ <<>> \in Seq(Cells) BY DEF Cells
  <2> QED BY <2>1 DEF Init
<1>3. tree \in [Nodes -> Inodes \cup {Absent, Dir}] BY DEF Init, Inodes
<1> QED BY <1>1, <1>2, <1>3 DEF Init, TypeInv


LEMMA GotoType ==
  ASSUME NEW c \in ConnType, NEW l \in Labels
  PROVE  Goto(c, l) \in ConnType
BY DEF Goto, ConnType

LEMMA FailType ==
  ASSUME NEW c \in ConnType, NEW s \in Nat
  PROVE  Fail(c, s) \in ConnType
BY DEF Fail, ConnType, Labels

LEMMA PutLengthType ==
  ASSUME NEW c \in ConnType, NEW n \in Nat
  PROVE  PutLength(c, n) \in ConnType
<1>1. Append(c.lens, n) \in Seq(Nat) BY DEF ConnType
<1> QED BY <1>1 DEF PutLength, ConnType

LEMMA AnswerType ==
  ASSUME NEW c \in ConnType, NEW s \in Nat
  PROVE  Answer(c, s) \in ConnType
<1>1. [status |-> s, lens |-> c.lens] \in Answers BY DEF ConnType, Answers
<1>2. Append(c.answers, [status |-> s, lens |-> c.lens]) \in Seq(Answers) BY <1>1 DEF ConnType
<1> QED BY <1>2 DEF Answer, ConnType

LEMMA AloneType ==
  ASSUME NEW c \in ConnType, NEW b \in BOOLEAN
  PROVE  [c EXCEPT !.alone = b] \in ConnType
BY DEF ConnType

LEMMA ThenType ==
  ASSUME NEW c \in ConnType, NEW l \in {"close", "return", "answer"}
  PROVE  [c EXCEPT !.then = l] \in ConnType
BY DEF ConnType

LEMMA FlushType ==
  ASSUME TypeInv, NEW r \in Requests, NEW c, NEW k \in Nat, Flush(r, c, k),
         c.ino \in Inodes, c.flushed \in Nat,
         SubSeq(c.body, c.flushed + 1, k) \in Seq(Cells)
  PROVE  data' \in [Inodes -> Seq(Cells)] /\ tree' = tree
<1>1. WriteAt(data[c.ino], c.flushed, SubSeq(c.body, c.flushed + 1, k)) \in Seq(Cells)
  BY WriteAtType DEF TypeInv
<1> QED BY <1>1 DEF Flush, TypeInv

(* A step that changes only what r remembers ... *)
LEMMA BecomeType ==
  ASSUME TypeInv, NEW r \in Requests, NEW d \in ConnType, Become(r, d),
         UNCHANGED <<req, tree, data, owner, gone, fault>>
  PROVE  TypeInv'
BY DEF TypeInv, Become

(* ... and one that ends the process. *)
LEMMA CrashType ==
  ASSUME TypeInv, NEW w \in {"null stream", "broken pipe", "stray close"}, Crash(w),
         UNCHANGED <<req, gone>>
  PROVE  TypeInv'
BY DEF TypeInv, Crash, treeVars

LEMMA RespondType ==
  ASSUME TypeInv, NEW r \in Requests, NEW d \in ConnType, Respond(r, d), UNCHANGED <<req, gone>>
  PROVE  TypeInv'
BY BecomeType, CrashType DEF Respond, treeVars

LEMMA StepType ==
  ASSUME TypeInv, LocalInv, NEW r \in Requests, Step(r), UNCHANGED req
  PROVE  TypeInv'
<1> DEFINE c == conn[r]
<1>a. c \in ConnType /\ req[r] \in RequestType /\ Node(r) \in Nodes BY Request
<1> HIDE DEF c
<1>b. ASSUME NEW l \in Labels PROVE Goto(c, l) \in ConnType BY <1>a, GotoType
<1>e. Fail(c, 404) \in ConnType /\ Fail(c, 405) \in ConnType BY <1>a, FailType
<1> USE DEF treeVars, Only, At
<1>1. CASE SendError(r)
  <2>1. c.status \in Nat /\ c.then \in Labels BY <1>a DEF ConnType, Labels
  <2>2. Goto(Answer(PutLength(c, 1), c.status), c.then) \in ConnType
    BY <1>a, <2>1, PutLengthType, AnswerType, GotoType
  <2> QED BY <1>1, <2>2, RespondType, CrashType DEF SendError, c
<1>2. CASE StatGet(r)
  <2>1. IsFile(r) => data[tree[Node(r)]] \in Seq(Page)
    BY CellsArePage DEF IsFile, TypeInv
  <2>2. ASSUME NEW w \in Seq(Page) PROVE Goto([c EXCEPT !.want = w], "head") \in ConnType
    BY <1>a DEF ConnType, Goto, Labels
  <2>3. Goto(c, "list") \in ConnType BY <1>b DEF Labels
  <2> QED BY <1>2, <1>e, <2>1, <2>2, <2>3, BecomeType DEF StatGet, c
<1>3. CASE ListDir(r)
  <2>1. CASE NoTempFile
    <3>1. [Fail(c, 405) EXCEPT !.alone = FALSE] \in ConnType BY <1>e, AloneType
    <3> QED BY <1>3, <2>1, <3>1, BecomeType DEF ListDir, c
  <2>2. CASE ~NoTempFile /\ (Cardinality(Free) = 1 \/ ~IsDir(r))
    BY <1>3, <2>2, CrashType DEF ListDir
  <2>3. CASE ~NoTempFile /\ ~(Cardinality(Free) = 1 \/ ~IsDir(r))
    <3>1. Min(Free) \in Fds BY <2>3, FreeOne DEF NoTempFile
    <3>2. <<Listing>> \in Seq(Page) BY DEF Page
    <3>3. Goto([c EXCEPT !.want = <<Listing>>, !.file = Min(Free)], "head") \in ConnType
      BY <1>a, <3>1, <3>2 DEF Goto, ConnType, Labels
    <3> QED BY <1>3, <2>3, <3>3 DEF ListDir, c, Take, Become, TypeInv
  <2> QED BY <2>1, <2>2, <2>3
<1>4. CASE SendHead(r)
  <2>1. Len(c.want) \in Nat BY <1>a DEF ConnType
  <2>2. ASSUME NEW l \in Labels
        PROVE  Goto(Answer(PutLength(c, Len(c.want)), 200), l) \in ConnType
    BY <1>a, <2>1, PutLengthType, AnswerType, GotoType
  <2>3. {"close", "open", "send"} \subseteq Labels BY DEF Labels
  <2> QED BY <1>4, <2>2, <2>3, RespondType DEF SendHead, c
<1>5. CASE OpenGet(r)
  <2>1. CASE Found(r) /\ Free # {}
    <3>1. Min(Free) \in Fds /\ tree[Node(r)] \in Inodes \cup {Dir}
      BY <2>1, FreeOne, <1>a DEF Found, TypeInv
    <3>2. Goto([c EXCEPT !.file = Min(Free), !.ino = tree[Node(r)]], "send") \in ConnType
      BY <1>a, <3>1 DEF Goto, ConnType, Labels
    <3> QED BY <1>5, <2>1, <3>2 DEF OpenGet, c, Take, Become, TypeInv
  <2>2. CASE ~(Found(r) /\ Free # {}) /\ Copied(Len(c.want)) = 0
    BY <1>5, <1>b, <2>2, BecomeType DEF OpenGet, c, Labels
  <2>3. CASE ~(Found(r) /\ Free # {}) /\ Copied(Len(c.want)) # 0
    BY <1>5, <2>3, CrashType DEF OpenGet, c
  <2> QED BY <2>1, <2>2, <2>3
<1>6. CASE SendBody(r)
  <2> DEFINE source == IF c.ino = None THEN c.want ELSE data[c.ino]
             n == Len(c.body)
  <2>1. CASE n = Copied(Len(c.want)) \/ r \in gone \/ n >= Len(source)
    BY <1>6, <1>b, <2>1, BecomeType DEF SendBody, c, Labels
  <2>2. CASE ~(n = Copied(Len(c.want)) \/ r \in gone \/ n >= Len(source))
    <3> USE <2>2
    <3>1. c.ino # Dir /\ c.ino # None => data[c.ino] \in Seq(Page)
      BY <1>a, CellsArePage DEF TypeInv, ConnType
    <3>2. c.ino # Dir
      <4>1. c.want \in Seq(Page) /\ c.body \in Seq(Page) BY <1>a DEF ConnType
      <4>2. Len(c.body) <= Copied(Len(c.want)) BY <1>6 DEF LocalInv, LocalOK, BodyOK, SendBody, c
      <4>3. c.ino = Dir => Copied(Len(c.want)) = 0 BY <1>6 DEF SendBody, Spins, c
      <4> QED BY <2>2, <4>1, <4>2, <4>3
    <3>3. c.want \in Seq(Page) /\ c.body \in Seq(Page) BY <1>a DEF ConnType
    <3>4. source \in Seq(Page) BY <3>1, <3>2, <3>3
    <3> HIDE DEF source
    <3>5. source[n + 1] \in Page BY <3>3, <3>4
    <3>6. Append(c.body, source[n + 1]) \in Seq(Page) BY <3>3, <3>5
    <3>7. [c EXCEPT !.body = Append(@, source[n + 1])] \in ConnType BY <1>a, <3>6 DEF ConnType
    <3> QED BY <1>6, <2>2, <3>7, BecomeType DEF SendBody, c, source
  <2> QED BY <2>1, <2>2
<1>7. CASE StatDelete(r)
  <2>1. Goto(c, "rmdir") \in ConnType /\ Goto(c, "unlink") \in ConnType BY <1>b DEF Labels
  <2> QED BY <1>7, <1>e, <2>1, BecomeType DEF StatDelete, c
<1>8. ASSUME NEW l, NEW ok \in BOOLEAN, Remove(r, l, ok) PROVE TypeInv'
  <2>1. Goto(c, "answer") \in ConnType BY <1>b DEF Labels
  <2>2. conn' \in [Requests -> ConnType] BY <1>8, <1>e, <2>1 DEF Remove, Become, TypeInv, c
  <2> QED BY <1>8, <2>2 DEF Remove, TypeInv
<1>9. CASE Rmdir(r) BY <1>8, <1>9 DEF Rmdir
<1>10. CASE Unlink(r) BY <1>8, <1>10 DEF Unlink, IsFile
<1>11. CASE Mkdir(r)
  <2> DEFINE d == DirPath(r)[c.dirs + 1]
             dirs == IF NotADir(d) THEN Len(DirPath(r)) ELSE c.dirs + 1
             pc == IF NotADir(d) \/ c.dirs + 1 = Len(DirPath(r)) THEN "create" ELSE c.pc
  <2>1. DirPath(r) \in Seq(Nodes) BY Request DEF DirPath
  <2>2. dirs \in Nat BY <1>a, <2>1 DEF ConnType
  <2>6. pc \in Labels BY <1>a DEF ConnType, Labels
  <2>3. Become(r, [c EXCEPT !.dirs = dirs, !.pc = pc]) BY <1>11 DEF Mkdir, c
  <2>4. tree' \in [Nodes -> Inodes \cup {Absent, Dir}] BY <1>11 DEF Mkdir, TypeInv
  <2> HIDE DEF dirs, pc
  <2>5. [c EXCEPT !.dirs = dirs, !.pc = pc] \in ConnType BY <1>a, <2>2, <2>6 DEF ConnType
  <2>7. conn' \in [Requests -> ConnType] BY <2>3, <2>5 DEF Become, TypeInv
  <2> QED BY <1>11, <2>4, <2>7 DEF Mkdir, TypeInv
<1>12. CASE Create(r)
  <2> DEFINE ino == IF tree[Node(r)] = Absent THEN r ELSE tree[Node(r)]
             opened == [c EXCEPT !.file = Min(Free), !.ino = ino]
             ok == Reachable(Node(r)) /\ ~req[r].slash /\ tree[Node(r)] # Dir /\ Free # {}
  <2>1. CASE ok
    <3>1. Min(Free) \in Fds BY <2>1, FreeOne
    <3>2. ino \in Inodes BY <1>a, <2>1 DEF TypeInv, Inodes
    <3> HIDE DEF ino
    <3>3. opened \in ConnType BY <1>a, <3>1, <3>2 DEF ConnType
    <3> HIDE DEF opened
    <3>4. [Fail(opened, 411) EXCEPT !.then = "answer"] \in ConnType
      <4>1. Fail(opened, 411) \in ConnType BY <3>3, FailType
      <4> QED BY <4>1, ThenType
    <3>5. Goto(opened, "copy") \in ConnType BY <3>3, GotoType DEF Labels
    <3>6. PICK d \in ConnType : Become(r, d)
      BY <1>12, <2>1, <3>4, <3>5 DEF Create, c, opened, ino
    <3>7. tree' = [tree EXCEPT ![Node(r)] = ino] /\ data' = [data EXCEPT ![ino] = <<>>] /\ Take(r)
          /\ UNCHANGED fault
      BY <1>12, <2>1 DEF Create, ino
    <3>8. conn' \in [Requests -> ConnType] BY <3>6 DEF Become, TypeInv
    <3>9. data' \in [Inodes -> Seq(Cells)] /\ tree' \in [Nodes -> Inodes \cup {Absent, Dir}]
      <4>1. <<>> \in Seq(Cells) OBVIOUS
      <4> QED BY <3>2, <3>7, <4>1 DEF TypeInv
    <3> QED BY <1>12, <3>1, <3>7, <3>8, <3>9 DEF Create, Take, TypeInv
  <2>2. CASE ~ok
    <3>1. [Fail(c, 405) EXCEPT !.alone = @ /\ Free # {}] \in ConnType
      <4>1. Fail(c, 405) \in ConnType BY <1>e
      <4>2. (Fail(c, 405).alone /\ Free # {}) \in BOOLEAN OBVIOUS
      <4> QED BY <4>1, <4>2, AloneType
    <3> QED BY <1>12, <2>2, <3>1, BecomeType DEF Create, c
  <2> QED BY <2>1, <2>2
<1>13. CASE CopyBody(r)
  <2>1. CASE Only(r, Goto(c, "answer"))
    <3>1. Goto(c, "answer") \in ConnType BY <1>b DEF Labels
    <3> QED BY <1>13, <2>1, <3>1, BecomeType DEF CopyBody
  <2> DEFINE more == [c EXCEPT !.body = Append(@, r)]
  <2>2. ASSUME NEW k \in c.flushed .. Len(more.body),
               Flush(r, more, k), Become(r, [more EXCEPT !.flushed = k]), UNCHANGED <<owner, fault>>
        PROVE  TypeInv'
    <3>1. /\ Append(c.body, r) \in Seq(Page) /\ c.body \in Seq({r})
          /\ c.flushed \in Nat /\ c.flushed <= Len(c.body) /\ c.ino \in Inodes
      <4>1. c.body \in Seq(Page) /\ c.flushed \in Nat BY <1>a DEF ConnType
      <4>2. req[r].method \in Writers
        BY <1>13, Request DEF CopyBody, LocalInv, LocalOK, MethodOK, LabelsOf, Started, RequestType, Methods, Writers, c
      <4>3. c.body \in Seq({r}) /\ c.flushed <= Len(c.body) /\ c.ino \in Inodes
        BY <1>13, <4>2 DEF LocalInv, LocalOK, BodyOK, CopyBody, c
      <4> QED BY <4>1, <4>3 DEF Page, Cells
    <3>2. more \in ConnType /\ more.body = Append(c.body, r) /\ more.ino = c.ino
          /\ more.flushed = c.flushed
      BY <1>a, <3>1 DEF ConnType
    <3>3. k \in Nat /\ k <= Len(c.body) + 1 BY <3>1, <3>2
    <3> HIDE DEF more
    <3>4. [more EXCEPT !.flushed = k] \in ConnType BY <3>2, <3>3 DEF ConnType
    <3>5. SubSeq(more.body, more.flushed + 1, k) \in Seq(Cells)
      <4>1. Append(c.body, r) \in Seq(Cells) BY <3>1, OwnCells
      <4> QED BY <3>1, <3>2, <3>3, <4>1
    <3>6. data' \in [Inodes -> Seq(Cells)]
      BY <2>2, <3>1, <3>2, <3>3, <3>5, FlushType
    <3> QED BY <1>13, <2>2, <3>4, <3>6 DEF CopyBody, Flush, Become, TypeInv
  <2> QED BY <1>13, <2>1, <2>2 DEF CopyBody, c
<1>14. CASE DoneDelete(r) \/ DonePut(r) \/ DonePost(r)
  <2>1. PutLength(c, 0) \in ConnType BY <1>a, PutLengthType
  <2>2. ASSUME NEW d \in ConnType, NEW s \in Nat
        PROVE  Goto(Answer(d, s), "close") \in ConnType
    BY AnswerType, GotoType DEF Labels
  <2> QED BY <1>14, <1>a, <2>1, <2>2, RespondType DEF DoneDelete, DonePut, DonePost, Done, c
<1>15. CASE Close(r)
  <2>1. Goto([c EXCEPT !.file = None], "close again") \in ConnType
    BY <1>a DEF ConnType, Goto, Labels
  <2>2. conn' \in [Requests -> ConnType] BY <1>15, <2>1 DEF Close, Become, TypeInv, c
  <2>3. owner' \in [Fds -> Requests \cup {None}] BY <1>15 DEF Close, GiveBack, TypeInv
  <2>4. data' \in [Inodes -> Seq(Cells)] /\ tree' = tree
    <3>1. CASE c.ino # None /\ req[r].method \in Writers
      <4>1. c.ino \in Inodes /\ c.body \in Seq({r}) /\ c.flushed \in Nat
        BY <1>a, <3>1 DEF LocalInv, LocalOK, BodyOK, ConnType, c
      <4>2. c.body \in Seq(Cells) BY <4>1, OwnCells
      <4>3. SubSeq(c.body, c.flushed + 1, Len(c.body)) \in Seq(Cells) BY <4>1, <4>2
      <4>4. Flush(r, c, Len(c.body)) BY <1>15, <3>1, Zenon DEF Close, c
      <4>5. Len(c.body) \in Nat BY <4>1
      <4> QED BY <4>1, <4>3, <4>4, <4>5, FlushType
    <3> QED BY <1>15, <3>1 DEF Close, TypeInv, c
  <2> QED BY <1>15, <2>2, <2>3, <2>4 DEF Close, TypeInv
<1>16. CASE CloseAgain(r)
  <2>1. Goto(c, "done") \in ConnType BY <1>b DEF Labels
  <2> QED BY <1>16, <2>1, BecomeType, CrashType DEF CloseAgain, c
<1>17. CASE ReturnEarly(r)
  <2>1. Goto(c, "done") \in ConnType BY <1>b DEF Labels
  <2> QED BY <1>17, <2>1, BecomeType DEF ReturnEarly, c
<1> QED BY <1>1, <1>2, <1>3, <1>4, <1>5, <1>6, <1>7, <1>9, <1>10, <1>11, <1>12, <1>13, <1>14,
           <1>15, <1>16, <1>17 DEF Step

-----------------------------------------------------------------------------
(* What a request remembers. *)

LEMMA LocalPrime ==
  ASSUME NEW r \in Requests, UNCHANGED req
  PROVE  LocalOK(r, conn[r])' <=> LocalOK(r, conn'[r])
<1>1. MethodOK(r, conn[r])' <=> MethodOK(r, conn'[r])
  BY DEF MethodOK, LabelsOf, LeftOpen, Lengthless
<1>2. SockOK(r, conn[r])' <=> SockOK(r, conn'[r]) BY DEF SockOK, LeftOpen
<1>3. AnswerOK(r, conn[r])' <=> AnswerOK(r, conn'[r]) BY DEF AnswerOK, Lengthless
<1>4. BodyOK(r, conn[r])' <=> BodyOK(r, conn'[r]) BY DEF BodyOK, DirPath, Node
<1> QED BY <1>1, <1>2, <1>3, <1>4 DEF LocalOK

SameWork(c, d) ==
  /\ d.file = c.file /\ d.ino = c.ino /\ d.body = c.body /\ d.want = c.want
  /\ d.flushed = c.flushed /\ d.sock = c.sock /\ d.dirs = c.dirs
  /\ d.answers = c.answers /\ d.lens = c.lens
SameButPc(c, d) == SameWork(c, d) /\ d.then = c.then /\ d.alone = c.alone /\ d.due = c.due

LEMMA Moves ==
  ASSUME NEW c \in ConnType
  PROVE  /\ \A l : Goto(c, l).pc = l /\ Goto(c, l).status = c.status /\ SameButPc(c, Goto(c, l))
         /\ \A s : Fail(c, s).pc = "error" /\ Fail(c, s).status = s /\ SameButPc(c, Fail(c, s))
<1>1. ASSUME NEW l
      PROVE  Goto(c, l).pc = l /\ Goto(c, l).status = c.status /\ SameButPc(c, Goto(c, l))
  BY DEF Goto, ConnType, SameButPc, SameWork
<1>2. ASSUME NEW s
      PROVE  Fail(c, s).pc = "error" /\ Fail(c, s).status = s /\ SameButPc(c, Fail(c, s))
  BY DEF Fail, ConnType, SameButPc, SameWork
<1> QED BY <1>1, <1>2

LEMMA StepLocal ==
  ASSUME TypeInv, LocalInv, NEW r \in Requests, Step(r), UNCHANGED req, fault' = "none"
  PROVE  LocalOK(r, conn'[r])
<1> DEFINE c == conn[r]
<1>a. c \in ConnType /\ req[r] \in RequestType /\ LocalOK(r, c) BY Request DEF LocalInv
<1> HIDE DEF c
<1> USE DEF treeVars, Only, At, Started, Opening, LabelsOf, LeftOpen, Lengthless, Writers
<1>b. ASSUME NEW d, Become(r, d), LocalOK(r, d) PROVE LocalOK(r, conn'[r])
  BY <1>b DEF Become, TypeInv
<1>c. c.answers \in Seq(Answers) /\ c.lens \in Seq(Nat) /\ c.want \in Seq(Page)
      /\ c.body \in Seq(Page) /\ c.flushed \in Nat /\ c.ino \in Inodes \cup {None, Dir}
  BY <1>a DEF ConnType
<1>d. LeftOpen(r) \/ LabelsOf(r) # {} \/ req[r].method = "other"
  BY <1>a DEF RequestType, Methods
<1>1. CASE SendError(r)
  <2> DEFINE d == Goto(Answer(PutLength(c, 1), c.status), c.then)
  <2>1. Become(r, d) /\ c.pc = "error"
    BY <1>1 DEF SendError, Crash, Respond, c
  <2>2. c.then \in {"close", "return", "answer"} BY <1>a DEF ConnType
  <2>3. /\ d.pc = c.then /\ d.file = c.file /\ d.ino = c.ino /\ d.body = c.body
        /\ d.flushed = c.flushed /\ d.sock = c.sock /\ d.then = c.then
        /\ d.answers = Append(c.answers, [status |-> c.status, lens |-> Append(c.lens, 1)])
    BY <1>a DEF Goto, Answer, PutLength, ConnType
  <2>4. Len(d.answers) = 1 /\ Len(d.answers[1].lens) = 1
    <3>1. c.answers = <<>> /\ c.lens = <<>> BY <1>a, <2>1 DEF LocalOK, AnswerOK
    <3> QED BY <2>3, <3>1
  <2> HIDE DEF d
  <2>5. MethodOK(r, d) BY <1>a, <1>d, <2>1, <2>2, <2>3 DEF LocalOK, MethodOK
  <2>6. SockOK(r, d) BY <1>a, <2>1, <2>2, <2>3 DEF LocalOK, MethodOK, SockOK
  <2>7. AnswerOK(r, d)
    <3>1. c.then = "answer" => Lengthless(r) BY <1>a, <2>1 DEF LocalOK, MethodOK
    <3>2. d.pc \in {"close", "return", "answer"} BY <2>2, <2>3
    <3>3. Len(d.answers[1].lens) <= 1 BY <2>4
    <3> QED BY <2>3, <2>4, <3>1, <3>2, <3>3 DEF AnswerOK
  <2>8. BodyOK(r, d) BY <1>a, <2>1, <2>2, <2>3 DEF LocalOK, MethodOK, BodyOK
  <2> QED BY <1>b, <2>1, <2>5, <2>6, <2>7, <2>8 DEF LocalOK
<1>2. CASE StatGet(r)
  <2>1. ASSUME NEW w, NEW d, d = Goto([c EXCEPT !.want = w], "head") PROVE LocalOK(r, d)
    <3>1. /\ d.pc = "head" /\ d.file = c.file /\ d.ino = c.ino /\ d.body = c.body
          /\ d.flushed = c.flushed /\ d.sock = c.sock /\ d.then = c.then
          /\ d.answers = c.answers /\ d.lens = c.lens
      BY <1>a, <2>1 DEF Goto, ConnType
    <3> QED BY <1>2, <1>a, <3>1 DEF StatGet, c, LocalOK, MethodOK, SockOK, AnswerOK, BodyOK
  <2>2. ASSUME NEW d, d \in {Goto(c, "list"), Fail(c, 404)} PROVE LocalOK(r, d)
    <3>1. d.pc \in {"list", "error"} /\ SameButPc(c, d) BY <1>a, <2>2, Moves
    <3>2. c.pc = "stat" /\ req[r].method \in {"GET", "HEAD"} BY <1>2 DEF StatGet, c
    <3>3. MethodOK(r, d) BY <1>a, <3>1, <3>2 DEF LocalOK, MethodOK, SameButPc, SameWork
    <3>4. SockOK(r, d) BY <1>a, <3>1, <3>2 DEF LocalOK, SockOK, SameButPc, SameWork
    <3>5. AnswerOK(r, d) BY <1>a, <3>1, <3>2 DEF LocalOK, AnswerOK, SameButPc, SameWork
    <3>6. BodyOK(r, d) BY <1>a, <3>1, <3>2 DEF LocalOK, BodyOK, SameButPc, SameWork
    <3> QED BY <3>3, <3>4, <3>5, <3>6 DEF LocalOK
  <2> QED BY <1>2, <1>b, <2>1, <2>2 DEF StatGet, c
<1>3. CASE ListDir(r)
  <2>1. ASSUME NEW d, d = [Fail(c, 405) EXCEPT !.alone = FALSE] PROVE LocalOK(r, d)
    <3>1. /\ d.pc = "error" /\ d.file = c.file /\ d.ino = c.ino /\ d.body = c.body
          /\ d.flushed = c.flushed /\ d.sock = c.sock /\ d.then = c.then
          /\ d.answers = c.answers /\ d.lens = c.lens
      BY <1>a, <2>1 DEF Fail, ConnType
    <3> QED BY <1>3, <1>a, <3>1 DEF ListDir, c, LocalOK, MethodOK, SockOK, AnswerOK, BodyOK
  <2>2. ASSUME NEW f, NEW d, d = Goto([c EXCEPT !.want = <<Listing>>, !.file = f], "head")
        PROVE  LocalOK(r, d)
    <3>1. /\ d.pc = "head" /\ d.ino = c.ino /\ d.body = c.body
          /\ d.flushed = c.flushed /\ d.sock = c.sock /\ d.then = c.then
          /\ d.answers = c.answers /\ d.lens = c.lens
      BY <1>a, <2>2 DEF Goto, ConnType
    <3> QED BY <1>3, <1>a, <3>1 DEF ListDir, c, LocalOK, MethodOK, SockOK, AnswerOK, BodyOK
  <2> QED BY <1>3, <1>b, <2>1, <2>2 DEF ListDir, Crash, c
<1>4. CASE SendHead(r)
  <2> DEFINE l == IF req[r].method = "HEAD" THEN "close" ELSE IF c.file = None THEN "open" ELSE "send"
             d == Goto(Answer(PutLength(c, Len(c.want)), 200), l)
  <2>1. Become(r, d) /\ c.pc = "head"
    BY <1>4 DEF SendHead, Crash, Respond, c
  <2>3. /\ d.pc = l /\ d.file = c.file /\ d.ino = c.ino /\ d.body = c.body /\ d.want = c.want
        /\ d.flushed = c.flushed /\ d.sock = c.sock /\ d.then = c.then
        /\ d.answers = Append(c.answers, [status |-> 200, lens |-> Append(c.lens, Len(c.want))])
    BY <1>a DEF Goto, Answer, PutLength, ConnType
  <2>4. Len(d.answers) = 1 /\ Len(d.answers[1].lens) = 1
    <3>1. c.answers = <<>> /\ c.lens = <<>> BY <1>a, <2>1 DEF LocalOK, AnswerOK
    <3> QED BY <2>3, <3>1
  <2> HIDE DEF d
  <2>5. MethodOK(r, d) BY <1>a, <2>1, <2>3 DEF LocalOK, MethodOK
  <2>6. SockOK(r, d) BY <1>a, <2>1, <2>3 DEF LocalOK, MethodOK, SockOK
  <2>7. AnswerOK(r, d) BY <2>3, <2>4 DEF AnswerOK
  <2>8. BodyOK(r, d)
    <3>1. Len(c.want) \in Nat BY <1>c
    <3>2. Copied(Len(c.want)) \in Nat BY <3>1, CopiedIs
    <3> QED BY <1>a, <1>c, <2>1, <2>3, <3>2 DEF LocalOK, MethodOK, BodyOK
  <2> QED BY <1>b, <2>1, <2>5, <2>6, <2>7, <2>8 DEF LocalOK
<1>5. CASE OpenGet(r)
  <2>1. ASSUME NEW f, NEW i, NEW d, d = Goto([c EXCEPT !.file = f, !.ino = i], "send")
        PROVE  LocalOK(r, d)
    <3>1. /\ d.pc = "send" /\ d.ino = i /\ d.body = c.body /\ d.want = c.want
          /\ d.flushed = c.flushed /\ d.sock = c.sock /\ d.then = c.then
          /\ d.answers = c.answers
      BY <1>a, <2>1 DEF Goto, ConnType
    <3>2. c.pc = "open" BY <1>5 DEF OpenGet, c
    <3>3. MethodOK(r, d) BY <1>a, <3>1, <3>2 DEF LocalOK, MethodOK
    <3>4. SockOK(r, d) BY <1>a, <3>1, <3>2 DEF LocalOK, MethodOK, SockOK
    <3>5. AnswerOK(r, d) BY <1>a, <3>1, <3>2 DEF LocalOK, AnswerOK
    <3>6. BodyOK(r, d)
      <4>1. req[r].method = "GET" /\ c.body = <<>> BY <1>a, <3>2 DEF LocalOK, MethodOK, BodyOK
      <4>2. Len(c.body) <= Copied(Len(c.want)) BY <1>c, <4>1, CopiedIs
      <4> QED BY <3>1, <4>1, <4>2 DEF BodyOK
    <3> QED BY <3>3, <3>4, <3>5, <3>6 DEF LocalOK
  <2>2. ASSUME NEW d, d = Goto(c, "close") PROVE LocalOK(r, d)
    <3>1. d.pc = "close" /\ SameButPc(c, d) BY <1>a, <2>2, Moves
    <3>2. c.pc = "open" BY <1>5 DEF OpenGet, c
    <3>3. MethodOK(r, d) BY <1>a, <3>1, <3>2 DEF LocalOK, MethodOK, SameButPc, SameWork
    <3>4. SockOK(r, d) BY <1>a, <3>1, <3>2 DEF LocalOK, SockOK, SameButPc, SameWork
    <3>5. AnswerOK(r, d) BY <1>a, <3>1, <3>2 DEF LocalOK, AnswerOK, SameButPc, SameWork
    <3>6. BodyOK(r, d) BY <1>a, <3>1, <3>2 DEF LocalOK, BodyOK, SameButPc, SameWork
    <3> QED BY <3>3, <3>4, <3>5, <3>6 DEF LocalOK
  <2> QED BY <1>5, <1>b, <2>1, <2>2 DEF OpenGet, Crash, c
<1>6. CASE SendBody(r)
  <2>1. ASSUME NEW d, d \in {Goto(c, "close")} PROVE LocalOK(r, d)
    <3>1. d.pc \in {"close"} /\ SameButPc(c, d) BY <1>a, <2>1, Moves
    <3>2. c.pc = "send" BY <1>6 DEF SendBody, c
    <3>3. MethodOK(r, d) BY <1>a, <3>1, <3>2 DEF LocalOK, MethodOK, SameButPc, SameWork
    <3>4. SockOK(r, d) BY <1>a, <3>1, <3>2 DEF LocalOK, MethodOK, SockOK, SameButPc, SameWork
    <3>5. AnswerOK(r, d) BY <1>a, <3>1, <3>2 DEF LocalOK, MethodOK, AnswerOK, SameButPc, SameWork
    <3>6. BodyOK(r, d) BY <1>a, <3>1, <3>2 DEF LocalOK, MethodOK, BodyOK, SameButPc, SameWork
    <3> QED BY <3>3, <3>4, <3>5, <3>6 DEF LocalOK
  <2>2. ASSUME NEW x, NEW d, d = [c EXCEPT !.body = Append(@, x)], Len(c.body) # Copied(Len(c.want))
        PROVE  LocalOK(r, d)
    <3>1. /\ d.pc = "send" /\ d.ino = c.ino /\ d.body = Append(c.body, x) /\ d.want = c.want
          /\ d.flushed = c.flushed /\ d.sock = c.sock /\ d.then = c.then /\ d.file = c.file
          /\ d.answers = c.answers
      BY <1>6, <1>a, <2>2 DEF SendBody, c, ConnType
    <3>2. c.pc = "send" BY <1>6 DEF SendBody, c
    <3>3. MethodOK(r, d) BY <1>a, <3>1, <3>2 DEF LocalOK, MethodOK
    <3>4. SockOK(r, d) BY <1>a, <3>1, <3>2 DEF LocalOK, MethodOK, SockOK
    <3>5. AnswerOK(r, d) BY <1>a, <3>1, <3>2 DEF LocalOK, AnswerOK
    <3>6. BodyOK(r, d)
      <4>1. req[r].method = "GET" /\ Len(c.body) <= Copied(Len(c.want)) BY <1>a, <3>2 DEF LocalOK, MethodOK, BodyOK
      <4>3. Copied(Len(c.want)) \in Nat
        <5>1. Len(c.want) \in Nat BY <1>c
        <5> QED BY <5>1, CopiedIs
      <4>2. Len(Append(c.body, x)) <= Copied(Len(c.want)) BY <1>c, <2>2, <4>1, <4>3
      <4> QED BY <3>1, <4>1, <4>2 DEF BodyOK
    <3> QED BY <3>3, <3>4, <3>5, <3>6 DEF LocalOK
  <2> QED BY <1>6, <1>b, <2>1, <2>2 DEF SendBody, c
<1>7. CASE StatDelete(r)
  <2>1. ASSUME NEW d, d \in {Goto(c, "rmdir"), Goto(c, "unlink"), Fail(c, 404)} PROVE LocalOK(r, d)
    <3>1. d.pc \in {"rmdir", "unlink", "error"} /\ SameButPc(c, d) BY <1>a, <2>1, Moves
    <3>2. c.pc = "stat" /\ req[r].method = "DELETE" BY <1>7 DEF StatDelete, c
    <3>3. MethodOK(r, d) BY <1>a, <3>1, <3>2 DEF LocalOK, MethodOK, SameButPc, SameWork
    <3>4. SockOK(r, d) BY <1>a, <3>1, <3>2 DEF LocalOK, MethodOK, SockOK, SameButPc, SameWork
    <3>5. AnswerOK(r, d) BY <1>a, <3>1, <3>2 DEF LocalOK, MethodOK, AnswerOK, SameButPc, SameWork
    <3>6. BodyOK(r, d) BY <1>a, <3>1, <3>2 DEF LocalOK, MethodOK, BodyOK, SameButPc, SameWork
    <3> QED BY <3>3, <3>4, <3>5, <3>6 DEF LocalOK
  <2> QED BY <1>7, <1>b, <2>1 DEF StatDelete, c
<1>8. ASSUME NEW l \in {"rmdir", "unlink"}, NEW ok, Remove(r, l, ok) PROVE LocalOK(r, conn'[r])
  <2>1. ASSUME NEW d, d \in {Goto(c, "answer"), Fail(c, 405)} PROVE LocalOK(r, d)
    <3>1. d.pc \in {"answer", "error"} /\ SameButPc(c, d) BY <1>a, <2>1, Moves
    <3>2. c.pc \in {"rmdir", "unlink"} BY <1>8 DEF Remove, c
    <3>7. req[r].method = "DELETE" BY <1>a, <3>2 DEF LocalOK, MethodOK
    <3>3. MethodOK(r, d) BY <1>a, <3>1, <3>2, <3>7 DEF LocalOK, MethodOK, SameButPc, SameWork
    <3>4. SockOK(r, d) BY <1>a, <3>1, <3>2 DEF LocalOK, MethodOK, SockOK, SameButPc, SameWork
    <3>5. AnswerOK(r, d) BY <1>a, <3>1, <3>2 DEF LocalOK, MethodOK, AnswerOK, SameButPc, SameWork
    <3>6. BodyOK(r, d) BY <1>a, <3>1, <3>2, <3>7 DEF LocalOK, MethodOK, BodyOK, SameButPc, SameWork
    <3> QED BY <3>3, <3>4, <3>5, <3>6 DEF LocalOK
  <2> QED BY <1>8, <1>b, <2>1 DEF Remove, c
<1>9. CASE Rmdir(r) BY <1>8, <1>9 DEF Rmdir
<1>10. CASE Unlink(r) BY <1>8, <1>10 DEF Unlink
<1>11. CASE Mkdir(r)
  <2>1. ASSUME NEW k, NEW l \in {"create", "mkdirs"}, NEW d, d = [c EXCEPT !.dirs = k, !.pc = l],
               l = "mkdirs" => k < Len(DirPath(r))
        PROVE  LocalOK(r, d)
    <3>1. /\ d.pc \in {"create", "mkdirs"} /\ d.pc = l /\ d.dirs = k /\ d.ino = c.ino /\ d.body = c.body /\ d.want = c.want
          /\ d.flushed = c.flushed /\ d.sock = c.sock /\ d.then = c.then /\ d.file = c.file
          /\ d.answers = c.answers /\ d.lens = c.lens
      BY <1>a, <2>1 DEF ConnType
    <3>2. c.pc = "mkdirs" BY <1>11 DEF Mkdir, c
    <3>3. MethodOK(r, d) BY <1>a, <3>1, <3>2 DEF LocalOK, MethodOK
    <3>4. SockOK(r, d) BY <1>a, <3>1, <3>2 DEF LocalOK, MethodOK, SockOK
    <3>5. AnswerOK(r, d) BY <1>a, <3>1, <3>2 DEF LocalOK, MethodOK, AnswerOK
    <3>6. BodyOK(r, d) BY <1>a, <2>1, <3>1, <3>2 DEF LocalOK, MethodOK, BodyOK
    <3> QED BY <3>3, <3>4, <3>5, <3>6 DEF LocalOK
  <2> DEFINE n == DirPath(r)[c.dirs + 1]
             k == IF NotADir(n) THEN Len(DirPath(r)) ELSE c.dirs + 1
             l == IF NotADir(n) \/ c.dirs + 1 = Len(DirPath(r)) THEN "create" ELSE c.pc
  <2>2. Become(r, [c EXCEPT !.dirs = k, !.pc = l]) /\ c.pc = "mkdirs" BY <1>11 DEF Mkdir, c
  <2>3. c.dirs < Len(DirPath(r)) /\ c.dirs \in Nat /\ Len(DirPath(r)) \in Nat
    <3>1. DirPath(r) \in Seq(Nodes) BY Request DEF DirPath
    <3>2. c.dirs < Len(DirPath(r)) BY <1>a, <2>2 DEF LocalOK, BodyOK
    <3>3. c.dirs \in Nat BY <1>a DEF ConnType
    <3> QED BY <3>1, <3>2, <3>3
  <2>4. l \in {"create", "mkdirs"} /\ (l = "mkdirs" => k < Len(DirPath(r))) BY <2>2, <2>3
  <2> HIDE DEF k, l
  <2> QED BY <1>b, <2>1, <2>2, <2>4
<1>12. CASE Create(r)
  <2>1. ASSUME NEW f, NEW i \in Inodes, NEW d, d = [c EXCEPT !.file = f, !.ino = i]
        PROVE  /\ Lengthless(r) => LocalOK(r, [Fail(d, 411) EXCEPT !.then = "answer"])
               /\ ~Lengthless(r) => LocalOK(r, Goto(d, "copy"))
    <3>a. c.pc = "create" BY <1>12 DEF Create, c
    <3>b. req[r].method \in Writers BY <1>a, <3>a DEF LocalOK, MethodOK
    <3>1. ASSUME Lengthless(r), NEW e, e = [Fail(d, 411) EXCEPT !.then = "answer"]
          PROVE  LocalOK(r, e)
      <4>1. /\ e.pc = "error" /\ e.ino = i /\ e.body = c.body /\ e.want = c.want
            /\ e.flushed = c.flushed /\ e.sock = c.sock /\ e.then = "answer"
            /\ e.answers = c.answers /\ e.lens = c.lens
        BY <1>a, <2>1, <3>1 DEF Fail, ConnType
      <4>2. MethodOK(r, e) BY <1>a, <3>a, <3>b, <3>1, <4>1 DEF LocalOK, MethodOK
      <4>3. SockOK(r, e) BY <1>a, <3>a, <3>b, <4>1 DEF LocalOK, MethodOK, SockOK
      <4>4. AnswerOK(r, e) BY <1>a, <3>a, <4>1 DEF LocalOK, AnswerOK
      <4>5. BodyOK(r, e) BY <1>a, <3>a, <3>b, <4>1 DEF LocalOK, BodyOK
      <4> QED BY <4>2, <4>3, <4>4, <4>5 DEF LocalOK
    <3>2. ASSUME ~Lengthless(r), NEW e, e = Goto(d, "copy") PROVE LocalOK(r, e)
      <4>1. /\ e.pc = "copy" /\ e.ino = i /\ e.body = c.body /\ e.want = c.want
            /\ e.flushed = c.flushed /\ e.sock = c.sock /\ e.then = c.then
            /\ e.answers = c.answers /\ e.lens = c.lens
        BY <1>a, <2>1, <3>2 DEF Goto, ConnType
      <4>2. MethodOK(r, e) BY <1>a, <3>a, <3>b, <3>2, <4>1 DEF LocalOK, MethodOK
      <4>3. SockOK(r, e) BY <1>a, <3>a, <3>b, <4>1 DEF LocalOK, MethodOK, SockOK
      <4>4. AnswerOK(r, e) BY <1>a, <3>a, <4>1 DEF LocalOK, AnswerOK
      <4>5. BodyOK(r, e) BY <1>a, <3>a, <3>b, <4>1 DEF LocalOK, BodyOK
      <4> QED BY <4>2, <4>3, <4>4, <4>5 DEF LocalOK
    <3> QED BY <3>1, <3>2
  <2>2. ASSUME NEW b, NEW d, d = [Fail(c, 405) EXCEPT !.alone = b] PROVE LocalOK(r, d)
    <3>1. /\ d.pc = "error" /\ d.file = c.file /\ d.ino = c.ino /\ d.body = c.body
          /\ d.flushed = c.flushed /\ d.sock = c.sock /\ d.then = c.then
          /\ d.answers = c.answers /\ d.lens = c.lens
      BY <1>a, <2>2 DEF Fail, ConnType
    <3>2. c.pc = "create" BY <1>12 DEF Create, c
    <3>3. MethodOK(r, d) BY <1>a, <3>1, <3>2 DEF LocalOK, MethodOK
    <3>4. SockOK(r, d) BY <1>a, <3>1, <3>2 DEF LocalOK, MethodOK, SockOK
    <3>5. AnswerOK(r, d) BY <1>a, <3>1, <3>2 DEF LocalOK, MethodOK, AnswerOK
    <3>6. BodyOK(r, d) BY <1>a, <3>1, <3>2 DEF LocalOK, MethodOK, BodyOK
    <3> QED BY <3>3, <3>4, <3>5, <3>6 DEF LocalOK
  <2>3. Free # {} /\ Reachable(Node(r)) /\ ~req[r].slash /\ tree[Node(r)] # Dir =>
          (IF tree[Node(r)] = Absent THEN r ELSE tree[Node(r)]) \in Inodes
    BY Request DEF TypeInv, Inodes
  <2> DEFINE i == IF tree[Node(r)] = Absent THEN r ELSE tree[Node(r)]
             d == [c EXCEPT !.file = Min(Free), !.ino = i]
             e == IF Lengthless(r) THEN [Fail(d, 411) EXCEPT !.then = "answer"] ELSE Goto(d, "copy")
  <2>4. CASE Free # {} /\ Reachable(Node(r)) /\ ~req[r].slash /\ tree[Node(r)] # Dir
    <3>1. Become(r, e) BY <1>12, <2>4 DEF Create, c
    <3>2. i \in Inodes BY <2>3, <2>4
    <3> HIDE DEF i, d
    <3>3. /\ Lengthless(r) => LocalOK(r, [Fail(d, 411) EXCEPT !.then = "answer"])
          /\ ~Lengthless(r) => LocalOK(r, Goto(d, "copy"))
      BY <2>1, <3>2 DEF d
    <3>4. LocalOK(r, e) BY <3>3
    <3> QED BY <1>b, <3>1, <3>4
  <2>5. CASE ~(Free # {} /\ Reachable(Node(r)) /\ ~req[r].slash /\ tree[Node(r)] # Dir)
    BY <1>12, <1>b, <2>2, <2>5, SMTT(30) DEF Create, c
  <2> QED BY <2>4, <2>5
<1>13. CASE CopyBody(r)
  <2>1. ASSUME NEW d, d \in {Goto(c, "answer")} PROVE LocalOK(r, d)
    <3>1. d.pc \in {"answer"} /\ SameButPc(c, d) BY <1>a, <2>1, Moves
    <3>2. c.pc = "copy" BY <1>13 DEF CopyBody, c
    <3>3. MethodOK(r, d) BY <1>a, <3>1, <3>2 DEF LocalOK, MethodOK, SameButPc, SameWork
    <3>4. SockOK(r, d) BY <1>a, <3>1, <3>2 DEF LocalOK, MethodOK, SockOK, SameButPc, SameWork
    <3>5. AnswerOK(r, d) BY <1>a, <3>1, <3>2 DEF LocalOK, MethodOK, AnswerOK, SameButPc, SameWork
    <3>6. BodyOK(r, d) BY <1>a, <3>1, <3>2 DEF LocalOK, MethodOK, BodyOK, SameButPc, SameWork
    <3> QED BY <3>3, <3>4, <3>5, <3>6 DEF LocalOK
  <2>2. ASSUME NEW k, NEW d, d = [[c EXCEPT !.body = Append(@, r)] EXCEPT !.flushed = k],
               k \in c.flushed .. Len(Append(c.body, r))
        PROVE  LocalOK(r, d)
    <3>1. /\ d.pc = c.pc /\ d.file = c.file /\ d.ino = c.ino /\ d.body = Append(c.body, r)
          /\ d.flushed = k /\ d.sock = c.sock /\ d.then = c.then /\ d.want = c.want
          /\ d.answers = c.answers /\ d.lens = c.lens
      BY <1>a, <2>2 DEF ConnType
    <3>2. c.pc = "copy" BY <1>13 DEF CopyBody, c
    <3>7. req[r].method \in Writers BY <1>a, <3>2 DEF LocalOK, MethodOK
    <3>8. /\ c.body \in Seq({r}) /\ c.flushed <= Len(c.body) /\ c.ino \in Inodes
          /\ Append(c.body, r) \in Seq({r})
      <4>1. c.body \in Seq({r}) /\ c.flushed <= Len(c.body) /\ c.ino \in Inodes
        BY <1>a, <3>2, <3>7 DEF LocalOK, BodyOK
      <4> QED BY <4>1
    <3>9. k \in Nat /\ k <= Len(Append(c.body, r)) BY <1>c, <2>2, <3>8
    <3>3. MethodOK(r, d) BY <1>a, <3>1, <3>2, <3>7 DEF LocalOK, MethodOK
    <3>4. SockOK(r, d) BY <1>a, <3>1, <3>2, <3>7 DEF LocalOK, MethodOK, SockOK
    <3>5. AnswerOK(r, d) BY <1>a, <3>1, <3>2 DEF LocalOK, AnswerOK
    <3>6. BodyOK(r, d) BY <3>1, <3>2, <3>7, <3>8, <3>9 DEF BodyOK
    <3> QED BY <3>3, <3>4, <3>5, <3>6 DEF LocalOK
  <2>3. CASE Only(r, Goto(c, "answer")) BY <1>b, <2>1, <2>3
  <2>4. ASSUME NEW k \in c.flushed .. Len([c EXCEPT !.body = Append(@, r)].body),
               Become(r, [[c EXCEPT !.body = Append(@, r)] EXCEPT !.flushed = k])
        PROVE  LocalOK(r, conn'[r])
    <3>1. [c EXCEPT !.body = Append(@, r)].body = Append(c.body, r) BY <1>a DEF ConnType
    <3> QED BY <1>b, <2>2, <2>4, <3>1
  <2> QED BY <1>13, <2>3, <2>4 DEF CopyBody, c
<1>14. ASSUME NEW e \in {c, PutLength(c, 0)}, NEW s, Respond(r, Goto(Answer(e, s), "close")),
              c.pc = "answer"
       PROVE  LocalOK(r, conn'[r])
  <2> DEFINE d == Goto(Answer(e, s), "close")
  <2>1. Become(r, d) BY <1>14 DEF Respond, Crash
  <2>2. /\ d.pc = "close" /\ d.file = c.file /\ d.ino = c.ino /\ d.body = c.body
        /\ d.flushed = c.flushed /\ d.sock = c.sock /\ d.then = c.then
        /\ \/ d.answers = Append(c.answers, [status |-> s, lens |-> c.lens])
           \/ d.answers = Append(c.answers, [status |-> s, lens |-> Append(c.lens, 0)])
    BY <1>a, <1>14 DEF Goto, Answer, PutLength, ConnType
  <2>3. Lengthless(r) \/ (Len(d.answers) = 1 /\ Len(d.answers[1].lens) <= 1)
    <3>1. Lengthless(r) \/ (c.answers = <<>> /\ c.lens = <<>>) BY <1>a, <1>14 DEF LocalOK, AnswerOK
    <3>2. ASSUME c.answers = <<>>, c.lens = <<>>
          PROVE  Len(d.answers) = 1 /\ d.answers[1].lens \in {<<>>, <<0>>}
      BY <2>2, <3>2
    <3>3. Len(<<>>) <= 1 /\ Len(<<0>>) <= 1 OBVIOUS
    <3> QED BY <3>1, <3>2, <3>3
  <2> HIDE DEF d
  <2>4. MethodOK(r, d) BY <1>a, <1>14, <2>2 DEF LocalOK, MethodOK
  <2>5. SockOK(r, d) BY <1>a, <1>14, <2>2 DEF LocalOK, MethodOK, SockOK
  <2>6. AnswerOK(r, d) BY <2>2, <2>3 DEF AnswerOK
  <2>7. BodyOK(r, d) BY <1>a, <1>14, <2>2 DEF LocalOK, BodyOK
  <2> QED BY <1>b, <2>1, <2>4, <2>5, <2>6, <2>7 DEF LocalOK
<1>15. CASE Close(r)
  <2>1. ASSUME NEW d, d = Goto([c EXCEPT !.file = None], "close again") PROVE LocalOK(r, d)
    <3>1. /\ d.pc = "close again" /\ d.file = None /\ d.ino = c.ino /\ d.body = c.body
          /\ d.flushed = c.flushed /\ d.sock = c.sock /\ d.then = c.then
          /\ d.answers = c.answers /\ d.lens = c.lens
      BY <1>a, <2>1 DEF Goto, ConnType
    <3>2. c.pc = "close" BY <1>15 DEF Close, c
    <3>3. MethodOK(r, d) BY <1>a, <3>1, <3>2 DEF LocalOK, MethodOK
    <3>4. SockOK(r, d) BY <1>a, <3>1, <3>2 DEF LocalOK, MethodOK, SockOK
    <3>5. AnswerOK(r, d) BY <1>a, <3>1, <3>2 DEF LocalOK, MethodOK, AnswerOK
    <3>6. BodyOK(r, d) BY <1>a, <3>1, <3>2 DEF LocalOK, MethodOK, BodyOK
    <3> QED BY <3>3, <3>4, <3>5, <3>6 DEF LocalOK
  <2> QED BY <1>15, <1>b, <2>1 DEF Close, c
<1>16. CASE CloseAgain(r)
  <2>1. ASSUME NEW d, d \in {Goto(c, "done")} PROVE LocalOK(r, d)
    <3>1. d.pc \in {"done"} /\ SameButPc(c, d) BY <1>a, <2>1, Moves
    <3>2. c.pc = "close again" BY <1>16 DEF CloseAgain, c
    <3>3. MethodOK(r, d) BY <1>a, <3>1, <3>2 DEF LocalOK, MethodOK, SameButPc, SameWork
    <3>4. SockOK(r, d) BY <1>a, <3>1, <3>2 DEF LocalOK, MethodOK, SockOK, SameButPc, SameWork
    <3>5. AnswerOK(r, d) BY <1>a, <3>1, <3>2 DEF LocalOK, MethodOK, AnswerOK, SameButPc, SameWork
    <3>6. BodyOK(r, d) BY <1>a, <3>1, <3>2 DEF LocalOK, MethodOK, BodyOK, SameButPc, SameWork
    <3> QED BY <3>3, <3>4, <3>5, <3>6 DEF LocalOK
  <2> QED BY <1>16, <1>b, <2>1 DEF CloseAgain, Crash, c
<1>17. CASE ReturnEarly(r)
  <2>1. ASSUME NEW d, d \in {Goto(c, "done")} PROVE LocalOK(r, d)
    <3>1. d.pc \in {"done"} /\ SameButPc(c, d) BY <1>a, <2>1, Moves
    <3>2. c.pc = "return" BY <1>17 DEF ReturnEarly, c
    <3>3. MethodOK(r, d) BY <1>a, <3>1, <3>2 DEF LocalOK, MethodOK, SameButPc, SameWork
    <3>4. SockOK(r, d) BY <1>a, <3>1, <3>2 DEF LocalOK, MethodOK, SockOK, SameButPc, SameWork
    <3>5. AnswerOK(r, d) BY <1>a, <3>1, <3>2 DEF LocalOK, MethodOK, AnswerOK, SameButPc, SameWork
    <3>6. BodyOK(r, d) BY <1>a, <3>1, <3>2 DEF LocalOK, MethodOK, BodyOK, SameButPc, SameWork
    <3> QED BY <3>3, <3>4, <3>5, <3>6 DEF LocalOK
  <2> QED BY <1>17, <1>b, <2>1 DEF ReturnEarly, c
<1>18. CASE DoneDelete(r) \/ DonePut(r) \/ DonePost(r)
  BY <1>14, <1>18 DEF DoneDelete, DonePut, DonePost, Done, c
<1> QED BY <1>1, <1>2, <1>3, <1>4, <1>5, <1>6, <1>7, <1>9, <1>10, <1>11, <1>12, <1>13, <1>15,
           <1>16, <1>17, <1>18 DEF Step

-----------------------------------------------------------------------------
(* What a step of a thread may do at all. *)

Kept(c, d) == d.sock = c.sock /\ d.due = c.due /\ (d.alone => c.alone)

LEMMA StepSummary ==
  ASSUME TypeInv, LocalInv, NEW r \in Requests, Step(r), fault' = "none"
  PROVE  /\ conn[r].pc \in Running /\ Kept(conn[r], conn'[r])
         /\ \A q \in Requests \ {r} : conn'[q] = conn[q]
         /\ UNCHANGED gone
         /\ \/ conn'[r].pc \in Running /\ UNCHANGED poolVars
            \/ /\ conn'[r].pc = "done" /\ Pool!Finish(r)
               /\ conn[r].pc = "return" \/ (conn[r].pc = "close again" /\ owner[conn[r].sock] = None)
               /\ SameButPc(conn[r], conn'[r]) /\ UNCHANGED <<owner, tree, data>>
<1> DEFINE c == conn[r]
           Goal == /\ c.pc \in Running /\ Kept(c, conn'[r])
                   /\ \A q \in Requests \ {r} : conn'[q] = conn[q]
                   /\ UNCHANGED gone /\ conn'[r].pc \in Running /\ UNCHANGED poolVars
<1>a. c \in ConnType /\ LocalOK(r, c) BY Request DEF LocalInv
<1> HIDE DEF c
<1> USE DEF treeVars, Only, At
<1>b. ASSUME NEW d, Become(r, d) PROVE conn'[r] = d /\ \A q \in Requests \ {r} : conn'[q] = conn[q]
  BY <1>b DEF Become, TypeInv
<1>c. ASSUME NEW d, Become(r, d), c.pc \in Running, UNCHANGED <<gone, poolVars>>,
             d.pc \in Running, Kept(c, d)
      PROVE  Goal
  BY <1>b, <1>c DEF c
<1>d. ASSUME NEW l, NEW s
      PROVE  /\ Kept(c, Goto(c, l)) /\ Goto(c, l).pc = l
             /\ Kept(c, Fail(c, s)) /\ Fail(c, s).pc = "error"
  BY <1>a, Moves DEF Kept, SameButPc, SameWork
<1>e. {"error", "stat", "list", "head", "open", "send", "rmdir", "unlink", "mkdirs", "create",
       "copy", "answer", "close", "close again", "return"} \subseteq Running
  BY DEF Running, Labels
<1>1. CASE SendError(r)
  <2> DEFINE d == Goto(Answer(PutLength(c, 1), c.status), c.then)
  <2>1. Become(r, d) /\ c.pc = "error" BY <1>1 DEF SendError, Crash, Respond, c
  <2>2. c.then \in {"close", "return", "answer"} BY <1>a DEF ConnType
  <2>3. d.pc = c.then /\ Kept(c, d) BY <1>a DEF Goto, Answer, PutLength, ConnType, Kept
  <2> HIDE DEF d
  <2> QED BY <1>1, <1>c, <1>e, <2>1, <2>2, <2>3 DEF SendError, c
<1>2. CASE StatGet(r)
  <2>1. ASSUME NEW w PROVE /\ Goto([c EXCEPT !.want = w], "head").pc = "head"
                           /\ Kept(c, Goto([c EXCEPT !.want = w], "head"))
    BY <1>a DEF Goto, ConnType, Kept
  <2>2. PICK d : Become(r, d) /\ d.pc \in {"head", "list", "error"} /\ Kept(c, d)
    BY <1>2, <1>d, <2>1 DEF StatGet, c
  <2> QED BY <1>2, <1>c, <1>e, <2>2 DEF StatGet, c
<1>3. CASE ListDir(r)
  <2>1. /\ [Fail(c, 405) EXCEPT !.alone = FALSE].pc = "error"
        /\ Kept(c, [Fail(c, 405) EXCEPT !.alone = FALSE])
    BY <1>a DEF Fail, ConnType, Kept
  <2>2. ASSUME NEW f PROVE /\ Goto([c EXCEPT !.want = <<Listing>>, !.file = f], "head").pc = "head"
                           /\ Kept(c, Goto([c EXCEPT !.want = <<Listing>>, !.file = f], "head"))
    BY <1>a DEF Goto, ConnType, Kept
  <2> QED BY <1>3, <1>c, <1>e, <2>1, <2>2, ZenonT(40) DEF ListDir, Crash, c
<1>4. CASE SendHead(r)
  <2> DEFINE l == IF req[r].method = "HEAD" THEN "close" ELSE IF c.file = None THEN "open" ELSE "send"
             d == Goto(Answer(PutLength(c, Len(c.want)), 200), l)
  <2>1. Become(r, d) /\ c.pc = "head" BY <1>4 DEF SendHead, Crash, Respond, c
  <2>2. d.pc = l /\ Kept(c, d) BY <1>a DEF Goto, Answer, PutLength, ConnType, Kept
  <2> HIDE DEF d
  <2> QED BY <1>4, <1>c, <1>e, <2>1, <2>2 DEF SendHead, c
<1>5. CASE OpenGet(r)
  <2>1. ASSUME NEW f, NEW i PROVE /\ Goto([c EXCEPT !.file = f, !.ino = i], "send").pc = "send"
                                  /\ Kept(c, Goto([c EXCEPT !.file = f, !.ino = i], "send"))
    BY <1>a DEF Goto, ConnType, Kept
  <2>2. Goto(c, "close").pc = "close" BY <1>a, Moves
  <2>3. PICK d : Become(r, d) /\ d.pc \in {"send", "close"} /\ Kept(c, d)
    BY <1>5, <1>d, <2>1, <2>2 DEF OpenGet, Crash, c
  <2> QED BY <1>5, <1>c, <1>e, <2>3 DEF OpenGet, c
<1>6. CASE SendBody(r)
  <2>1. ASSUME NEW x PROVE /\ [c EXCEPT !.body = Append(@, x)].pc = c.pc
                           /\ Kept(c, [c EXCEPT !.body = Append(@, x)])
    BY <1>a DEF ConnType, Kept
  <2>2. Goto(c, "close").pc = "close" BY <1>a, Moves
  <2>3. c.pc = "send" /\ UNCHANGED <<gone, poolVars>> BY <1>6 DEF SendBody, c
  <2>4. Become(r, Goto(c, "close")) \/ \E x : Become(r, [c EXCEPT !.body = Append(@, x)])
    BY <1>6, Zenon DEF SendBody, c
  <2> QED BY <1>c, <1>d, <1>e, <2>1, <2>2, <2>3, <2>4, ZenonT(40) DEF c
<1>7. CASE StatDelete(r)
  <2>1. PICK d : Become(r, d) /\ d.pc \in {"rmdir", "unlink", "error"} /\ Kept(c, d)
    BY <1>7, <1>d DEF StatDelete, c
  <2> QED BY <1>7, <1>c, <1>e, <2>1 DEF StatDelete, c
<1>8. ASSUME NEW l \in {"rmdir", "unlink"}, NEW ok, Remove(r, l, ok) PROVE Goal
  <2>1. PICK d : Become(r, d) /\ d.pc \in {"answer", "error"} /\ Kept(c, d)
    BY <1>8, <1>d DEF Remove, c
  <2> QED BY <1>8, <1>c, <1>e, <2>1 DEF Remove, c
<1>9. CASE Rmdir(r) BY <1>8, <1>9 DEF Rmdir, c
<1>10. CASE Unlink(r) BY <1>8, <1>10 DEF Unlink, c
<1>11. CASE Mkdir(r)
  <2>1. ASSUME NEW k, NEW l PROVE /\ [c EXCEPT !.dirs = k, !.pc = l].pc = l
                                  /\ Kept(c, [c EXCEPT !.dirs = k, !.pc = l])
    BY <1>a DEF ConnType, Kept
  <2>2. PICK d : Become(r, d) /\ d.pc \in {"mkdirs", "create"} /\ Kept(c, d)
    BY <1>11, <2>1 DEF Mkdir, c
  <2> QED BY <1>11, <1>c, <1>e, <2>2 DEF Mkdir, c
<1>12. CASE Create(r)
  <2> DEFINE i == IF tree[Node(r)] = Absent THEN r ELSE tree[Node(r)]
             d == [c EXCEPT !.file = Min(Free), !.ino = i]
             e == IF Lengthless(r) THEN [Fail(d, 411) EXCEPT !.then = "answer"] ELSE Goto(d, "copy")
             g == [Fail(c, 405) EXCEPT !.alone = @ /\ Free # {}]
  <2>1. Become(r, e) \/ Become(r, g) BY <1>12 DEF Create, c
  <2>2. e.pc \in {"error", "copy"} /\ Kept(c, e) BY <1>a DEF ConnType, Goto, Fail, Kept
  <2>3. g.pc = "error" /\ Kept(c, g)
    <3>1. /\ g.pc = "error" /\ g.sock = c.sock /\ g.due = c.due
          /\ g.alone = (Fail(c, 405).alone /\ Free # {})
      BY <1>a DEF ConnType, Fail
    <3>2. Fail(c, 405).alone = c.alone BY <1>a, Moves DEF SameButPc, SameWork
    <3> QED BY <3>1, <3>2 DEF Kept
  <2> HIDE DEF e, g
  <2> QED BY <1>12, <1>c, <1>e, <2>1, <2>2, <2>3, ZenonT(40) DEF Create, c
<1>13. CASE CopyBody(r)
  <2>1. ASSUME NEW k
        PROVE  /\ [[c EXCEPT !.body = Append(@, r)] EXCEPT !.flushed = k].pc = c.pc
               /\ Kept(c, [[c EXCEPT !.body = Append(@, r)] EXCEPT !.flushed = k])
    BY <1>a DEF ConnType, Kept
  <2>2. Goto(c, "answer").pc = "answer" BY <1>a, Moves
  <2> QED BY <1>13, <1>c, <1>d, <1>e, <2>1, <2>2, ZenonT(40) DEF CopyBody, c
<1>14. ASSUME NEW e \in {c, PutLength(c, 0)}, NEW s, Respond(r, Goto(Answer(e, s), "close")),
              c.pc = "answer", UNCHANGED <<gone, poolVars>>
       PROVE  Goal
  <2> DEFINE d == Goto(Answer(e, s), "close")
  <2>1. Become(r, d) BY <1>14 DEF Respond, Crash
  <2>2. d.pc = "close" /\ Kept(c, d) BY <1>a, <1>14 DEF Goto, Answer, PutLength, ConnType, Kept
  <2> HIDE DEF d
  <2> QED BY <1>14, <1>c, <1>e, <2>1, <2>2
<1>15. CASE DoneDelete(r) \/ DonePut(r) \/ DonePost(r)
  <2>1. Goal BY <1>14, <1>15 DEF DoneDelete, DonePut, DonePost, Done, c
  <2> QED BY <2>1 DEF c
<1>16. CASE Close(r)
  <2> DEFINE d == Goto([c EXCEPT !.file = None], "close again")
  <2>1. d.pc = "close again" /\ Kept(c, d) BY <1>a DEF Goto, ConnType, Kept
  <2>2. Become(r, d) /\ c.pc = "close" BY <1>16 DEF Close, c
  <2> HIDE DEF d
  <2> QED BY <1>16, <1>c, <1>e, <2>1, <2>2 DEF Close, c
<1>17. CASE CloseAgain(r) \/ ReturnEarly(r)
  <2>1. Become(r, Goto(c, "done")) /\ Pool!Finish(r) /\ c.pc \in {"return", "close again"}
        /\ UNCHANGED <<gone, owner, tree, data>> /\ (c.pc = "close again" => owner[c.sock] = None)
    BY <1>17 DEF CloseAgain, ReturnEarly, Crash, c
  <2>2. Goto(c, "done").pc = "done" /\ SameButPc(c, Goto(c, "done")) BY <1>a, Moves
  <2> QED BY <1>b, <1>d, <1>e, <2>1, <2>2 DEF c
<1> QED BY <1>1, <1>2, <1>3, <1>4, <1>5, <1>6, <1>7, <1>9, <1>10, <1>11, <1>12, <1>13, <1>15,
           <1>16, <1>17 DEF Step, c

-----------------------------------------------------------------------------
(* The pool. *)

LEMMA AcceptConn ==
  ASSUME TypeInv, NEW r \in Requests, Accept(r), UNCHANGED req
  PROVE  /\ TypeInv' /\ conn' = [conn EXCEPT ![r] = [Fresh EXCEPT !.pc = "queued", !.sock = Min(Free)]]
         /\ owner' = [owner EXCEPT ![Min(Free)] = r] /\ Min(Free) \in Fds /\ owner[Min(Free)] = None
         /\ LocalOK(r, conn'[r]) /\ conn'[r].pc = "queued" /\ conn'[r].sock = Min(Free)
<1> DEFINE d == [Fresh EXCEPT !.pc = "queued", !.sock = Min(Free)]
<1>1. /\ conn' = [conn EXCEPT ![r] = d] /\ owner' = [owner EXCEPT ![Min(Free)] = r]
      /\ Min(Free) \in Fds /\ owner[Min(Free)] = None
  BY FreeOne DEF Accept, AcceptPeer, Become, Take
<1>2. /\ d.pc = "queued" /\ d.sock = Min(Free) /\ d.file = None /\ d.ino = None /\ d.then = "close"
      /\ d.lens = <<>> /\ d.answers = <<>> /\ d.body = <<>> /\ d.flushed = 0 /\ d.dirs = 0
  BY FreshType DEF Fresh, ConnType
<1>4. d \in ConnType BY <1>1, FreshType DEF ConnType, Labels
<1> HIDE DEF d
<1>5. TypeInv' BY <1>1, <1>4 DEF TypeInv, Accept, treeVars
<1>6. LocalOK(r, d)
  <2>2. MethodOK(r, d) BY <1>2 DEF MethodOK, Started, Opening
  <2>3. SockOK(r, d) BY <1>1, <1>2 DEF SockOK
  <2>4. AnswerOK(r, d) BY <1>2 DEF AnswerOK
  <2>5. BodyOK(r, d) BY <1>2 DEF BodyOK
  <2> QED BY <2>2, <2>3, <2>4, <2>5 DEF LocalOK
<1>7. conn'[r] = d BY <1>1 DEF TypeInv
<1> QED BY <1>1, <1>2, <1>5, <1>6, <1>7 DEF d

(* The promise, method by method. *)
PromiseTable(r) ==
  /\ req[r].method \in {"GET", "HEAD"} =>
       Promise(r) = IF IsFile(r) THEN [status |-> 200, body |-> data[tree[Node(r)]]]
                    ELSE IF IsDir(r) /\ req[r].slash THEN [status |-> 200, body |-> <<Listing>>]
                    ELSE [status |-> 404, body |-> <<>>]
  /\ req[r].method = "DELETE" =>
       Promise(r) = IF IsFile(r) THEN [status |-> 200, body |-> <<>>]
                    ELSE IF IsDir(r) /\ req[r].slash
                    THEN [status |-> IF Children(Node(r)) = {} THEN 200 ELSE 405, body |-> <<>>]
                    ELSE [status |-> 404, body |-> <<>>]
  /\ req[r].method \in Writers =>
       Promise(r) = IF ~Writable(r) THEN [status |-> 405, body |-> <<>>]
                    ELSE IF req[r].length # None
                    THEN [status |-> IF req[r].method = "POST" \/ IsFile(r) THEN 200 ELSE 201,
                          body |-> Content(r)]
                    ELSE [status |-> 411, body |-> <<>>]
  /\ req[r].method = "other" => Promise(r) = [status |-> 501, body |-> <<>>]
  /\ req[r].method \in {"bad", "empty"} => Promise(r) = [status |-> 400, body |-> <<>>]

AllPromises == \A r \in Requests : PromiseTable(r)
LEMMA PromiseOf == AllPromises
<1> SUFFICES ASSUME NEW r \in Requests PROVE PromiseTable(r)
  BY DEF AllPromises
<1> DEFINE m == req[r].method
<1>a. ~(IsFile(r) /\ IsDir(r)) BY NamesAssumption DEF IsFile, IsDir
<1>1. CASE m \in {"GET", "HEAD"}
  <2>1. CASE IsFile(r) BY <1>a, <1>1, <2>1, Zenon DEF PromiseTable, Promise, Writers
  <2>2. CASE ~IsFile(r) /\ IsDir(r) /\ req[r].slash BY <1>1, <2>2, Zenon DEF PromiseTable, Promise, Writers
  <2>3. CASE ~IsFile(r) /\ ~(IsDir(r) /\ req[r].slash) BY <1>1, <2>3, ZenonT(60) DEF PromiseTable, Promise, Writers
  <2> QED BY <1>1, <2>1, <2>2, <2>3 DEF Writers
<1>2. CASE m = "DELETE"
  <2>1. CASE IsFile(r) BY <1>a, <1>2, <2>1, Zenon DEF PromiseTable, Promise, Writers
  <2>2. CASE ~IsFile(r) /\ IsDir(r) /\ req[r].slash BY <1>2, <2>2, Zenon DEF PromiseTable, Promise, Writers
  <2>3. CASE ~IsFile(r) /\ ~(IsDir(r) /\ req[r].slash) BY <1>2, <2>3, Zenon DEF PromiseTable, Promise, Writers
  <2> QED BY <1>2, <2>1, <2>2, <2>3 DEF Writers
<1>3. CASE m \in Writers
  <2>1. CASE ~Writable(r) BY <1>3, <2>1, Zenon DEF PromiseTable, Promise, Writers
  <2>2. CASE Writable(r) /\ req[r].length # None BY <1>3, <2>2, Zenon DEF PromiseTable, Promise, Writers
  <2>3. CASE Writable(r) /\ req[r].length = None BY <1>3, <2>3, Zenon DEF PromiseTable, Promise, Writers
  <2> QED BY <1>3, <2>1, <2>2, <2>3 DEF Writers
<1>4. CASE m = "other" BY <1>4, Zenon DEF PromiseTable, Promise, Writers
<1>5. CASE m \in {"bad", "empty"} BY <1>5, Zenon DEF PromiseTable, Promise, Writers
<1> QED BY <1>1, <1>2, <1>3, <1>4, <1>5, Zenon DEF PromiseTable

LEMMA ContentType ==
  ASSUME TypeInv, NEW r \in Requests, req[r].length # None
  PROVE  /\ Content(r) \in Seq({r}) /\ Content(r) \in Seq(Page)
         /\ Len(Content(r)) = Min({req[r].length, req[r].supply})
         /\ Len(Content(r)) <= req[r].length /\ Len(Content(r)) <= req[r].supply
<1> DEFINE n == Min({req[r].length, req[r].supply})
<1>1. req[r].length \in Nat /\ req[r].supply \in Nat BY Request DEF RequestType
<1>2. n \in Nat /\ n <= req[r].length /\ n <= req[r].supply BY <1>1, MinOfTwo
<1>3. Content(r) = [i \in 1 .. n |-> r] BY DEF Content
<1> HIDE DEF n
<1>4. Content(r) \in Seq({r}) /\ Content(r) \in Seq(Page) /\ Len(Content(r)) = n
  BY <1>2, <1>3 DEF Page, Cells
<1> QED BY <1>2, <1>4 DEF n

LEMMA PromiseType ==
  ASSUME TypeInv, NEW r \in Requests
  PROVE  Promise(r) \in Dues
<1>a. req[r] \in RequestType BY Request
<1>1. IsFile(r) => data[tree[Node(r)]] \in Seq(Page) BY CellsArePage DEF IsFile, TypeInv
<1>2. <<Listing>> \in Seq(Page) /\ <<>> \in Seq(Page) BY DEF Page
<1>3. req[r].length # None => Content(r) \in Seq(Page) BY ContentType
<1> DEFINE m == req[r].method
<1>5. CASE m \in {"GET", "HEAD"}
  <2>1. CASE IsFile(r)
    <3>1. Promise(r) = [status |-> 200, body |-> data[tree[Node(r)]]] BY <1>5, <2>1, PromiseOf DEF AllPromises, PromiseTable
    <3> QED BY <1>1, <2>1, <3>1 DEF Dues
  <2>2. CASE ~IsFile(r)
    <3>1. \/ Promise(r) = [status |-> 200, body |-> <<Listing>>]
          \/ Promise(r) = [status |-> 404, body |-> <<>>]
      BY <1>5, <2>2, PromiseOf DEF AllPromises, PromiseTable
    <3>2. CASE Promise(r) = [status |-> 200, body |-> <<Listing>>] BY <1>2, <3>2 DEF Dues
    <3>3. CASE Promise(r) = [status |-> 404, body |-> <<>>] BY <1>2, <3>3 DEF Dues
    <3> QED BY <3>1, <3>2, <3>3
  <2> QED BY <2>1, <2>2
<1>6. CASE m = "DELETE"
  <2>1. \E n \in {200, 404, 405} : Promise(r) = [status |-> n, body |-> <<>>]
    BY <1>6, PromiseOf DEF AllPromises, PromiseTable
  <2> QED BY <1>2, <2>1 DEF Dues
<1>7. CASE m \in Writers
  <2>1. \/ Promise(r) \in {[status |-> 405, body |-> <<>>], [status |-> 411, body |-> <<>>]}
        \/ /\ req[r].length # None
           /\ Promise(r) \in {[status |-> 200, body |-> Content(r)], [status |-> 201, body |-> Content(r)]}
    BY <1>7, PromiseOf DEF AllPromises, PromiseTable
  <2>2. CASE Promise(r) = [status |-> 405, body |-> <<>>] BY <1>2, <2>2 DEF Dues
  <2>3. CASE Promise(r) = [status |-> 411, body |-> <<>>] BY <1>2, <2>3 DEF Dues
  <2>4. CASE req[r].length # None /\ Promise(r) = [status |-> 200, body |-> Content(r)]
    BY <1>3, <2>4 DEF Dues
  <2>5. CASE req[r].length # None /\ Promise(r) = [status |-> 201, body |-> Content(r)]
    BY <1>3, <2>5 DEF Dues
  <2> QED BY <2>1, <2>2, <2>3, <2>4, <2>5
<1>8. CASE m \in {"other", "bad", "empty"}
  <2>1. \E n \in {400, 501} : Promise(r) = [status |-> n, body |-> <<>>]
    BY <1>8, PromiseOf DEF AllPromises, PromiseTable
  <2> QED BY <1>2, <2>1 DEF Dues
<1> QED BY <1>a, <1>5, <1>6, <1>7, <1>8 DEF RequestType, Methods, Writers

LEMMA BeginConn ==
  ASSUME TypeInv, LocalInv, NEW r \in Requests, Begin(r), conn[r].pc = "queued", UNCHANGED req
  PROVE  /\ TypeInv' /\ LocalInv'
         /\ conn'[r].pc = Entry(r) /\ conn'[r].due = Promise(r) /\ SameWork(conn[r], conn'[r])
         /\ conn'[r].alone = ({q \in running : Conflict(q, r)} = {})
         /\ conn'[r].status = (IF req[r].method = "bad" THEN 400 ELSE 501)
         /\ \A q \in Requests \ {r} :
              /\ SameWork(conn[q], conn'[q]) /\ conn'[q].pc = conn[q].pc /\ conn'[q].due = conn[q].due
              /\ conn'[q].then = conn[q].then /\ conn'[q].status = conn[q].status
              /\ conn'[q].alone = (conn[q].alone /\ ~(q \in running /\ Conflict(q, r)))
<1> DEFINE others == {q \in running : Conflict(q, r)}
           c == conn[r]
           d == [c EXCEPT !.pc = Entry(r), !.due = Promise(r), !.alone = (others = {}),
                          !.status = IF req[r].method = "bad" THEN 400 ELSE 501,
                          !.then = IF req[r].method = "bad" THEN "return" ELSE "close"]
           e(q) == [conn[q] EXCEPT !.alone = @ /\ q \notin others]
<1>1. conn' = [q \in Requests |-> IF q = r THEN d ELSE e(q)]
  BY DEF Begin
<1>2. c \in ConnType /\ LocalOK(r, c) /\ req[r] \in RequestType BY Request DEF LocalInv
<1>3. Entry(r) \in Labels /\ Entry(r) \in {"return", "error", "mkdirs", "stat"}
  BY DEF Entry, Labels
<1> HIDE DEF c, others
<1>4. /\ d.pc = Entry(r) /\ d.due = Promise(r) /\ d.alone = (others = {})
      /\ d.status = (IF req[r].method = "bad" THEN 400 ELSE 501)
      /\ d.then = (IF req[r].method = "bad" THEN "return" ELSE "close")
      /\ SameWork(c, d)
  BY <1>2 DEF ConnType, SameWork
<1>5. d \in ConnType
  <2>1. Promise(r) \in Dues BY PromiseType
  <2> HIDE DEF Dues
  <2>2. (others = {}) \in BOOLEAN OBVIOUS
  <2>3. ASSUME NEW l \in Labels, NEW p \in Dues, NEW x \in BOOLEAN, NEW n \in Nat,
               NEW t \in {"close", "return", "answer"}
        PROVE [c EXCEPT !.pc = l, !.due = p, !.alone = x, !.status = n, !.then = t] \in ConnType
    BY <1>2, <2>3 DEF ConnType
  <2>4. 400 \in Nat /\ 501 \in Nat OBVIOUS
  <2> DEFINE n == IF req[r].method = "bad" THEN 400 ELSE 501
             t == IF req[r].method = "bad" THEN "return" ELSE "close"
             x == others = {}
  <2>5. n \in Nat /\ t \in {"close", "return", "answer"} /\ x \in BOOLEAN OBVIOUS
  <2> HIDE DEF n, t, x
  <2>6. [c EXCEPT !.pc = Entry(r), !.due = Promise(r), !.alone = x, !.status = n, !.then = t] \in ConnType
    BY <1>3, <2>1, <2>3, <2>5
  <2> QED BY <2>6 DEF d, n, t, x
<1>6. ASSUME NEW q \in Requests
      PROVE  /\ e(q) \in ConnType /\ SameWork(conn[q], e(q)) /\ e(q).pc = conn[q].pc
             /\ e(q).due = conn[q].due /\ e(q).then = conn[q].then /\ e(q).status = conn[q].status
             /\ e(q).alone = (conn[q].alone /\ q \notin others)
  <2>1. conn[q] \in ConnType BY DEF TypeInv
  <2>2. (conn[q].alone /\ q \notin others) \in BOOLEAN OBVIOUS
  <2>3. e(q) \in ConnType BY <2>1, <2>2, AloneType
  <2>4. ASSUME NEW x PROVE LET g == [conn[q] EXCEPT !.alone = x] IN
               /\ SameWork(conn[q], g) /\ g.pc = conn[q].pc
               /\ g.due = conn[q].due /\ g.then = conn[q].then /\ g.status = conn[q].status
               /\ g.alone = x
    BY <2>1 DEF ConnType, SameWork
  <2> QED BY <2>3, <2>4
<1> HIDE DEF d, e
<1>7. TypeInv'
  <2>1. conn' \in [Requests -> ConnType] BY <1>1, <1>5, <1>6
  <2> QED BY <2>1 DEF Begin, treeVars, TypeInv
<1>8. LocalOK(r, d)
  <2> USE DEF Started, Opening, LabelsOf, LeftOpen, Lengthless, Writers
  <2>1. /\ c.pc = "queued" /\ SameWork(c, d) /\ d.pc = Entry(r)
        /\ d.then = (IF req[r].method = "bad" THEN "return" ELSE "close")
    BY <1>4 DEF c
  <2>2. MethodOK(r, d) BY <1>2, <2>1 DEF MethodOK, Entry, RequestType, Methods
  <2>3. SockOK(r, d) BY <1>2, <2>1 DEF LocalOK, SockOK, SameWork
  <2>4. AnswerOK(r, d) BY <1>2, <1>3, <2>1 DEF LocalOK, AnswerOK, SameWork, Entry
  <2>6. d.pc = "mkdirs" => d.dirs < Len(DirPath(r))
    <3>1. d.dirs = 0 BY <1>2, <2>1 DEF LocalOK, BodyOK, SameWork, c
    <3>2. DirPath(r) \in Seq(Nodes) /\ DirPath(r) # <<>> BY Request DEF DirPath
    <3>3. Len(DirPath(r)) > 0 BY <3>2
    <3> QED BY <3>1, <3>3
  <2>5. BodyOK(r, d) BY <1>2, <1>3, <2>1, <2>6 DEF LocalOK, BodyOK, SameWork, Entry
  <2> QED BY <2>2, <2>3, <2>4, <2>5 DEF LocalOK
<1>9. ASSUME NEW q \in Requests PROVE LocalOK(q, e(q))
  <2>1. LocalOK(q, conn[q]) BY DEF LocalInv
  <2>2. MethodOK(q, e(q)) BY <1>6, <2>1 DEF LocalOK, MethodOK
  <2>3. SockOK(q, e(q)) BY <1>6, <2>1 DEF LocalOK, SockOK, SameWork
  <2>4. AnswerOK(q, e(q)) BY <1>6, <2>1 DEF LocalOK, AnswerOK, SameWork
  <2>5. BodyOK(q, e(q)) BY <1>6, <2>1 DEF LocalOK, BodyOK, SameWork
  <2> QED BY <2>2, <2>3, <2>4, <2>5 DEF LocalOK
<1>10. LocalInv'
  <2>1. \A q \in Requests : conn'[q] = IF q = r THEN d ELSE e(q) BY <1>1
  <2>2. \A q \in Requests : LocalOK(q, conn'[q]) BY <1>8, <1>9, <2>1
  <2>3. UNCHANGED req OBVIOUS
  <2> QED BY <2>2, <2>3, LocalPrime DEF LocalInv
<1> QED BY <1>1, <1>4, <1>6, <1>7, <1>10 DEF others, c

LEMMA Enqueue ==
  ASSUME NEW s \in Seq(Requests), NEW r \in Requests, r \notin Elements(s),
         \A i, j \in 1 .. Len(s) : s[i] = s[j] => i = j
  PROVE  /\ Append(s, r) \in Seq(Requests) /\ Elements(Append(s, r)) = Elements(s) \cup {r}
         /\ \A i, j \in 1 .. Len(Append(s, r)) : Append(s, r)[i] = Append(s, r)[j] => i = j
<1>1. Append(s, r) \in Seq(Requests) /\ Len(Append(s, r)) = Len(s) + 1
  OBVIOUS
<1>2. \A i \in 1 .. Len(s) + 1 : Append(s, r)[i] = IF i <= Len(s) THEN s[i] ELSE r
  OBVIOUS
<1>3. Elements(Append(s, r)) = Elements(s) \cup {r}
  <2>1. ASSUME NEW x \in Elements(Append(s, r)) PROVE x \in Elements(s) \cup {r}
    BY <1>1, <1>2 DEF Elements
  <2>2. ASSUME NEW x \in Elements(s) PROVE x \in Elements(Append(s, r))
    BY <1>1, <1>2 DEF Elements
  <2>3. r \in Elements(Append(s, r)) BY <1>1, <1>2 DEF Elements
  <2> QED BY <2>1, <2>2, <2>3
<1>4. \A i \in 1 .. Len(s) : s[i] # r BY DEF Elements
<1> QED BY <1>1, <1>2, <1>3, <1>4

LEMMA Dequeue ==
  ASSUME NEW s \in Seq(Requests), s # <<>>,
         \A i, j \in 1 .. Len(s) : s[i] = s[j] => i = j
  PROVE  /\ Tail(s) \in Seq(Requests) /\ Elements(Tail(s)) = Elements(s) \ {Head(s)}
         /\ Head(s) \in Elements(s) /\ Head(s) \in Requests
         /\ \A i, j \in 1 .. Len(Tail(s)) : Tail(s)[i] = Tail(s)[j] => i = j
<1>1. /\ Tail(s) \in Seq(Requests) /\ Len(Tail(s)) = Len(s) - 1 /\ Len(s) \in Nat \ {0}
      /\ Head(s) = s[1]
  OBVIOUS
<1>2. \A i \in 1 .. Len(s) - 1 : Tail(s)[i] = s[i + 1]
  OBVIOUS
<1>3. Head(s) \in Elements(s) /\ Head(s) \in Requests BY <1>1 DEF Elements
<1>4. ASSUME NEW x \in Elements(Tail(s)) PROVE x \in Elements(s) /\ x # Head(s)
  <2>1. PICK i \in 1 .. Len(s) - 1 : x = s[i + 1] BY <1>1, <1>2 DEF Elements
  <2>2. i + 1 \in 1 .. Len(s) /\ 1 \in 1 .. Len(s) /\ i + 1 # 1 BY <1>1
  <2> QED BY <1>1, <2>1, <2>2 DEF Elements
<1>5. ASSUME NEW x \in Elements(s), x # Head(s) PROVE x \in Elements(Tail(s))
  <2>1. PICK i \in 1 .. Len(s) : x = s[i] BY DEF Elements
  <2>2. i - 1 \in 1 .. Len(s) - 1 BY <1>1, <1>5, <2>1
  <2>3. Tail(s)[i - 1] = s[i] BY <1>2, <2>2
  <2> QED BY <1>1, <2>1, <2>2, <2>3 DEF Elements
<1>6. ASSUME NEW i \in 1 .. Len(Tail(s)), NEW j \in 1 .. Len(Tail(s)), Tail(s)[i] = Tail(s)[j]
      PROVE  i = j
  <2>1. s[i + 1] = s[j + 1] /\ i + 1 \in 1 .. Len(s) /\ j + 1 \in 1 .. Len(s) BY <1>1, <1>2, <1>6
  <2>2. i + 1 = j + 1 BY <2>1
  <2> QED BY <1>1, <2>2
<1> QED BY <1>1, <1>3, <1>4, <1>5, <1>6

LEMMA AcceptPool ==
  ASSUME TypeInv, PoolInv, NEW r \in Requests, Accept(r), UNCHANGED req
  PROVE  PoolInv' /\ conn[r].pc = "idle"
<1>1. r \notin Elements(pending) /\ r \notin running /\ r \notin finished
      /\ pending' = Append(pending, r) /\ UNCHANGED <<running, finished>>
  BY DEF Accept, Pool!Submit, Pool!Accepted, Elements
<1>2. conn[r].pc = "idle"
  <2>1. conn[r].pc \in Labels BY Request DEF ConnType
  <2> QED BY <1>1, <2>1 DEF PoolInv, Running
<1>3. conn'[r].pc = "queued" /\ \A q \in Requests \ {r} : conn'[q] = conn[q]
  BY AcceptConn DEF TypeInv
<1>4. /\ pending' \in Seq(Requests) /\ Elements(pending') = Elements(pending) \cup {r}
      /\ \A i, j \in 1 .. Len(pending') : pending'[i] = pending'[j] => i = j
  BY <1>1, Enqueue DEF PoolInv
<1> QED BY <1>1, <1>2, <1>3, <1>4 DEF PoolInv, Running

LEMMA BeginPool ==
  ASSUME TypeInv, LocalInv, PoolInv, NEW r \in Requests, Begin(r), UNCHANGED req
  PROVE  PoolInv' /\ conn[r].pc = "queued" /\ r \notin running /\ running' = running \cup {r}
<1>1. /\ pending # <<>> /\ r = Head(pending) /\ pending' = Tail(pending)
      /\ running' = running \cup {r} /\ UNCHANGED finished
  BY DEF Begin, Pool!Start
<1>2. /\ Tail(pending) \in Seq(Requests) /\ Elements(Tail(pending)) = Elements(pending) \ {r}
      /\ \A i, j \in 1 .. Len(Tail(pending)) : Tail(pending)[i] = Tail(pending)[j] => i = j
      /\ r \in Elements(pending)
  BY <1>1, Dequeue DEF PoolInv
<1>3. conn[r].pc = "queued" BY <1>2 DEF PoolInv
<1>4. conn'[r].pc \in Running BY <1>3, BeginConn, ZenonT(40) DEF Entry, Running, Labels
<1>5. \A q \in Requests \ {r} : conn'[q].pc = conn[q].pc BY <1>3, BeginConn
<1> QED BY <1>1, <1>2, <1>3, <1>4, <1>5 DEF PoolInv, Running

LEMMA StepPool ==
  ASSUME TypeInv, LocalInv, PoolInv, NEW r \in Requests, Step(r), fault' = "none", UNCHANGED req
  PROVE  PoolInv'
<1>a. conn[r].pc \in Running /\ \A q \in Requests \ {r} : conn'[q].pc = conn[q].pc
  BY StepSummary
<1>b. "queued" \notin Running /\ "done" \notin Running BY DEF Running
<1>1. CASE conn'[r].pc \in Running /\ UNCHANGED poolVars
  <2>1. UNCHANGED <<pending, running, finished>> BY <1>1 DEF poolVars
  <2> QED BY <1>a, <1>b, <1>1, <2>1 DEF PoolInv
<1>2. CASE conn'[r].pc = "done" /\ Pool!Finish(r)
  <2>1. /\ pending' = pending /\ running' = running \ {r} /\ finished' = finished \cup {r}
    BY <1>2 DEF Pool!Finish
  <2> QED BY <1>a, <1>b, <1>2, <2>1 DEF PoolInv
<1>3. (conn'[r].pc \in Running /\ UNCHANGED poolVars) \/ (conn'[r].pc = "done" /\ Pool!Finish(r))
  BY StepSummary
<1> QED BY <1>1, <1>2, <1>3

-----------------------------------------------------------------------------
(* The descriptors. *)

LEMMA AcceptOwner ==
  ASSUME TypeInv, PoolInv, OwnerInv, NEW r \in Requests, Accept(r), UNCHANGED req
  PROVE  OwnerInv'
<1>1. conn[r].pc = "idle" BY AcceptPool
<1>2. /\ owner' = [owner EXCEPT ![Min(Free)] = r] /\ Min(Free) \in Fds
      /\ conn'[r].pc = "queued" /\ conn'[r].sock = Min(Free)
      /\ \A q \in Requests \ {r} : conn'[q] = conn[q]
  BY AcceptConn DEF TypeInv
<1>3. ASSUME NEW f \in Fds, owner'[f] # None
      PROVE  LET q == owner'[f] IN
             \/ conn'[q].pc \notin {"idle", "close again", "done"} /\ f \in {conn'[q].sock, conn'[q].file}
             \/ conn'[q].pc = "done" /\ LeftOpen(q) /\ f = conn'[q].sock
  <2>1. CASE f = Min(Free) BY <1>2, <2>1 DEF TypeInv
  <2>2. CASE f # Min(Free)
    <3>1. owner'[f] = owner[f] /\ owner[f] \in Requests BY <1>2, <1>3, <2>2 DEF TypeInv
    <3>2. owner[f] # r BY <1>1, <1>3, <3>1 DEF OwnerInv, Ended
    <3>3. conn'[owner[f]] = conn[owner[f]] BY <1>2, <3>1, <3>2
    <3>4. \/ conn[owner[f]].pc \notin {"idle", "close again", "done"}
             /\ f \in {conn[owner[f]].sock, conn[owner[f]].file}
          \/ conn[owner[f]].pc = "done" /\ LeftOpen(owner[f]) /\ f = conn[owner[f]].sock
      BY <1>3, <3>1 DEF OwnerInv, Ended
    <3> QED BY <3>1, <3>3, <3>4
  <2> QED BY <2>1, <2>2
<1> QED BY <1>3 DEF OwnerInv, Ended, LeftOpen

LEMMA BeginOwner ==
  ASSUME TypeInv, LocalInv, PoolInv, OwnerInv, NEW r \in Requests, Begin(r), UNCHANGED req
  PROVE  OwnerInv'
<1>1. conn[r].pc = "queued" BY BeginPool
<1>2. \A q \in Requests : /\ conn'[q].sock = conn[q].sock /\ conn'[q].file = conn[q].file
                          /\ q # r => conn'[q].pc = conn[q].pc
  BY <1>1, BeginConn DEF SameWork
<1>3. conn'[r].pc \in {"return", "error", "mkdirs", "stat"} BY <1>1, BeginConn DEF Entry
<1>4. UNCHANGED owner BY DEF Begin
<1> QED BY <1>1, <1>2, <1>3, <1>4 DEF OwnerInv, Ended, LeftOpen, TypeInv

LEMMA StepOwner ==
  ASSUME TypeInv, LocalInv, OwnerInv, NEW r \in Requests, Step(r), fault' = "none", UNCHANGED req
  PROVE  OwnerInv'
<1> DEFINE c == conn[r]
           d == conn'[r]
<1>a. /\ c \in ConnType /\ LocalOK(r, c) /\ c.pc \in Running /\ d.sock = c.sock
      /\ \A q \in Requests \ {r} : conn'[q] = conn[q]
  BY Request, StepSummary DEF LocalInv, Kept
<1>b. d = conn'[r] OBVIOUS
<1> HIDE DEF c, d
<1>c. ASSUME NEW e, Become(r, e) PROVE d = e
  BY <1>c DEF Become, TypeInv, d
<1> USE DEF treeVars, Only, At
<1>d. ASSUME UNCHANGED owner, d.file = c.file, d.pc \notin {"idle", "close again", "done"}
      PROVE  OwnerInv'
  BY <1>a, <1>d, ZenonT(40) DEF OwnerInv, Ended, LeftOpen, TypeInv, c, d
<1>e. ASSUME Take(r), Free # {}, c.file = None, d.file = Min(Free),
             d.pc \notin {"idle", "close again", "done"}
      PROVE  OwnerInv'
  <2>1. owner' = [owner EXCEPT ![Min(Free)] = r] /\ Min(Free) \in Fds
    BY <1>e, FreeOne DEF Take
  <2>2. ASSUME NEW f \in Fds, owner'[f] # None, owner'[f] = r
        PROVE  f \in {d.sock, d.file}
    <3>1. f # Min(Free) => owner[f] = r BY <2>1, <2>2 DEF TypeInv
    <3>2. f # Min(Free) => f \in {c.sock, None} BY <1>e, <2>2, <3>1 DEF OwnerInv, Ended, c
    <3> QED BY <1>a, <1>e, <3>2, NamesAssumption
  <2>3. ASSUME NEW f \in Fds, owner'[f] # None, owner'[f] # r
        PROVE  owner'[f] = owner[f] /\ owner[f] \in Requests \ {r}
    BY <2>1, <2>3 DEF TypeInv
  <2>4. ASSUME NEW f \in Fds, owner'[f] # None
        PROVE  LET q == owner'[f] IN
               \/ conn'[q].pc \notin {"idle", "close again", "done"} /\ f \in {conn'[q].sock, conn'[q].file}
               \/ conn'[q].pc = "done" /\ LeftOpen(q) /\ f = conn'[q].sock
    <3>1. CASE owner'[f] = r BY <1>e, <2>2, <2>4, <3>1 DEF d
    <3>2. CASE owner'[f] # r
      <4>1. owner'[f] = owner[f] /\ conn'[owner[f]] = conn[owner[f]] BY <1>a, <2>3, <2>4, <3>2
      <4>2. \/ conn[owner[f]].pc \notin {"idle", "close again", "done"}
               /\ f \in {conn[owner[f]].sock, conn[owner[f]].file}
            \/ conn[owner[f]].pc = "done" /\ LeftOpen(owner[f]) /\ f = conn[owner[f]].sock
        BY <2>4, <4>1 DEF OwnerInv, Ended
      <4> QED BY <4>1, <4>2
    <3> QED BY <3>1, <3>2
  <2> QED BY <2>4 DEF OwnerInv, Ended, LeftOpen
<1>1. CASE SendError(r)
  <2> DEFINE e == Goto(Answer(PutLength(c, 1), c.status), c.then)
  <2>1. Become(r, e) /\ UNCHANGED owner BY <1>1 DEF SendError, Crash, Respond, c
  <2>2. e.file = c.file /\ e.pc \in {"close", "return", "answer"}
    BY <1>a DEF Goto, Answer, PutLength, ConnType
  <2> HIDE DEF e
  <2> QED BY <1>c, <1>d, <2>1, <2>2
<1>2. CASE StatGet(r) \/ StatDelete(r)
  <2>1. ASSUME NEW w PROVE /\ Goto([c EXCEPT !.want = w], "head").pc = "head"
                           /\ Goto([c EXCEPT !.want = w], "head").file = c.file
    BY <1>a DEF Goto, ConnType
  <2>2. PICK e : Become(r, e) /\ e.pc \in {"head", "list", "error", "rmdir", "unlink"} /\ e.file = c.file
    BY <1>2, <1>a, <2>1, Moves DEF StatGet, StatDelete, c, SameButPc, SameWork
  <2> QED BY <1>2, <1>c, <1>d, <2>2 DEF StatGet, StatDelete
<1>3. CASE ListDir(r)
  <2>1. CASE NoTempFile
    <3> DEFINE e == [Fail(c, 405) EXCEPT !.alone = FALSE]
    <3>1. Become(r, e) /\ UNCHANGED owner BY <1>3, <2>1 DEF ListDir, c
    <3>2. e.file = c.file /\ e.pc = "error" BY <1>a DEF Fail, ConnType
    <3> HIDE DEF e
    <3> QED BY <1>c, <1>d, <3>1, <3>2
  <2>2. CASE ~NoTempFile
    <3> DEFINE e == Goto([c EXCEPT !.want = <<Listing>>, !.file = Min(Free)], "head")
    <3>1. Take(r) /\ Become(r, e) /\ Free # {} /\ c.pc = "list"
      BY <1>3, <2>2 DEF ListDir, Crash, NoTempFile, c
    <3>2. e.file = Min(Free) /\ e.pc = "head" BY <1>a DEF Goto, ConnType
    <3>3. c.file = None BY <1>a, <3>1 DEF LocalOK, SockOK, Opening
    <3> HIDE DEF e
    <3> QED BY <1>c, <1>e, <3>1, <3>2, <3>3
  <2> QED BY <2>1, <2>2
<1>4. CASE SendHead(r)
  <2> DEFINE l == IF req[r].method = "HEAD" THEN "close" ELSE IF c.file = None THEN "open" ELSE "send"
             e == Goto(Answer(PutLength(c, Len(c.want)), 200), l)
  <2>1. Become(r, e) /\ UNCHANGED owner BY <1>4 DEF SendHead, Crash, Respond, c
  <2>2. e.pc = l /\ e.file = c.file BY <1>a DEF Goto, Answer, PutLength, ConnType
  <2> HIDE DEF e
  <2> QED BY <1>c, <1>d, <2>1, <2>2
<1>5. CASE OpenGet(r)
  <2>1. CASE Found(r) /\ Free # {}
    <3> DEFINE e == Goto([c EXCEPT !.file = Min(Free), !.ino = tree[Node(r)]], "send")
    <3>1. Take(r) /\ Become(r, e) /\ c.pc = "open" BY <1>5, <2>1 DEF OpenGet, c
    <3>2. e.file = Min(Free) /\ e.pc = "send" BY <1>a DEF Goto, ConnType
    <3>3. c.file = None BY <1>a, <3>1 DEF LocalOK, SockOK
    <3> HIDE DEF e
    <3> QED BY <1>c, <1>e, <2>1, <3>1, <3>2, <3>3
  <2>2. CASE ~(Found(r) /\ Free # {})
    <3>1. Become(r, Goto(c, "close")) /\ UNCHANGED owner BY <1>5, <2>2 DEF OpenGet, Crash, c
    <3>2. Goto(c, "close").pc = "close" /\ Goto(c, "close").file = c.file
      BY <1>a, Moves DEF SameButPc, SameWork
    <3> QED BY <1>c, <1>d, <3>1, <3>2
  <2> QED BY <2>1, <2>2
<1>6. CASE SendBody(r)
  <2>1. ASSUME NEW x PROVE /\ [c EXCEPT !.body = Append(@, x)].pc = c.pc
                           /\ [c EXCEPT !.body = Append(@, x)].file = c.file
    BY <1>a DEF ConnType
  <2>2. Goto(c, "close").pc = "close" /\ Goto(c, "close").file = c.file
    BY <1>a, Moves DEF SameButPc, SameWork
  <2>3. c.pc = "send" /\ UNCHANGED owner BY <1>6 DEF SendBody, c
  <2>4. Become(r, Goto(c, "close")) \/ \E x : Become(r, [c EXCEPT !.body = Append(@, x)])
    BY <1>6, Zenon DEF SendBody, c
  <2> QED BY <1>c, <1>d, <2>1, <2>2, <2>3, <2>4
<1>7. ASSUME NEW l, NEW ok, Remove(r, l, ok) PROVE OwnerInv'
  <2>1. PICK e : Become(r, e) /\ e.pc \in {"answer", "error"} /\ e.file = c.file
    BY <1>7, <1>a, Moves DEF Remove, c, SameButPc, SameWork
  <2> QED BY <1>7, <1>c, <1>d, <2>1 DEF Remove
<1>8. CASE Rmdir(r) \/ Unlink(r) BY <1>7, <1>8 DEF Rmdir, Unlink
<1>9. CASE Mkdir(r)
  <2>1. ASSUME NEW k, NEW l PROVE /\ [c EXCEPT !.dirs = k, !.pc = l].pc = l
                                  /\ [c EXCEPT !.dirs = k, !.pc = l].file = c.file
    BY <1>a DEF ConnType
  <2>2. c.pc = "mkdirs" /\ UNCHANGED owner BY <1>9 DEF Mkdir, c
  <2>3. \E k, l : Become(r, [c EXCEPT !.dirs = k, !.pc = l]) /\ l \in {"mkdirs", "create"}
    <3> DEFINE e == DirPath(r)[c.dirs + 1]
               k == IF NotADir(e) THEN Len(DirPath(r)) ELSE c.dirs + 1
               l == IF NotADir(e) \/ c.dirs + 1 = Len(DirPath(r)) THEN "create" ELSE c.pc
    <3>1. Become(r, [c EXCEPT !.dirs = k, !.pc = l]) BY <1>9 DEF Mkdir, c
    <3>2. l \in {"mkdirs", "create"} BY <2>2
    <3> HIDE DEF k, l
    <3> QED BY <3>1, <3>2
  <2>4. PICK k, l : Become(r, [c EXCEPT !.dirs = k, !.pc = l]) /\ l \in {"mkdirs", "create"}
    BY <2>3, Zenon
  <2> DEFINE e == [c EXCEPT !.dirs = k, !.pc = l]
  <2>5. e.pc = l /\ e.file = c.file BY <2>1
  <2>6. Become(r, e) BY <2>4
  <2> HIDE DEF e
  <2> QED BY <1>c, <1>d, <2>2, <2>4, <2>5, <2>6
<1>10. CASE Create(r)
  <2> DEFINE i == IF tree[Node(r)] = Absent THEN r ELSE tree[Node(r)]
             o == [c EXCEPT !.file = Min(Free), !.ino = i]
             e == IF Lengthless(r) THEN [Fail(o, 411) EXCEPT !.then = "answer"] ELSE Goto(o, "copy")
             g == [Fail(c, 405) EXCEPT !.alone = @ /\ Free # {}]
  <2>1. \/ Become(r, e) /\ Take(r) /\ Free # {}
        \/ Become(r, g) /\ UNCHANGED owner
    BY <1>10 DEF Create, c
  <2>2. e.pc \in {"error", "copy"} /\ e.file = Min(Free) BY <1>a DEF ConnType, Goto, Fail
  <2>3. g.pc = "error" /\ g.file = c.file BY <1>a DEF ConnType, Fail
  <2>4. c.pc = "create" BY <1>10 DEF Create, c
  <2>5. c.file = None BY <1>a, <2>4 DEF LocalOK, SockOK, Opening
  <2> HIDE DEF e, g
  <2> QED BY <1>c, <1>d, <1>e, <2>1, <2>2, <2>3, <2>5
<1>11. CASE CopyBody(r)
  <2>1. ASSUME NEW k
        PROVE  /\ [[c EXCEPT !.body = Append(@, r)] EXCEPT !.flushed = k].pc = c.pc
               /\ [[c EXCEPT !.body = Append(@, r)] EXCEPT !.flushed = k].file = c.file
    BY <1>a DEF ConnType
  <2>2. Goto(c, "answer").pc = "answer" /\ Goto(c, "answer").file = c.file
    BY <1>a, Moves DEF SameButPc, SameWork
  <2>3. c.pc = "copy" /\ UNCHANGED owner BY <1>11 DEF CopyBody, c
  <2>4. \/ Become(r, Goto(c, "answer"))
        \/ \E k : Become(r, [[c EXCEPT !.body = Append(@, r)] EXCEPT !.flushed = k])
    BY <1>11, Zenon DEF CopyBody, c
  <2> QED BY <1>c, <1>d, <2>1, <2>2, <2>3, <2>4
<1>12. CASE DoneDelete(r) \/ DonePut(r) \/ DonePost(r)
  <2>1. PICK e \in {c, PutLength(c, 0)}, n \in {200, 201} : Respond(r, Goto(Answer(e, n), "close"))
    BY <1>12 DEF DoneDelete, DonePut, DonePost, Done, c
  <2> DEFINE x == Goto(Answer(e, n), "close")
  <2>2. Become(r, x) /\ UNCHANGED owner BY <2>1 DEF Respond, Crash
  <2>3. x.pc = "close" /\ x.file = c.file BY <1>a, <2>1 DEF Goto, Answer, PutLength, ConnType
  <2> HIDE DEF x
  <2> QED BY <1>c, <1>d, <2>2, <2>3
<1>13. CASE Close(r)
  <2>1. \A f \in Fds : owner'[f] = IF f \in {c.file, c.sock} THEN None ELSE owner[f]
    BY <1>13 DEF Close, GiveBack, c
  <2>2. c.pc = "close" BY <1>13 DEF Close, c
  <2>3. \A f \in Fds : owner[f] = r => f \in {c.sock, c.file}
    BY <2>2, NamesAssumption DEF OwnerInv, Ended, c
  <2>4. \A f \in Fds : owner'[f] # r BY <2>1, <2>3, NamesAssumption
  <2>5. \A f \in Fds : owner'[f] # None => owner'[f] = owner[f] /\ owner[f] \in Requests \ {r}
    BY <2>1, <2>4 DEF TypeInv
  <2>6. ASSUME NEW f \in Fds, owner'[f] # None
        PROVE  LET q == owner'[f] IN
               \/ conn'[q].pc \notin {"idle", "close again", "done"} /\ f \in {conn'[q].sock, conn'[q].file}
               \/ conn'[q].pc = "done" /\ LeftOpen(q) /\ f = conn'[q].sock
    <3>1. owner'[f] = owner[f] /\ conn'[owner[f]] = conn[owner[f]] BY <1>a, <2>5, <2>6
    <3>2. \/ conn[owner[f]].pc \notin {"idle", "close again", "done"}
             /\ f \in {conn[owner[f]].sock, conn[owner[f]].file}
          \/ conn[owner[f]].pc = "done" /\ LeftOpen(owner[f]) /\ f = conn[owner[f]].sock
      BY <2>6, <3>1 DEF OwnerInv, Ended
    <3> QED BY <3>1, <3>2
  <2> QED BY <2>6 DEF OwnerInv, Ended, LeftOpen
<1>14. CASE CloseAgain(r)
  <2>1. c.pc = "close again" /\ UNCHANGED owner BY <1>14 DEF CloseAgain, Crash, c
  <2>2. \A f \in Fds : owner[f] # r BY <2>1, NamesAssumption DEF OwnerInv, Ended, c
  <2> QED BY <1>a, <2>1, <2>2 DEF OwnerInv, Ended, LeftOpen, TypeInv
<1>15. CASE ReturnEarly(r)
  <2>1. c.pc = "return" /\ UNCHANGED owner /\ Become(r, Goto(c, "done"))
    BY <1>15 DEF ReturnEarly, c
  <2>2. d.pc = "done" BY <1>a, <1>c, <2>1, Moves
  <2>3. c.file = None /\ LeftOpen(r) BY <1>a, <2>1 DEF LocalOK, SockOK, MethodOK
  <2>4. \A f \in Fds : owner[f] = r => f = c.sock
    BY <2>1, <2>3, NamesAssumption DEF OwnerInv, Ended, c
  <2> QED BY <1>a, <2>1, <2>2, <2>3, <2>4 DEF OwnerInv, Ended, LeftOpen, TypeInv, d
<1> QED BY <1>1, <1>2, <1>3, <1>4, <1>5, <1>6, <1>8, <1>9, <1>10, <1>11, <1>12, <1>13, <1>14,
           <1>15 DEF Step

-----------------------------------------------------------------------------
(* A step that ends the process leaves everything as it was. *)

LEMMA CrashStep ==
  ASSUME NEW r, Step(r), fault = "none", fault' # "none"
  PROVE  UNCHANGED <<poolVars, treeVars, conn, owner, gone>>
<1> USE DEF At, Only, Crash, Respond
<1>1. CASE SendError(r) BY <1>1 DEF SendError
<1>2. CASE ListDir(r) BY <1>2 DEF ListDir
<1>3. CASE SendHead(r) BY <1>3 DEF SendHead
<1>4. CASE OpenGet(r) BY <1>4 DEF OpenGet
<1>5. CASE DoneDelete(r) \/ DonePut(r) \/ DonePost(r)
  BY <1>5 DEF DoneDelete, DonePut, DonePost, Done
<1>6. CASE CloseAgain(r) BY <1>6 DEF CloseAgain
<1>7. CASE StatGet(r) \/ SendBody(r) \/ StatDelete(r) \/ Rmdir(r) \/ Unlink(r) \/ ReturnEarly(r)
  BY <1>7 DEF StatGet, SendBody, StatDelete, Rmdir, Unlink, Remove, ReturnEarly
<1>8. CASE Mkdir(r) \/ Create(r) \/ CopyBody(r) \/ Close(r)
  BY <1>8 DEF Mkdir, Create, CopyBody, Close
<1> QED BY <1>1, <1>2, <1>3, <1>4, <1>5, <1>6, <1>7, <1>8 DEF Step

(* The part of the invariant that is about each request by itself. *)
BaseInv == TypeInv /\ LocalInv /\ PoolInv /\ OwnerInv

LEMMA BaseInit == Init => BaseInv
<1> SUFFICES ASSUME Init PROVE BaseInv
  OBVIOUS
<1>1. TypeInv BY InitTypeInv
<1>2. \A r \in Requests : conn[r] = Fresh BY DEF Init
<1>3. /\ Fresh.pc = "idle" /\ Fresh.file = None /\ Fresh.ino = None /\ Fresh.then = "close"
      /\ Fresh.lens = <<>> /\ Fresh.answers = <<>> /\ Fresh.body = <<>> /\ Fresh.flushed = 0
      /\ Fresh.dirs = 0
  BY DEF Fresh
<1>4. ASSUME NEW r \in Requests PROVE LocalOK(r, Fresh)
  <2>1. MethodOK(r, Fresh) BY <1>3 DEF MethodOK, Started, Opening
  <2>2. SockOK(r, Fresh) BY <1>3 DEF SockOK
  <2>3. AnswerOK(r, Fresh) BY <1>3 DEF AnswerOK
  <2>4. BodyOK(r, Fresh) BY <1>3 DEF BodyOK
  <2> QED BY <2>1, <2>2, <2>3, <2>4 DEF LocalOK
<1>5. pending = <<>> /\ running = {} /\ finished = {} BY DEF Init, Pool!Init
<1>6. PoolInv
  <2>1. Elements(pending) = {} /\ pending \in Seq(Requests) /\ Len(pending) = 0
    BY <1>5 DEF Elements
  <2> QED BY <1>2, <1>3, <1>5, <2>1 DEF PoolInv, Running
<1>7. OwnerInv BY DEF Init, OwnerInv
<1> QED BY <1>1, <1>2, <1>4, <1>6, <1>7 DEF BaseInv, LocalInv

LEMMA BaseNext == BaseInv /\ [Next]_vars => BaseInv'
<1> SUFFICES ASSUME BaseInv, [Next]_vars PROVE BaseInv'
  OBVIOUS
<1>a. TypeInv /\ LocalInv /\ PoolInv /\ OwnerInv BY DEF BaseInv
<1>b. ASSUME UNCHANGED <<req, pending, running, finished, tree, data, conn, owner>>,
             gone' \subseteq Resetting,
             fault' \in {"none", "null stream", "broken pipe", "stray close"}
      PROVE  BaseInv'
  <2>1. TypeInv' BY <1>a, <1>b DEF TypeInv
  <2>2. LocalInv' BY <1>a, <1>b, LocalPrime DEF LocalInv
  <2>3. PoolInv' BY <1>a, <1>b DEF PoolInv, Elements
  <2>4. OwnerInv' BY <1>a, <1>b DEF OwnerInv, Ended, LeftOpen
  <2> QED BY <2>1, <2>2, <2>3, <2>4 DEF BaseInv
<1>1. CASE UNCHANGED vars
  BY <1>a, <1>b, <1>1 DEF vars, poolVars, treeVars, TypeInv
<1>2. CASE Next
  <2>1. fault = "none" /\ UNCHANGED req BY <1>2 DEF Next
  <2>2. PICK r \in Requests : Accept(r) \/ Reset(r) \/ Begin(r) \/ Step(r)
    BY <1>2 DEF Next
  <2>3. CASE Accept(r)
    <3>1. TypeInv' /\ LocalOK(r, conn'[r]) /\ \A q \in Requests \ {r} : conn'[q] = conn[q]
      BY <1>a, <2>1, <2>3, AcceptConn DEF TypeInv
    <3>2. LocalInv' BY <1>a, <2>1, <3>1, LocalPrime DEF LocalInv
    <3> QED BY <1>a, <2>1, <2>3, <3>1, <3>2, AcceptPool, AcceptOwner DEF BaseInv
  <2>4. CASE Reset(r)
    BY <1>a, <1>b, <2>1, <2>4 DEF Reset, poolVars, treeVars, TypeInv
  <2>5. CASE Begin(r)
    <3>1. PoolInv' /\ conn[r].pc = "queued" BY <1>a, <2>1, <2>5, BeginPool
    <3>2. TypeInv' /\ LocalInv' BY <1>a, <2>1, <2>5, <3>1, BeginConn
    <3> QED BY <1>a, <2>1, <2>5, <3>1, <3>2, BeginOwner DEF BaseInv
  <2>6. CASE Step(r)
    <3>1. TypeInv' BY <1>a, <2>1, <2>6, StepType
    <3>2. CASE fault' = "none"
      <4>1. LocalOK(r, conn'[r]) /\ \A q \in Requests \ {r} : conn'[q] = conn[q]
        BY <1>a, <2>1, <2>6, <3>2, StepLocal, StepSummary
      <4>2. LocalInv' BY <1>a, <2>1, <4>1, LocalPrime DEF LocalInv
      <4> QED BY <1>a, <2>1, <2>6, <3>1, <3>2, <4>2, StepPool, StepOwner DEF BaseInv
    <3>3. CASE fault' # "none"
      <4>1. UNCHANGED <<poolVars, treeVars, conn, owner, gone>> BY <2>1, <2>6, <3>3, CrashStep
      <4> QED BY <1>a, <1>b, <2>1, <3>1, <4>1 DEF poolVars, treeVars, TypeInv
    <3> QED BY <3>2, <3>3
  <2> QED BY <2>2, <2>3, <2>4, <2>5, <2>6
<1> QED BY <1>1, <1>2

-----------------------------------------------------------------------------
(* The tree. *)

LEMMA OnTheWay ==
  ASSUME NEW n \in Nodes, NEW i \in 1 .. Len(Above[n])
  PROVE  /\ Above[n][i] \in Nodes /\ Above[n][i] # n /\ Above[n][i] \in Elements(Above[n])
         /\ Above[Above[n][i]] = SubSeq(Above[n], 1, i - 1)
         /\ Len(Above[Above[n][i]]) = i - 1
         /\ \A j \in 1 .. i - 1 : Above[Above[n][i]][j] = Above[n][j]
         /\ Elements(Above[Above[n][i]]) \subseteq Elements(Above[n])
<1>1. Above[n] \in Seq(Nodes) /\ Above[Above[n][i]] = SubSeq(Above[n], 1, i - 1)
  BY PathsAssumption
<1>2. /\ Len(SubSeq(Above[n], 1, i - 1)) = i - 1
      /\ \A j \in 1 .. i - 1 : SubSeq(Above[n], 1, i - 1)[j] = Above[n][j]
  BY <1>1
<1>3. Above[n][i] # n BY <1>1, <1>2
<1> QED BY <1>1, <1>2, <1>3 DEF Elements

LEMMA WayThrough ==
  ASSUME NEW n \in Nodes, NEW m \in Elements(Above[n])
  PROVE  \E k \in Elements(Above[n]) \cup {n} :
           k \in Nodes /\ Above[k] # <<>> /\ Above[k][Len(Above[k])] = m
<1>1. PICK i \in 1 .. Len(Above[n]) : m = Above[n][i] BY DEF Elements
<1>2. Above[n] \in Seq(Nodes) BY PathsAssumption
<1>3. CASE i = Len(Above[n])
  <2>1. Above[n] # <<>> /\ Above[n][Len(Above[n])] = m BY <1>1, <1>2, <1>3
  <2> QED BY <2>1
<1>4. CASE i # Len(Above[n])
  <2> DEFINE k == Above[n][i + 1]
  <2>1. i + 1 \in 1 .. Len(Above[n]) /\ i \in 1 .. (i + 1) - 1 /\ (i + 1) - 1 = i BY <1>1, <1>2, <1>4
  <2>2. /\ k \in Nodes /\ k \in Elements(Above[n]) /\ Len(Above[k]) = i /\ Above[k][i] = Above[n][i]
    BY <2>1, OnTheWay
  <2>3. Above[k] # <<>> BY <2>1, <2>2
  <2> HIDE DEF k
  <2> QED BY <1>1, <2>2, <2>3
<1> QED BY <1>3, <1>4

LEMMA WayIn ==
  ASSUME NEW n \in Nodes, NEW m \in Elements(Above[n])
  PROVE  m \in Nodes /\ m # n /\ Elements(Above[m]) \subseteq Elements(Above[n])
<1>1. PICK i \in 1 .. Len(Above[n]) : m = Above[n][i] BY DEF Elements
<1> QED BY <1>1, OnTheWay

(* What a step may do to the tree ... *)
Removes(r) ==
  /\ req[r].method = "DELETE" /\ tree' = [tree EXCEPT ![Node(r)] = Absent]
  /\ tree[Node(r)] \in Inodes \/ Children(Node(r)) = {}
MakesDir(r) ==
  /\ req[r].method \in Writers
  /\ \E d \in Elements(Above[Node(r)]) \cup {Node(r)} :
       Reachable(d) /\ tree[d] = Absent /\ tree' = [tree EXCEPT ![d] = Dir]
MakesFile(r) ==
  /\ req[r].method \in Writers /\ Reachable(Node(r)) /\ tree[Node(r)] = Absent
  /\ tree' = [tree EXCEPT ![Node(r)] = r]

(* ... and to the files. *)
DataStep(r) ==
  \A i \in Inodes : data'[i] = data[i] \/ (req[r].method \in Writers /\ Home(i) = Node(r))
InoStep(r) ==
  conn'[r].ino = conn[r].ino \/ (conn'[r].ino \in Inodes => Home(conn'[r].ino) = Node(r))

LEMMA TreeStep ==
  ASSUME BaseInv, TreeInv, NEW r \in Requests, Step(r), fault' = "none"
  PROVE  /\ UNCHANGED tree \/ Removes(r) \/ MakesDir(r) \/ MakesFile(r)
         /\ DataStep(r) /\ InoStep(r)
<1> DEFINE c == conn[r]
           d == conn'[r]
<1>a. /\ c \in ConnType /\ LocalOK(r, c) /\ TypeInv /\ Node(r) \in Nodes
      /\ req[r] \in RequestType /\ Above[Node(r)] \in Seq(Nodes)
      /\ req[r].slash \/ Above[Node(r)] # <<>>
  BY Request DEF BaseInv, LocalInv
<1>b. d = conn'[r] OBVIOUS
<1> HIDE DEF c, d
<1>c. ASSUME NEW e, Become(r, e) PROVE d = e
  BY <1>a, <1>c DEF Become, TypeInv, d
<1> DEFINE Goal == /\ UNCHANGED tree \/ Removes(r) \/ MakesDir(r) \/ MakesFile(r)
                   /\ DataStep(r) /\ InoStep(r)
<1> SUFFICES Goal
  OBVIOUS
<1>d. ASSUME UNCHANGED treeVars, d.ino = c.ino PROVE Goal
  BY <1>d DEF treeVars, DataStep, InoStep, c, d
<1> HIDE DEF Goal
<1> USE DEF Only, At
<1>1. CASE SendError(r)
  <2> DEFINE e == Goto(Answer(PutLength(c, 1), c.status), c.then)
  <2>1. Become(r, e) /\ UNCHANGED treeVars BY <1>1 DEF SendError, Crash, Respond, c
  <2>2. e.ino = c.ino BY <1>a DEF Goto, Answer, PutLength, ConnType
  <2> HIDE DEF e
  <2> QED BY <1>c, <1>d, <2>1, <2>2
<1>2. CASE StatGet(r) \/ StatDelete(r)
  <2>1. ASSUME NEW w PROVE Goto([c EXCEPT !.want = w], "head").ino = c.ino
    BY <1>a DEF Goto, ConnType
  <2>3. \A l : Goto(c, l).ino = c.ino /\ Fail(c, l).ino = c.ino
    BY <1>a, Moves DEF SameButPc, SameWork
  <2>2. PICK e : Become(r, e) /\ e.ino = c.ino
    BY <1>2, <2>1, <2>3 DEF StatGet, StatDelete, c
  <2> QED BY <1>2, <1>c, <1>d, <2>2 DEF StatGet, StatDelete
<1>3. CASE ListDir(r)
  <2>1. [Fail(c, 405) EXCEPT !.alone = FALSE].ino = c.ino BY <1>a DEF Fail, ConnType
  <2>2. ASSUME NEW f PROVE Goto([c EXCEPT !.want = <<Listing>>, !.file = f], "head").ino = c.ino
    BY <1>a DEF Goto, ConnType
  <2>3. PICK e : Become(r, e) /\ e.ino = c.ino
    BY <1>3, <2>1, <2>2 DEF ListDir, Crash, c
  <2> QED BY <1>3, <1>c, <1>d, <2>3 DEF ListDir, Crash
<1>4. CASE SendHead(r)
  <2> DEFINE l == IF req[r].method = "HEAD" THEN "close" ELSE IF c.file = None THEN "open" ELSE "send"
             e == Goto(Answer(PutLength(c, Len(c.want)), 200), l)
  <2>1. Become(r, e) /\ UNCHANGED treeVars BY <1>4 DEF SendHead, Crash, Respond, c
  <2>2. e.ino = c.ino BY <1>a DEF Goto, Answer, PutLength, ConnType
  <2> HIDE DEF e
  <2> QED BY <1>c, <1>d, <2>1, <2>2
<1>5. CASE OpenGet(r)
  <2>1. CASE Found(r) /\ Free # {}
    <3> DEFINE e == Goto([c EXCEPT !.file = Min(Free), !.ino = tree[Node(r)]], "send")
    <3>1. Become(r, e) /\ UNCHANGED treeVars BY <1>5, <2>1 DEF OpenGet, c
    <3>2. e.ino = tree[Node(r)] BY <1>a DEF Goto, ConnType
    <3> HIDE DEF e
    <3>3. d.ino = tree[Node(r)] BY <1>c, <3>1, <3>2
    <3>4. tree[Node(r)] \in Inodes => Home(tree[Node(r)]) = Node(r) BY <1>a DEF TreeInv
    <3> QED BY <3>1, <3>3, <3>4 DEF Goal, treeVars, DataStep, InoStep, d
  <2>2. CASE ~(Found(r) /\ Free # {})
    <3>1. Become(r, Goto(c, "close")) /\ UNCHANGED treeVars BY <1>5, <2>2 DEF OpenGet, Crash, c
    <3>2. Goto(c, "close").ino = c.ino BY <1>a, Moves DEF SameButPc, SameWork
    <3> QED BY <1>c, <1>d, <3>1, <3>2
  <2> QED BY <2>1, <2>2
<1>6. CASE SendBody(r)
  <2>1. ASSUME NEW x PROVE [c EXCEPT !.body = Append(@, x)].ino = c.ino
    BY <1>a DEF ConnType
  <2>2. Goto(c, "close").ino = c.ino BY <1>a, Moves DEF SameButPc, SameWork
  <2>3. UNCHANGED treeVars BY <1>6 DEF SendBody
  <2>4. Become(r, Goto(c, "close")) \/ \E x : Become(r, [c EXCEPT !.body = Append(@, x)])
    BY <1>6, Zenon DEF SendBody, c
  <2> QED BY <1>c, <1>d, <2>1, <2>2, <2>3, <2>4
<1>7. ASSUME NEW l, NEW ok, Remove(r, l, ok), req[r].method = "DELETE",
             ok => tree[Node(r)] \in Inodes \/ Children(Node(r)) = {}
      PROVE  Goal
  <2>1. PICK e : Become(r, e) /\ e.ino = c.ino
    BY <1>7, <1>a, Moves DEF Remove, c, SameButPc, SameWork
  <2>2. d.ino = c.ino /\ UNCHANGED data BY <1>7, <1>c, <2>1 DEF Remove
  <2>3. UNCHANGED tree \/ Removes(r) BY <1>7 DEF Remove, Removes
  <2> QED BY <2>2, <2>3 DEF Goal, DataStep, InoStep, c, d
<1>8. CASE Rmdir(r) \/ Unlink(r)
  <2>1. c.pc \in {"rmdir", "unlink"} BY <1>8 DEF Rmdir, Unlink, Remove, c
  <2>2. req[r].method = "DELETE"
    BY <1>a, <2>1 DEF LocalOK, MethodOK, LabelsOf, Started, Writers, RequestType, Methods
  <2> QED BY <1>7, <1>8, <2>2 DEF Rmdir, Unlink, IsFile
<1>9. CASE Mkdir(r)
  <2>1. c.pc = "mkdirs" /\ UNCHANGED data BY <1>9 DEF Mkdir, c
  <2>2. req[r].method \in Writers
    BY <1>a, <2>1 DEF LocalOK, MethodOK, LabelsOf, Started, Writers, RequestType, Methods
  <2> DEFINE n == DirPath(r)[c.dirs + 1]
  <2>3. UNCHANGED tree \/ (Reachable(n) /\ tree[n] = Absent /\ tree' = [tree EXCEPT ![n] = Dir])
    BY <1>9 DEF Mkdir, c
  <2>4. d.ino = c.ino
    <3>1. ASSUME NEW k, NEW l PROVE [c EXCEPT !.dirs = k, !.pc = l].ino = c.ino
      BY <1>a DEF ConnType
    <3>2. \E k, l : Become(r, [c EXCEPT !.dirs = k, !.pc = l]) BY <1>9, Zenon DEF Mkdir, c
    <3> QED BY <1>c, <3>1, <3>2
  <2>5. n \in Elements(Above[Node(r)]) \cup {Node(r)}
    <3>1. DirPath(r) \in Seq(Nodes) BY <1>a DEF DirPath
    <3>2. c.dirs + 1 \in 1 .. Len(DirPath(r))
      <4>1. c.dirs < Len(DirPath(r)) /\ c.dirs \in Nat
        BY <1>a, <2>1 DEF LocalOK, BodyOK, ConnType
      <4> QED BY <3>1, <4>1
    <3>3. CASE req[r].slash
      <4>1. DirPath(r) = Append(Above[Node(r)], Node(r)) BY <3>3 DEF DirPath
      <4> QED BY <1>a, <3>2, <4>1 DEF Elements
    <3>4. CASE ~req[r].slash
      <4>1. DirPath(r) = Above[Node(r)] BY <3>4 DEF DirPath
      <4> QED BY <1>a, <3>2, <4>1 DEF Elements
    <3> QED BY <3>3, <3>4
  <2> QED BY <2>1, <2>2, <2>3, <2>4, <2>5 DEF Goal, MakesDir, DataStep, InoStep, c, d
<1>10. CASE Create(r)
  <2>1. c.pc = "create" BY <1>10 DEF Create, c
  <2>2. req[r].method \in Writers
    BY <1>a, <2>1 DEF LocalOK, MethodOK, LabelsOf, Started, Writers, RequestType, Methods
  <2> DEFINE i == IF tree[Node(r)] = Absent THEN r ELSE tree[Node(r)]
             o == [c EXCEPT !.file = Min(Free), !.ino = i]
             e == IF Lengthless(r) THEN [Fail(o, 411) EXCEPT !.then = "answer"] ELSE Goto(o, "copy")
             g == [Fail(c, 405) EXCEPT !.alone = @ /\ Free # {}]
             ok == Reachable(Node(r)) /\ ~req[r].slash /\ tree[Node(r)] # Dir /\ Free # {}
  <2>3. CASE ok
    <3>1. Become(r, e) /\ tree' = [tree EXCEPT ![Node(r)] = i] /\ data' = [data EXCEPT ![i] = <<>>]
      BY <1>10, <2>3 DEF Create, c
    <3>2. e.ino = i BY <1>a DEF ConnType, Goto, Fail
    <3>3. i \in Inodes /\ Home(i) = Node(r)
      BY <1>a, <2>3, NamesAssumption DEF Inodes, TreeInv, TypeInv, Home
    <3>4. tree' = tree \/ MakesFile(r) BY <1>a, <2>2, <2>3, <3>1 DEF TypeInv, MakesFile
    <3>5. \A j \in Inodes : data'[j] = data[j] \/ j = i BY <1>a, <3>1 DEF TypeInv
    <3> HIDE DEF e, i
    <3>6. d.ino = i BY <1>c, <3>1, <3>2
    <3> QED BY <2>2, <3>3, <3>4, <3>5, <3>6 DEF Goal, DataStep, InoStep, d
  <2>4. CASE ~ok
    <3>1. Become(r, g) /\ UNCHANGED treeVars BY <1>10, <2>4 DEF Create, c
    <3>2. g.ino = c.ino BY <1>a DEF ConnType, Fail
    <3> HIDE DEF g
    <3> QED BY <1>c, <1>d, <3>1, <3>2
  <2> QED BY <2>3, <2>4
<1>11. ASSUME NEW b, NEW k, Flush(r, b, k), b.ino = c.ino, d.ino = c.ino, c.ino \in Inodes,
              req[r].method \in Writers
       PROVE  Goal
  <2>1. Home(c.ino) = Node(r) BY <1>11 DEF TreeInv, c
  <2>2. UNCHANGED tree /\ \A j \in Inodes : data'[j] = data[j] \/ j = c.ino
    BY <1>a, <1>11 DEF Flush, TypeInv
  <2> QED BY <1>11, <2>1, <2>2 DEF Goal, DataStep, InoStep, c, d
<1>12. CASE CopyBody(r)
  <2>1. c.pc = "copy" BY <1>12 DEF CopyBody, c
  <2>2. req[r].method \in Writers /\ c.ino \in Inodes
    BY <1>a, <2>1 DEF LocalOK, MethodOK, LabelsOf, Started, Writers, RequestType, Methods, BodyOK
  <2> DEFINE more == [c EXCEPT !.body = Append(@, r)]
  <2>3. ASSUME NEW k PROVE [more EXCEPT !.flushed = k].ino = c.ino /\ more.ino = c.ino
    BY <1>a DEF ConnType
  <2>4. Goto(c, "answer").ino = c.ino BY <1>a, Moves DEF SameButPc, SameWork
  <2>5. \/ Become(r, Goto(c, "answer")) /\ UNCHANGED treeVars
        \/ \E k : Flush(r, more, k) /\ Become(r, [more EXCEPT !.flushed = k])
    BY <1>12, Zenon DEF CopyBody, c
  <2> HIDE DEF more
  <2>6. CASE Become(r, Goto(c, "answer")) /\ UNCHANGED treeVars BY <1>c, <1>d, <2>4, <2>6
  <2>7. ASSUME NEW k, Flush(r, more, k), Become(r, [more EXCEPT !.flushed = k]) PROVE Goal
    <3>1. d.ino = c.ino /\ more.ino = c.ino BY <1>c, <2>3, <2>7
    <3> QED BY <1>11, <2>2, <2>7, <3>1
  <2> QED BY <2>5, <2>6, <2>7
<1>13. CASE DoneDelete(r) \/ DonePut(r) \/ DonePost(r)
  <2>1. PICK e \in {c, PutLength(c, 0)}, n \in {200, 201} : Respond(r, Goto(Answer(e, n), "close"))
    BY <1>13 DEF DoneDelete, DonePut, DonePost, Done, c
  <2> DEFINE x == Goto(Answer(e, n), "close")
  <2>2. Become(r, x) /\ UNCHANGED treeVars BY <2>1 DEF Respond, Crash
  <2>3. x.ino = c.ino BY <1>a, <2>1 DEF Goto, Answer, PutLength, ConnType
  <2> HIDE DEF x
  <2> QED BY <1>c, <1>d, <2>2, <2>3
<1>14. CASE Close(r)
  <2>1. Become(r, Goto([c EXCEPT !.file = None], "close again")) BY <1>14 DEF Close, c
  <2>2. Goto([c EXCEPT !.file = None], "close again").ino = c.ino BY <1>a DEF Goto, ConnType
  <2>3. d.ino = c.ino BY <1>c, <2>1, <2>2
  <2>4. CASE c.ino # None /\ req[r].method \in Writers
    <3>1. c.ino \in Inodes BY <1>a, <2>4 DEF LocalOK, BodyOK
    <3>2. Flush(r, c, Len(c.body)) BY <1>14, <2>4, Zenon DEF Close, c
    <3> QED BY <1>11, <2>3, <2>4, <3>1, <3>2
  <2>5. CASE ~(c.ino # None /\ req[r].method \in Writers)
    <3>1. UNCHANGED treeVars BY <1>14, <2>5 DEF Close, c
    <3> QED BY <1>d, <2>3, <3>1
  <2> QED BY <2>4, <2>5
<1>15. CASE CloseAgain(r) \/ ReturnEarly(r)
  <2>1. Become(r, Goto(c, "done")) /\ UNCHANGED treeVars
    BY <1>15 DEF CloseAgain, ReturnEarly, Crash, c
  <2>2. Goto(c, "done").ino = c.ino BY <1>a, Moves DEF SameButPc, SameWork
  <2> QED BY <1>c, <1>d, <2>1, <2>2
<1> QED BY <1>1, <1>2, <1>3, <1>4, <1>5, <1>6, <1>8, <1>9, <1>10, <1>12, <1>13, <1>14, <1>15
        DEF Step, Goal

LEMMA TreeKept ==
  ASSUME BaseInv, TreeInv, NEW r \in Requests, Step(r), fault' = "none", UNCHANGED req
  PROVE  TreeInv'
<1>a. TypeInv /\ Node(r) \in Nodes /\ InoStep(r) BY Request, TreeStep DEF BaseInv
<1>b. \A q \in Requests \ {r} : conn'[q] = conn[q] BY StepSummary DEF BaseInv
<1>c. \A i : Home(i)' = Home(i) BY DEF Home, Node
<1>d. \A n \in Nodes : tree[n] # Absent => \A m \in Elements(Above[n]) : m \in Nodes /\ tree[m] = Dir
  BY WayIn DEF TreeInv, Reachable
<1>1. \A q \in Requests : conn'[q].ino \in Inodes => Home(conn'[q].ino) = Node(q)
  BY <1>a, <1>b DEF InoStep, TreeInv
<1>2. ASSUME \A n \in Nodes : tree'[n] # Absent => \A m \in Elements(Above[n]) : tree'[m] = Dir,
             \A n \in Nodes : tree'[n] \in Inodes => Home(tree'[n]) = n
      PROVE  TreeInv'
  BY <1>1, <1>2, <1>c DEF TreeInv, Reachable, Elements, Node
<1>3. CASE UNCHANGED tree BY <1>2, <1>3, <1>d DEF TreeInv
<1>4. CASE Removes(r)
  <2>1. \A n \in Nodes : tree'[n] = IF n = Node(r) THEN Absent ELSE tree[n]
    BY <1>4, <1>a DEF Removes, TypeInv
  <2>2. ASSUME NEW n \in Nodes, tree[n] # Absent, Node(r) \in Elements(Above[n]) PROVE FALSE
    <3>1. tree[Node(r)] = Dir BY <1>d, <2>2
    <3>2. PICK k \in Elements(Above[n]) \cup {n} :
            k \in Nodes /\ Above[k] # <<>> /\ Above[k][Len(Above[k])] = Node(r)
      BY <2>2, WayThrough
    <3>3. tree[k] # Absent BY <1>d, <2>2, <3>2, NamesAssumption
    <3>4. k \in Children(Node(r)) BY <3>2, <3>3 DEF Children
    <3> QED BY <1>4, <3>1, <3>4, NamesAssumption DEF Removes
  <2> QED BY <1>2, <1>d, <2>1, <2>2, NamesAssumption DEF TreeInv
<1>5. CASE MakesDir(r)
  <2>1. PICK d \in Elements(Above[Node(r)]) \cup {Node(r)} :
          Reachable(d) /\ tree[d] = Absent /\ tree' = [tree EXCEPT ![d] = Dir]
    BY <1>5 DEF MakesDir
  <2>2. d \in Nodes BY <1>a, <2>1, WayIn
  <2>3. \A n \in Nodes : tree'[n] = IF n = d THEN Dir ELSE tree[n]
    BY <1>a, <2>1, <2>2 DEF TypeInv
  <2>4. \A m \in Elements(Above[d]) : m \in Nodes /\ tree[m] = Dir
    BY <2>1, <2>2, WayIn DEF Reachable
  <2> QED BY <1>2, <1>d, <2>1, <2>3, <2>4, NamesAssumption DEF TreeInv
<1>6. CASE MakesFile(r)
  <2>1. \A n \in Nodes : tree'[n] = IF n = Node(r) THEN r ELSE tree[n]
    BY <1>6, <1>a DEF MakesFile, TypeInv
  <2>2. \A m \in Elements(Above[Node(r)]) : m \in Nodes /\ m # Node(r) /\ tree[m] = Dir
    BY <1>6, <1>a, WayIn DEF MakesFile, Reachable
  <2>3. Home(r) = Node(r) /\ r # Absent BY NamesAssumption DEF Home, Inodes
  <2>4. tree[Node(r)] = Absent /\ Absent # Dir BY <1>6, NamesAssumption DEF MakesFile
  <2> QED BY <1>2, <1>d, <2>1, <2>2, <2>3, <2>4 DEF TreeInv
<1> QED BY <1>3, <1>4, <1>5, <1>6, TreeStep

-----------------------------------------------------------------------------
(* What a request that does not conflict leaves alone. *)

Undisturbed(r) ==
  /\ tree'[Node(r)] = tree[Node(r)]
  /\ \A m \in Elements(Above[Node(r)]) : tree'[m] = tree[m] \/ (tree[m] = Absent /\ tree'[m] = Dir)
  /\ req[r].method = "DELETE" => Children(Node(r))' = Children(Node(r))
  /\ \A i \in Inodes : Home(i) = Node(r) => data'[i] = data[i]

LEMMA Apart ==
  ASSUME BaseInv, TreeInv, NEW q \in Requests, NEW r \in Requests, Step(q), fault' = "none",
         UNCHANGED req, ~Conflict(q, r)
  PROVE  Undisturbed(r)
<1> DEFINE n == Node(r)
           m == Node(q)
<1>a. TypeInv /\ n \in Nodes /\ m \in Nodes /\ n' = n BY Request DEF BaseInv, Node
<1>b. req[q].method \in Writers \cup {"DELETE"} =>
        m \notin Elements(Above[n]) /\ m # n /\ n \notin Elements(Above[m])
  BY DEF Conflict
<1>c. ASSUME NEW k \in Nodes, Above[k] # <<>> PROVE Above[k][Len(Above[k])] \in Elements(Above[k])
  <2>1. Above[k] \in Seq(Nodes) BY PathsAssumption
  <2>2. Len(Above[k]) \in 1 .. Len(Above[k]) BY <1>c, <2>1
  <2> QED BY <2>2 DEF Elements
<1>d. DataStep(q) /\ (UNCHANGED tree \/ Removes(q) \/ MakesDir(q) \/ MakesFile(q)) BY TreeStep
<1>1. \A i \in Inodes : Home(i) = n => data'[i] = data[i]
  BY <1>b, <1>d DEF DataStep
<1> HIDE DEF n, m
<1>2. ASSUME NEW d \in Nodes, NEW x, tree' = [tree EXCEPT ![d] = x], d # n, n \notin Elements(Above[d]),
             d \in Elements(Above[n]) => tree[d] = Absent /\ x = Dir
      PROVE  Undisturbed(r)
  <2>1. \A k \in Nodes : tree'[k] = IF k = d THEN x ELSE tree[k] BY <1>2, <1>a DEF TypeInv
  <2>2. \A k \in Elements(Above[n]) : k \in Nodes BY <1>a, WayIn
  <2>3. ASSUME NEW k \in Nodes, Above[k] # <<>>, Above[k][Len(Above[k])] = n
        PROVE  tree'[k] = tree[k]
    <3>1. k # d BY <1>2, <1>c, <2>3
    <3> QED BY <2>1, <3>1
  <2>4. Children(n)' = Children(n) BY <1>a, <2>3 DEF Children
  <2> QED BY <1>1, <1>2, <1>a, <2>1, <2>2, <2>4 DEF Undisturbed, n
<1>3. CASE UNCHANGED tree BY <1>1, <1>3, <1>a DEF Undisturbed, Children, n
<1>4. CASE Removes(q)
  BY <1>2, <1>4, <1>a, <1>b DEF Removes, m
<1>5. CASE MakesDir(q)
  <2>1. PICK d \in Elements(Above[m]) \cup {m} :
          Reachable(d) /\ tree[d] = Absent /\ tree' = [tree EXCEPT ![d] = Dir]
    BY <1>5 DEF MakesDir, m
  <2>2. d \in Nodes /\ (d = m \/ Elements(Above[d]) \subseteq Elements(Above[m]))
    BY <1>a, <2>1, WayIn
  <2>3. m # n /\ n \notin Elements(Above[m]) BY <1>5, <1>b DEF MakesDir
  <2>4. d # n /\ n \notin Elements(Above[d]) BY <2>1, <2>2, <2>3
  <2> QED BY <1>2, <2>1, <2>2, <2>4
<1>6. CASE MakesFile(q)
  BY <1>2, <1>6, <1>a, <1>b DEF MakesFile, m
<1> QED BY <1>d, <1>3, <1>4, <1>5, <1>6

(* In such a tree a path is found whenever it is there. *)
AllExist ==
  \A r \in Requests : /\ IsFile(r) <=> tree[Node(r)] \in Inodes /\ ~req[r].slash
                      /\ IsDir(r) <=> tree[Node(r)] = Dir
LEMMA Exists == TypeInv /\ TreeInv => AllExist
<1> SUFFICES ASSUME TypeInv, TreeInv, NEW r \in Requests
             PROVE  /\ IsFile(r) <=> tree[Node(r)] \in Inodes /\ ~req[r].slash
                    /\ IsDir(r) <=> tree[Node(r)] = Dir
  BY DEF AllExist
<1>1. Node(r) \in Nodes BY Request
<1>2. tree[Node(r)] # Absent => Reachable(Node(r)) BY <1>1 DEF TreeInv
<1> QED BY <1>1, <1>2, NamesAssumption DEF IsFile, IsDir, Found

LEMMA PromiseKept ==
  ASSUME TypeInv, TypeInv', TreeInv, TreeInv', NEW r \in Requests, UNCHANGED req, Undisturbed(r)
  PROVE  /\ Promise(r)' = Promise(r) /\ (IsFile(r)' <=> IsFile(r)) /\ (IsDir(r)' <=> IsDir(r))
         /\ (Writable(r)' <=> Writable(r)) /\ (Reachable(Node(r)) => Reachable(Node(r))')
<1> DEFINE n == Node(r)
<1>a. n \in Nodes /\ n' = n /\ Above[n] \in Seq(Nodes) /\ req[r] \in RequestType BY Request DEF Node
<1>1. (TypeInv /\ TreeInv => AllExist)' BY Exists, PTL
<1>2. tree'[n] = tree[n] BY DEF Undisturbed
<1>3. (IsFile(r)' <=> IsFile(r)) /\ (IsDir(r)' <=> IsDir(r))
  BY <1>a, <1>1, <1>2, Exists DEF AllExist, Inodes
<1>4. \A i \in 1 .. Len(Above[n]) :
        \/ tree'[Above[n][i]] = tree[Above[n][i]]
        \/ (tree[Above[n][i]] = Absent /\ tree'[Above[n][i]] = Dir)
  BY <1>a DEF Undisturbed, Elements
<1>5. Writable(r)' <=> Writable(r)
  <2>1. Blocked(r)' <=> Blocked(r) BY <1>a, <1>4, NamesAssumption DEF Blocked
  <2> QED BY <1>a, <1>2, <2>1 DEF Writable
<1>6. Reachable(n) => Reachable(n)'
  BY <1>a, NamesAssumption DEF Reachable, Undisturbed
<1>7. IsFile(r) => data'[tree'[n]] = data[tree[n]]
  <2>1. IsFile(r) => tree[n] \in Inodes /\ Home(tree[n]) = n BY <1>a DEF IsFile, TreeInv
  <2> QED BY <1>2, <2>1 DEF Undisturbed
<1>8. AllPromises' BY PromiseOf, PTL
<1>9. PromiseTable(r) /\ PromiseTable(r)' BY <1>8, PromiseOf DEF AllPromises
<1>10. Promise(r)' = Promise(r)
  <2>1. CASE req[r].method \in {"GET", "HEAD"}
    BY <1>a, <1>3, <1>7, <1>9, <2>1 DEF PromiseTable
  <2>2. CASE req[r].method = "DELETE"
    <3>1. Children(n)' = Children(n) BY <2>2 DEF Undisturbed
    <3> QED BY <1>a, <1>3, <1>9, <2>2, <3>1 DEF PromiseTable
  <2>3. CASE req[r].method \in Writers
    <3>1. Content(r)' = Content(r) BY DEF Content
    <3> QED BY <1>3, <1>5, <1>9, <2>3, <3>1 DEF PromiseTable, Writers
  <2>4. CASE req[r].method \in {"other", "bad", "empty"}
    BY <1>9, <2>4 DEF PromiseTable
  <2> QED BY <1>a, <2>1, <2>2, <2>3, <2>4 DEF RequestType, Methods, Writers
<1> QED BY <1>3, <1>5, <1>6, <1>10

-----------------------------------------------------------------------------
(* What a request that is alone knows, while others take their steps. *)

LEMMA Persist ==
  ASSUME TypeInv, TypeInv', LocalInv, TreeInv, TreeInv', NEW r \in Requests,
         UNCHANGED req, gone \subseteq gone',
         Undisturbed(r), SameWork(conn[r], conn'[r]),
         conn'[r].pc = conn[r].pc, conn'[r].due = conn[r].due, conn'[r].status = conn[r].status,
         LoneOK(r, conn[r])
  PROVE  LoneOK(r, conn[r])'
<1> DEFINE c == conn[r]
           d == conn'[r]
<1>a. /\ d.pc = c.pc /\ d.due = c.due
      /\ d.file = c.file /\ d.ino = c.ino /\ d.body = c.body /\ d.want = c.want /\ d.status = c.status
      /\ d.flushed = c.flushed /\ d.dirs = c.dirs /\ d.answers = c.answers
  BY DEF SameWork
<1>l. /\ Before(r, c) /\ Reading(r, c) /\ Stored(r, c) /\ Removed(r, c) /\ Told(r, c) /\ Shown(r, c)
  BY DEF LoneOK
<1>b. /\ Promise(r)' = Promise(r) /\ (IsFile(r)' <=> IsFile(r)) /\ (IsDir(r)' <=> IsDir(r))
      /\ (Writable(r)' <=> Writable(r)) /\ (Reachable(Node(r)) => Reachable(Node(r))')
  BY PromiseKept
<1>c. /\ tree'[Node(r)] = tree[Node(r)] /\ Node(r)' = Node(r) /\ Content(r)' = Content(r)
      /\ c.ino \in Inodes => data'[c.ino] = data[c.ino]
  BY DEF Undisturbed, Node, Content, TreeInv
<1>d. d = conn'[r] /\ (r \notin gone' => r \notin gone) OBVIOUS
<1> HIDE DEF c, d
<1>1. Before(r, conn[r])'
  <2>1. ASSUME d.pc = "mkdirs", Writable(r) PROVE \A i \in 1 .. d.dirs : tree'[Above[Node(r)][i]] = Dir
    <3>1. \A i \in 1 .. c.dirs : tree[Above[Node(r)][i]] = Dir BY <1>a, <1>l, <2>1 DEF Before
    <3>2. c.dirs \in Nat /\ c.dirs < Len(DirPath(r)) /\ Above[Node(r)] \in Seq(Nodes)
      <4>1. c \in ConnType /\ LocalOK(r, c) /\ Above[Node(r)] \in Seq(Nodes)
        BY Request DEF LocalInv, c
      <4> QED BY <1>a, <2>1, <4>1 DEF ConnType, LocalOK, BodyOK
    <3>3. ~req[r].slash BY <2>1 DEF Writable
    <3>4. \A i \in 1 .. c.dirs : Above[Node(r)][i] \in Elements(Above[Node(r)])
      BY <3>2, <3>3 DEF DirPath, Elements
    <3> QED BY <1>a, <3>1, <3>4, NamesAssumption DEF Undisturbed
  <2> QED BY <1>a, <1>b, <1>c, <1>d, <1>l, <2>1 DEF Before, Waiting
<1>2. Reading(r, conn[r])' BY <1>a, <1>c, <1>d, <1>l DEF Reading
<1>3. Stored(r, conn[r])'
  <2>1. Stored(r, d) BY <1>a, <1>l, ZenonT(60) DEF Stored
  <2>2. ASSUME req[r].method \in Writers, d.due.status \in {200, 201}, d.pc \in Holding
        PROVE  /\ d.due.body = Content(r) /\ req[r].length # None
               /\ Reachable(Node(r))' /\ tree'[Node(r)] = d.ino /\ d.ino \in Inodes
               /\ Len(d.body) <= Len(Content(r))
               /\ d.pc # "close again" => data'[d.ino] = SubSeq(d.body, 1, d.flushed)
               /\ d.pc = "close again" => data'[d.ino] = d.body
               /\ d.pc # "copy" /\ r \notin gone' /\ req[r].length < IntCells => Len(d.body) = Len(Content(r))
    <3>1. d.ino \in Inodes BY <2>1, <2>2 DEF Stored
    <3>2. data'[d.ino] = data[d.ino] BY <1>a, <1>c, <3>1
    <3> QED BY <1>b, <1>c, <1>d, <2>1, <2>2, <3>2 DEF Stored
  <2> QED BY <1>c, <1>d, <2>2 DEF Stored
<1>4. Removed(r, conn[r])' BY <1>a, <1>c, <1>d, <1>l DEF Removed
<1>5. Told(r, conn[r])' BY <1>a, <1>d, <1>l DEF Told
<1>6. Shown(r, conn[r])'
  <2>1. Shown(r, d) BY <1>a, <1>l, Zenon DEF Shown
  <2> QED BY <1>d, <2>1 DEF Shown
<1> QED BY <1>1, <1>2, <1>3, <1>4, <1>5, <1>6 DEF LoneOK

(* Before it runs and when it has ended there is nothing that others could  *)
(* disturb.                                                                  *)
LEMMA Resting ==
  ASSUME NEW r \in Requests, UNCHANGED req, gone \subseteq gone', conn'[r].pc \notin Running,
         SameWork(conn[r], conn'[r]), conn'[r].pc \in Labels,
         conn'[r].pc = conn[r].pc, conn'[r].due = conn[r].due, conn'[r].status = conn[r].status,
         LoneOK(r, conn[r])
  PROVE  LoneOK(r, conn[r])'
<1> DEFINE c == conn[r]
           d == conn'[r]
<1>a. /\ Told(r, c) /\ Shown(r, c) /\ d.pc = c.pc /\ d.due = c.due /\ d.body = c.body /\ d.status = c.status
      /\ d.answers = c.answers /\ d.pc \in {"idle", "queued", "done"}
  BY DEF LoneOK, SameWork, Running
<1>d. d = conn'[r] /\ (r \notin gone' => r \notin gone) OBVIOUS
<1> HIDE DEF c, d
<1>1. Before(r, conn[r])' BY <1>a, <1>d DEF Before, Waiting
<1>2. Reading(r, conn[r])' BY <1>a, <1>d DEF Reading
<1>3. Stored(r, conn[r])' BY <1>a, <1>d DEF Stored, Holding
<1>4. Removed(r, conn[r])' BY <1>a, <1>d DEF Removed, Holding
<1>5. Told(r, conn[r])' BY <1>a, <1>d DEF Told
<1>6. Shown(r, conn[r])'
  <2>1. Shown(r, d) BY <1>a, Zenon DEF Shown
  <2> QED BY <1>d, <2>1 DEF Shown
<1> QED BY <1>1, <1>2, <1>3, <1>4, <1>5, <1>6 DEF LoneOK

LEMMA WriteOut ==
  ASSUME NEW S, NEW s \in Seq(S), NEW f \in Nat, NEW k \in Nat, f <= k, k <= Len(s)
  PROVE  WriteAt(SubSeq(s, 1, f), f, SubSeq(s, f + 1, k)) = SubSeq(s, 1, k)
<1>1. /\ Len(SubSeq(s, 1, f)) = f /\ \A i \in 1 .. f : SubSeq(s, 1, f)[i] = s[i]
      /\ Len(SubSeq(s, f + 1, k)) = k - f /\ \A i \in 1 .. k - f : SubSeq(s, f + 1, k)[i] = s[f + i]
  OBVIOUS
<1>2. Max({f, f + (k - f)}) = k
  <2>1. f + (k - f) = k OBVIOUS
  <2>2. Max({f, k}) >= k /\ Max({f, k}) \in {f, k} /\ Max({f, k}) \in Nat BY MaxOf
  <2> QED BY <2>1, <2>2
<1>3. \A i \in 1 .. k : (IF i \in f + 1 .. f + (k - f) THEN SubSeq(s, f + 1, k)[i - f]
                         ELSE IF i <= f THEN SubSeq(s, 1, f)[i] ELSE Hole) = s[i]
  <2> SUFFICES ASSUME NEW i \in 1 .. k
               PROVE  (IF i \in f + 1 .. f + (k - f) THEN SubSeq(s, f + 1, k)[i - f]
                       ELSE IF i <= f THEN SubSeq(s, 1, f)[i] ELSE Hole) = s[i]
    OBVIOUS
  <2>1. CASE i <= f BY <1>1, <2>1
  <2>2. CASE i > f
    <3>1. i - f \in 1 .. k - f /\ f + (i - f) = i BY <2>2
    <3>2. SubSeq(s, f + 1, k)[i - f] = s[f + (i - f)] BY <1>1, <3>1
    <3> QED BY <2>2, <3>1, <3>2
  <2> QED BY <2>1, <2>2
<1>4. WriteAt(SubSeq(s, 1, f), f, SubSeq(s, f + 1, k)) = [i \in 1 .. k |-> s[i]]
  BY <1>1, <1>2, <1>3 DEF WriteAt
<1> QED BY <1>4

LEMMA SameTree ==
  ASSUME TypeInv, TypeInv', TreeInv, TreeInv', NEW r \in Requests, UNCHANGED <<req, treeVars, gone>>,
         LoneOK(r, conn'[r])
  PROVE  LoneOK(r, conn[r])'
<1> DEFINE d == conn'[r]
<1>a. /\ Before(r, d) /\ Reading(r, d) /\ Stored(r, d) /\ Removed(r, d) /\ Told(r, d) /\ Shown(r, d)
  BY DEF LoneOK
<1>1. Undisturbed(r) BY DEF Undisturbed, treeVars, Children, Node
<1>b. /\ Promise(r)' = Promise(r) /\ (IsFile(r)' <=> IsFile(r)) /\ (IsDir(r)' <=> IsDir(r))
      /\ (Writable(r)' <=> Writable(r)) /\ (Reachable(Node(r)) => Reachable(Node(r))')
  BY <1>1, PromiseKept
<1>c. /\ tree' = tree /\ data' = data /\ gone' = gone /\ Node(r)' = Node(r) /\ Content(r)' = Content(r)
      /\ DirPath(r)' = DirPath(r)
  BY DEF treeVars, Node, Content, DirPath
<1>d. d = conn'[r] OBVIOUS
<1> HIDE DEF d
<1>2. Before(r, conn[r])' BY <1>a, <1>b, <1>c, <1>d DEF Before, Waiting
<1>3. Reading(r, conn[r])' BY <1>a, <1>c, <1>d DEF Reading
<1>4. Stored(r, conn[r])' BY <1>a, <1>b, <1>c, <1>d DEF Stored
<1>5. Removed(r, conn[r])' BY <1>a, <1>c, <1>d DEF Removed
<1>6. Told(r, conn[r])' BY <1>a, <1>d DEF Told
<1>7. Shown(r, conn[r])' BY <1>a, <1>c, <1>d DEF Shown
<1> QED BY <1>2, <1>3, <1>4, <1>5, <1>6, <1>7 DEF LoneOK

(* The steps that leave the tree and the files as they are. *)
LEMMA QuietLone ==
  ASSUME BaseInv, TreeInv, NEW r \in Requests, fault' = "none", UNCHANGED req,
         LoneOK(r, conn[r]), conn'[r].alone, LocalOK(r, conn'[r]),
         \/ SendError(r) \/ StatGet(r) \/ ListDir(r) \/ SendHead(r) \/ OpenGet(r) \/ SendBody(r)
         \/ StatDelete(r) \/ DoneDelete(r) \/ DonePut(r) \/ DonePost(r)
         \/ CloseAgain(r) \/ ReturnEarly(r)
  PROVE  LoneOK(r, conn'[r])
<1> DEFINE c == conn[r]
           d == conn'[r]
<1>a. /\ c \in ConnType /\ LocalOK(r, c) /\ LocalOK(r, d) /\ TypeInv /\ Node(r) \in Nodes
      /\ req[r] \in RequestType /\ PromiseTable(r)
      /\ IsFile(r) <=> tree[Node(r)] \in Inodes /\ ~req[r].slash
      /\ IsDir(r) <=> tree[Node(r)] = Dir
  BY Request, PromiseOf, Exists DEF BaseInv, LocalInv, AllPromises, AllExist
<1>l. /\ Before(r, c) /\ Reading(r, c) /\ Stored(r, c) /\ Removed(r, c) /\ Told(r, c) /\ Shown(r, c)
  BY DEF LoneOK
<1>d. d = conn'[r] /\ d.alone OBVIOUS
<1> HIDE DEF c, d
<1>c. ASSUME NEW e, Become(r, e) PROVE d = e
  BY <1>a, <1>c DEF Become, TypeInv, d
<1>n. ~(IsFile(r) /\ IsDir(r)) BY NamesAssumption DEF IsFile, IsDir
<1> SUFFICES LoneOK(r, d)
  BY DEF d
<1> USE DEF Only, At, Writers
<1>1. CASE SendError(r)
  <2> DEFINE e == Goto(Answer(PutLength(c, 1), c.status), c.then)
  <2>1. Become(r, e) /\ c.pc = "error" BY <1>1 DEF SendError, Crash, Respond, c
  <2>2. /\ e.pc = c.then /\ e.due = c.due /\ e.body = c.body /\ e.ino = c.ino /\ e.flushed = c.flushed
        /\ e.answers = Append(c.answers, [status |-> c.status, lens |-> Append(c.lens, 1)])
        /\ c.then \in {"close", "return", "answer"}
    BY <1>a DEF Goto, Answer, PutLength, ConnType
  <2>3. c.answers = <<>> BY <1>a, <2>1 DEF LocalOK, AnswerOK
  <2>4. e.answers # <<>> /\ e.answers[1].status = c.status BY <2>2, <2>3
  <2>5. c.status = c.due.status /\ c.status \notin {200, 201} BY <1>l, <2>1 DEF Told
  <2> HIDE DEF e
  <2>6. d = e BY <1>c, <2>1
  <2>7. Before(r, d) BY <2>2, <2>6 DEF Before, Waiting
  <2>8. Reading(r, d) BY <2>2, <2>6 DEF Reading
  <2>9. Stored(r, d) /\ Removed(r, d)
    <3>1. d.due.status # 200 /\ d.due.status # 201 BY <2>2, <2>5, <2>6
    <3>2. Stored(r, d) BY <3>1 DEF Stored
    <3>3. Removed(r, d) BY <3>1 DEF Removed
    <3> QED BY <3>2, <3>3
  <2>10. Told(r, d) BY <2>2, <2>4, <2>5, <2>6, SMTT(30) DEF Told
  <2>11. Shown(r, d) BY <2>4, <2>5, <2>6 DEF Shown
  <2> QED BY <2>7, <2>8, <2>9, <2>10, <2>11 DEF LoneOK
<1>2. CASE StatGet(r)
  <2>1. c.pc = "stat" /\ req[r].method \in {"GET", "HEAD"} BY <1>2 DEF StatGet, c
  <2>2. c.due = Promise(r) /\ c.answers = <<>> /\ c.file = None
    BY <1>a, <1>l, <2>1 DEF Before, Waiting, LocalOK, AnswerOK, SockOK, Opening
  <2>3. CASE IsFile(r)
    <3> DEFINE e == Goto([c EXCEPT !.want = data[tree[Node(r)]]], "head")
    <3>1. Become(r, e) BY <1>2, <2>3 DEF StatGet, c
    <3>2. /\ e.pc = "head" /\ e.due = c.due /\ e.answers = c.answers /\ e.file = c.file
          /\ e.want = data[tree[Node(r)]]
      BY <1>a DEF Goto, ConnType
    <3> HIDE DEF e
    <3>3. d = e BY <1>c, <3>1
    <3>4. c.due = [status |-> 200, body |-> e.want] BY <1>a, <2>1, <2>2, <2>3, <3>2 DEF PromiseTable
    <3>5. Before(r, d) BY <2>2, <2>3, <3>2, <3>3 DEF Before, Waiting
    <3>6. Reading(r, d) BY <3>2, <3>3, <3>4 DEF Reading
    <3>7. Stored(r, d) /\ Removed(r, d) BY <2>1 DEF Stored, Removed
    <3>8. Told(r, d) BY <2>2, <3>2, <3>3 DEF Told, Answered
    <3>9. Shown(r, d) BY <3>2, <3>3 DEF Shown, Answered
    <3> QED BY <3>5, <3>6, <3>7, <3>8, <3>9 DEF LoneOK
  <2>4. CASE ~IsFile(r) /\ IsDir(r) /\ req[r].slash
    <3>1. d = Goto(c, "list") BY <1>2, <1>c, <2>4 DEF StatGet, c
    <3>2. d.pc = "list" /\ d.due = c.due /\ d.answers = c.answers
      BY <1>a, <3>1, Moves DEF SameButPc, SameWork
    <3>5. Before(r, d) BY <2>2, <2>4, <3>2 DEF Before, Waiting
    <3>6. Reading(r, d) BY <3>2 DEF Reading
    <3>7. Stored(r, d) /\ Removed(r, d) BY <2>1 DEF Stored, Removed
    <3>8. Told(r, d) BY <2>2, <3>2 DEF Told, Answered
    <3>9. Shown(r, d) BY <3>2 DEF Shown, Answered
    <3> QED BY <3>5, <3>6, <3>7, <3>8, <3>9 DEF LoneOK
  <2>5. CASE ~IsFile(r) /\ ~(IsDir(r) /\ req[r].slash)
    <3>1. d = Fail(c, 404) BY <1>2, <1>c, <2>5 DEF StatGet, c
    <3>2. d.pc = "error" /\ d.due = c.due /\ d.answers = c.answers /\ d.status = 404
      BY <1>a, <3>1, Moves DEF SameButPc, SameWork
    <3>3. c.due.status = 404 BY <1>a, <2>1, <2>2, <2>5 DEF PromiseTable
    <3>5. Before(r, d) BY <3>2 DEF Before, Waiting
    <3>6. Reading(r, d) BY <3>2 DEF Reading
    <3>7. Stored(r, d) /\ Removed(r, d) BY <2>1 DEF Stored, Removed
    <3>8. Told(r, d) BY <2>2, <3>2, <3>3 DEF Told, Answered
    <3>9. Shown(r, d) BY <3>2 DEF Shown, Answered
    <3> QED BY <3>5, <3>6, <3>7, <3>8, <3>9 DEF LoneOK
  <2> QED BY <2>3, <2>4, <2>5
<1>3. CASE ListDir(r)
  <2>1. c.pc = "list" BY <1>3 DEF ListDir, c
  <2>2. /\ c.due = Promise(r) /\ c.answers = <<>> /\ IsDir(r) /\ req[r].slash
        /\ req[r].method \in {"GET", "HEAD"}
    BY <1>a, <1>l, <2>1 DEF Before, Waiting, LocalOK, AnswerOK, Opening, MethodOK, LabelsOf, Started,
                         RequestType, Methods
  <2>3. ~NoTempFile
    <3>1. [Fail(c, 405) EXCEPT !.alone = FALSE].alone = FALSE BY <1>a DEF Fail, ConnType
    <3> QED BY <1>3, <1>c, <1>d, <3>1 DEF ListDir, c
  <2> DEFINE e == Goto([c EXCEPT !.want = <<Listing>>, !.file = Min(Free)], "head")
  <2>4. Become(r, e) BY <1>3, <2>3 DEF ListDir, Crash, c
  <2>5. /\ e.pc = "head" /\ e.due = c.due /\ e.answers = c.answers /\ e.file = Min(Free)
        /\ e.want = <<Listing>>
    BY <1>a DEF Goto, ConnType
  <2> HIDE DEF e
  <2>6. d = e BY <1>c, <2>4
  <2>7. Min(Free) # None BY <1>a, <2>3, FreeOne, NamesAssumption DEF NoTempFile
  <2>8. c.due = [status |-> 200, body |-> <<Listing>>] BY <1>a, <1>n, <2>2 DEF PromiseTable
  <2>9. Before(r, d) BY <2>5, <2>6, <2>7 DEF Before, Waiting
  <2>10. Reading(r, d) BY <2>5, <2>6, <2>8 DEF Reading
  <2>11. Stored(r, d) /\ Removed(r, d) BY <2>2 DEF Stored, Removed
  <2>12. Told(r, d) BY <2>2, <2>5, <2>6 DEF Told, Answered
  <2>13. Shown(r, d) BY <2>5, <2>6 DEF Shown, Answered
  <2> QED BY <2>9, <2>10, <2>11, <2>12, <2>13 DEF LoneOK
<1>4. CASE SendHead(r)
  <2> DEFINE l == IF req[r].method = "HEAD" THEN "close" ELSE IF c.file = None THEN "open" ELSE "send"
             e == Goto(Answer(PutLength(c, Len(c.want)), 200), l)
  <2>1. Become(r, e) /\ c.pc = "head" BY <1>4 DEF SendHead, Crash, Respond, c
  <2>2. /\ e.pc = l /\ e.due = c.due /\ e.file = c.file /\ e.want = c.want /\ e.ino = c.ino
        /\ e.body = c.body
        /\ e.answers = Append(c.answers, [status |-> 200, lens |-> Append(c.lens, Len(c.want))])
    BY <1>a DEF Goto, Answer, PutLength, ConnType
  <2> HIDE DEF e
  <2>3. /\ c.answers = <<>> /\ c.lens = <<>> /\ c.ino = None /\ c.body = <<>>
        /\ req[r].method \in {"GET", "HEAD"}
    BY <1>a, <2>1 DEF LocalOK, AnswerOK, BodyOK, MethodOK, LabelsOf, Started, RequestType, Methods
  <2>4. e.answers # <<>> /\ e.answers[1].status = 200 /\ e.answers[1].lens = <<Len(c.want)>>
    BY <2>2, <2>3
  <2>5. c.due = [status |-> 200, body |-> c.want] BY <1>l, <2>1 DEF Reading
  <2>6. c.file = None => c.due = Promise(r) /\ IsFile(r) BY <1>l, <2>1 DEF Before, Waiting
  <2>7. d = e BY <1>c, <2>1
  <2>8. Before(r, d) BY <2>2, <2>6, <2>7 DEF Before, Waiting
  <2>9. Reading(r, d) BY <2>2, <2>3, <2>5, <2>7 DEF Reading
  <2>10. Stored(r, d) /\ Removed(r, d) BY <2>3 DEF Stored, Removed
  <2>13. /\ d.pc \in {"close", "open", "send"}
         /\ d.pc = "close" => req[r].method = "HEAD" /\ d.body = <<>>
         /\ d.answers # <<>> /\ d.answers[1].status = 200 /\ d.answers[1].lens = <<Len(c.want)>>
         /\ d.due.status = 200 /\ d.due.body = c.want
    BY <2>2, <2>3, <2>4, <2>5, <2>7
  <2>11. Told(r, d) BY <2>13 DEF Told
  <2>12. Shown(r, d) BY <2>13 DEF Shown
  <2> QED BY <2>8, <2>9, <2>10, <2>11, <2>12 DEF LoneOK
<1>5. CASE OpenGet(r)
  <2>1. c.pc = "open" BY <1>5 DEF OpenGet, c
  <2>2. /\ c.due = Promise(r) /\ c.due = [status |-> 200, body |-> c.want] /\ IsFile(r)
        /\ req[r].method = "GET" /\ c.body = <<>>
    BY <1>a, <1>l, <2>1 DEF Before, Waiting, Reading, LocalOK, MethodOK, BodyOK
  <2>3. c.want = data[tree[Node(r)]] /\ tree[Node(r)] \in Inodes
    <3>1. Promise(r) = [status |-> 200, body |-> data[tree[Node(r)]]]
      BY <1>a, <2>2 DEF PromiseTable
    <3>2. [status |-> 200, body |-> c.want].body = [status |-> 200, body |-> data[tree[Node(r)]]].body
      BY <2>2, <3>1
    <3> QED BY <2>2, <3>2 DEF IsFile
  <2>4. Told(r, c) /\ Shown(r, c) /\ c.answers # <<>> BY <1>l, <2>1, <2>2 DEF Told, Answered
  <2>5. CASE Found(r) /\ Free # {}
    <3> DEFINE e == Goto([c EXCEPT !.file = Min(Free), !.ino = tree[Node(r)]], "send")
    <3>1. Become(r, e) BY <1>5, <2>5 DEF OpenGet, c
    <3>2. /\ e.pc = "send" /\ e.due = c.due /\ e.answers = c.answers /\ e.body = c.body
          /\ e.want = c.want /\ e.ino = tree[Node(r)]
      BY <1>a DEF Goto, ConnType
    <3> HIDE DEF e
    <3>3. d = e BY <1>c, <3>1
    <3>4. Before(r, d) BY <3>2, <3>3 DEF Before, Waiting
    <3>5. Reading(r, d) BY <2>2, <2>3, <3>2, <3>3 DEF Reading
    <3>6. Stored(r, d) /\ Removed(r, d) BY <2>2 DEF Stored, Removed
    <3>7. Told(r, d) BY <2>2, <2>4, <3>2, <3>3 DEF Told
    <3>8. Shown(r, d) BY <2>1, <2>4, <3>2, <3>3 DEF Shown, Answered
    <3> QED BY <3>4, <3>5, <3>6, <3>7, <3>8 DEF LoneOK
  <2>6. CASE ~(Found(r) /\ Free # {})
    <3>1. Copied(Len(c.want)) = 0 /\ d = Goto(c, "close") BY <1>5, <1>c, <2>6 DEF OpenGet, Crash, c
    <3>2. d.pc = "close" /\ d.due = c.due /\ d.answers = c.answers /\ d.body = c.body
      BY <1>a, <3>1, Moves DEF SameButPc, SameWork
    <3>3. Len(c.due.body) < IntCells => c.due.body = <<>>
      <4>1. c.want \in Seq(Page) /\ c.due.body = c.want BY <1>a, <2>2 DEF ConnType
      <4>2. Len(c.want) < IntCells => Len(c.want) = 0 BY <3>1, <4>1, CopiedIs
      <4> QED BY <4>1, <4>2
    <3>4. Before(r, d) BY <3>2 DEF Before, Waiting
    <3>5. Reading(r, d) BY <3>2 DEF Reading
    <3>6. Stored(r, d) /\ Removed(r, d) BY <2>2 DEF Stored, Removed
    <3>7. Told(r, d) BY <2>2, <2>4, <3>2 DEF Told
    <3>8. Shown(r, d) BY <2>1, <2>2, <2>4, <3>2, <3>3 DEF Shown, Answered
    <3> QED BY <3>4, <3>5, <3>6, <3>7, <3>8 DEF LoneOK
  <2> QED BY <2>5, <2>6
<1>6. CASE SendBody(r)
  <2> DEFINE source == IF c.ino = None THEN c.want ELSE data[c.ino]
             n == Len(c.body)
  <2>1. c.pc = "send" BY <1>6 DEF SendBody, c
  <2>2. /\ req[r].method = "GET" /\ n <= Copied(Len(c.want)) /\ c.body \in Seq(Page) /\ c.want \in Seq(Page)
        /\ c.due = [status |-> 200, body |-> c.want] /\ source = c.want
        /\ \A i \in 1 .. n : c.body[i] = c.want[i]
    BY <1>a, <1>l, <2>1 DEF LocalOK, MethodOK, BodyOK, Reading, ConnType
  <2>w. /\ Copied(Len(c.want)) \in Nat /\ Copied(Len(c.want)) <= Len(c.want)
        /\ Len(c.want) < IntCells => Copied(Len(c.want)) = Len(c.want)
    BY <2>2, CopiedIs
  <2>3. c.answers # <<>> BY <1>l, <2>1, <2>2 DEF Told, Answered
  <2>4. CASE n = Copied(Len(c.want)) \/ r \in gone \/ n >= Len(source)
    <3>1. d = Goto(c, "close") BY <1>6, <1>c, <2>4 DEF SendBody, c
    <3>2. d.pc = "close" /\ d.due = c.due /\ d.answers = c.answers /\ d.body = c.body
      BY <1>a, <3>1, Moves DEF SameButPc, SameWork
    <3>3. r \notin gone /\ Len(c.due.body) < IntCells => c.body = c.due.body
      <4>1. r \notin gone /\ Len(c.want) < IntCells => n = Len(c.want) BY <2>2, <2>4, <2>w
      <4>2. n = Len(c.want) => c.body = c.want BY <2>2
      <4> QED BY <2>2, <4>1, <4>2
    <3>4. Before(r, d) BY <3>2 DEF Before, Waiting
    <3>5. Reading(r, d) BY <3>2 DEF Reading
    <3>6. Stored(r, d) /\ Removed(r, d) BY <2>2 DEF Stored, Removed
    <3>7. Told(r, d) BY <1>l, <2>2, <2>3, <3>2 DEF Told
    <3>8. Shown(r, d) BY <1>l, <2>1, <2>2, <3>2, <3>3 DEF Shown, Answered
    <3> QED BY <3>4, <3>5, <3>6, <3>7, <3>8 DEF LoneOK
  <2>5. CASE ~(n = Copied(Len(c.want)) \/ r \in gone \/ n >= Len(source))
    <3> DEFINE e == [c EXCEPT !.body = Append(@, source[n + 1])]
    <3>1. Become(r, e) BY <1>6, <2>5 DEF SendBody, c
    <3>2. /\ e.pc = "send" /\ e.due = c.due /\ e.answers = c.answers /\ e.ino = c.ino /\ e.want = c.want
          /\ e.body = Append(c.body, source[n + 1])
      BY <1>a, <2>1 DEF ConnType
    <3> HIDE DEF e
    <3>3. d = e BY <1>c, <3>1
    <3>4. \A i \in 1 .. Len(e.body) : e.body[i] = c.want[i]
      BY <2>2, <2>5, <2>w, <3>2
    <3> HIDE DEF source
    <3>5. Before(r, d) BY <3>2, <3>3 DEF Before, Waiting
    <3>6. Reading(r, d) BY <1>l, <2>1, <3>2, <3>3, <3>4 DEF Reading
    <3>7. Stored(r, d) /\ Removed(r, d) BY <2>2 DEF Stored, Removed
    <3>8. Told(r, d) BY <1>l, <2>2, <2>3, <3>2, <3>3 DEF Told
    <3>9. Shown(r, d) BY <1>l, <2>1, <3>2, <3>3 DEF Shown, Answered
    <3> QED BY <3>5, <3>6, <3>7, <3>8, <3>9 DEF LoneOK
  <2> QED BY <2>4, <2>5
<1>7. CASE StatDelete(r)
  <2>1. c.pc = "stat" /\ req[r].method = "DELETE" BY <1>7 DEF StatDelete, c
  <2>2. c.due = Promise(r) /\ c.answers = <<>>
    BY <1>a, <1>l, <2>1 DEF Before, Waiting, LocalOK, AnswerOK, Opening
  <2>3. \/ d = Goto(c, "rmdir") /\ IsDir(r) /\ req[r].slash
        \/ d = Goto(c, "unlink") /\ IsFile(r)
        \/ d = Fail(c, 404) /\ ~IsFile(r) /\ ~(IsDir(r) /\ req[r].slash)
    BY <1>7, <1>c DEF StatDelete, c
  <2>4. /\ d.due = c.due /\ d.answers = c.answers
        /\ \/ d.pc = "rmdir" /\ IsDir(r) /\ req[r].slash
           \/ d.pc = "unlink" /\ IsFile(r)
           \/ d.pc = "error" /\ d.status = 404 /\ ~IsFile(r) /\ ~(IsDir(r) /\ req[r].slash)
    BY <1>a, <2>3, Moves DEF SameButPc, SameWork
  <2>5. d.pc = "error" => c.due.status = 404 BY <1>a, <2>1, <2>2, <2>4 DEF PromiseTable
  <2>6. Before(r, d) BY <2>2, <2>4 DEF Before, Waiting
  <2>7. Reading(r, d) BY <2>4 DEF Reading
  <2>8. Stored(r, d) /\ Removed(r, d) BY <2>1, <2>4 DEF Stored, Removed, Holding
  <2>9. Told(r, d)
    <3>1. d.answers = <<>> /\ d.pc \in {"rmdir", "unlink", "error"} BY <2>2, <2>4
    <3>2. d.pc = "error" => d.status = 404 /\ d.due.status = 404 BY <2>4, <2>5
    <3>3. CASE d.pc = "error" BY <3>1, <3>2, <3>3 DEF Told, Answered
    <3>4. CASE d.pc \in {"rmdir", "unlink"} BY <3>1, <3>4 DEF Told, Answered
    <3> QED BY <3>1, <3>3, <3>4
  <2>10. Shown(r, d) BY <2>1 DEF Shown
  <2> QED BY <2>6, <2>7, <2>8, <2>9, <2>10 DEF LoneOK
<1>8. CASE DoneDelete(r) \/ DonePut(r) \/ DonePost(r)
  <2>1. PICK e \in {c, PutLength(c, 0)}, n \in {200, 201} :
          /\ Respond(r, Goto(Answer(e, n), "close")) /\ c.pc = "answer"
          /\ \/ req[r].method \in {"DELETE", "POST"} /\ n = 200
             \/ req[r].method = "PUT" /\ n = 201
    BY <1>8 DEF DoneDelete, DonePut, DonePost, Done, c
  <2> DEFINE x == Goto(Answer(e, n), "close")
  <2>2. Become(r, x) BY <2>1 DEF Respond, Crash
  <2>3. /\ x.pc = "close" /\ x.due = c.due /\ x.ino = c.ino /\ x.body = c.body /\ x.flushed = c.flushed
        /\ \E l \in Seq(Nat) : x.answers = Append(c.answers, [status |-> n, lens |-> l])
    <3>1. c.lens \in Seq(Nat) /\ Append(c.lens, 0) \in Seq(Nat) BY <1>a DEF ConnType
    <3>2. /\ x.pc = "close" /\ x.due = c.due /\ x.ino = c.ino /\ x.body = c.body /\ x.flushed = c.flushed
          /\ \/ x.answers = Append(c.answers, [status |-> n, lens |-> c.lens])
             \/ x.answers = Append(c.answers, [status |-> n, lens |-> Append(c.lens, 0)])
      BY <1>a, <2>1, ZenonT(40) DEF Goto, Answer, PutLength, ConnType
    <3> HIDE DEF x
    <3> QED BY <3>1, <3>2
  <2> HIDE DEF x
  <2>4. d = x BY <1>c, <2>2
  <2>5. /\ d.answers # <<>>
        /\ c.answers = <<>> => d.answers[1].status = n
        /\ c.answers # <<>> => d.answers[1] = c.answers[1]
    <3>1. PICK l \in Seq(Nat) : d.answers = Append(c.answers, [status |-> n, lens |-> l]) BY <2>3, <2>4
    <3>2. c.answers \in Seq(Answers) BY <1>a DEF ConnType
    <3> QED BY <3>1, <3>2, SMTT(30)
  <2>6. \/ d.answers[1].status = c.due.status
        \/ req[r].method = "PUT" /\ d.answers[1].status = 201
    <3>1. CASE c.answers = <<>> BY <1>l, <2>1, <2>5, <3>1 DEF Told
    <3>2. CASE c.answers # <<>> BY <1>l, <2>1, <2>5, <3>2 DEF Told
    <3> QED BY <3>1, <3>2
  <2>7. Before(r, d) BY <2>3, <2>4 DEF Before, Waiting
  <2>8. Reading(r, d) BY <2>3, <2>4 DEF Reading
  <2>9. Stored(r, d)
    <3>1. ASSUME req[r].method \in Writers, c.due.status \in {200, 201}
          PROVE  /\ c.due.body = Content(r) /\ req[r].length # None
                 /\ Reachable(Node(r)) /\ tree[Node(r)] = c.ino /\ c.ino \in Inodes
                 /\ Len(c.body) <= Len(Content(r))
                 /\ data[c.ino] = SubSeq(c.body, 1, c.flushed)
                 /\ r \notin gone /\ req[r].length < IntCells => Len(c.body) = Len(Content(r))
      BY <1>l, <2>1, <3>1 DEF Stored, Holding
    <3>2. /\ d.pc = "close" /\ d.due = c.due /\ d.ino = c.ino /\ d.body = c.body
          /\ d.flushed = c.flushed
      BY <2>3, <2>4
    <3> QED BY <3>1, <3>2 DEF Stored
  <2>10. Removed(r, d) BY <1>l, <2>1, <2>3, <2>4 DEF Removed, Holding
  <2>11. Told(r, d) BY <2>3, <2>4, <2>5, <2>6 DEF Told
  <2>12. Shown(r, d) BY <2>1 DEF Shown
  <2> QED BY <2>7, <2>8, <2>9, <2>10, <2>11, <2>12 DEF LoneOK
<1>9. CASE CloseAgain(r) \/ ReturnEarly(r)
  <2>1. c.pc \in {"close again", "return"} /\ d = Goto(c, "done")
    BY <1>9, <1>c DEF CloseAgain, ReturnEarly, Crash, c
  <2>2. d.pc = "done" /\ d.due = c.due /\ d.answers = c.answers /\ d.body = c.body
    BY <1>a, <2>1, Moves, ZenonT(40) DEF SameButPc, SameWork
  <2>3. c.pc = "return" => req[r].method \in {"bad", "empty"}
    BY <1>a, <2>1 DEF LocalOK, MethodOK, LeftOpen
  <2>4. Before(r, d) BY <2>2 DEF Before, Waiting
  <2>5. Reading(r, d) BY <2>2 DEF Reading
  <2>6. Stored(r, d) /\ Removed(r, d) BY <2>2 DEF Stored, Removed, Holding
  <2>7. Told(r, d) BY <1>l, <2>1, <2>2, <2>3, ZenonT(40) DEF Told, Answered
  <2>8. Shown(r, d)
    <3>1. CASE c.pc = "return" BY <2>3, <3>1 DEF Shown
    <3>2. CASE c.pc = "close again" BY <1>l, <2>2, <3>2 DEF Shown, Answered
    <3> QED BY <2>1, <3>1, <3>2
  <2> QED BY <2>4, <2>5, <2>6, <2>7, <2>8 DEF LoneOK
<1> QED BY <1>1, <1>2, <1>3, <1>4, <1>5, <1>6, <1>7, <1>8, <1>9

(* The steps of a DELETE on the tree. *)
LEMMA RemoveLone ==
  ASSUME BaseInv, TreeInv, NEW r \in Requests, UNCHANGED req, LoneOK(r, conn[r]), Rmdir(r) \/ Unlink(r)
  PROVE  LoneOK(r, conn[r])'
<1> DEFINE c == conn[r]
           d == conn'[r]
<1>a. /\ c \in ConnType /\ LocalOK(r, c) /\ Node(r) \in Nodes /\ tree \in [Nodes -> Inodes \cup {Absent, Dir}]
      /\ req[r] \in RequestType /\ PromiseTable(r) /\ Before(r, c)
  BY Request, PromiseOf DEF BaseInv, TypeInv, LocalInv, AllPromises, LoneOK
<1>d. d = conn'[r] OBVIOUS
<1>c. ASSUME NEW e, Become(r, e) PROVE d = e
  BY <1>c DEF Become, TypeInv, BaseInv
<1> HIDE DEF c, d
<1>1. c.pc \in {"rmdir", "unlink"} BY DEF Rmdir, Unlink, Remove, At, c
<1>2. req[r].method = "DELETE" /\ c.due = Promise(r) /\ c.answers = <<>>
  BY <1>a, <1>1 DEF Before, Waiting, LocalOK, AnswerOK, MethodOK, LabelsOf, Opening, Started,
                    RequestType, Methods, Writers
<1>n. ~(IsFile(r) /\ IsDir(r)) BY NamesAssumption DEF IsFile, IsDir
<1>3. \/ d = Goto(c, "answer") /\ tree' = [tree EXCEPT ![Node(r)] = Absent] /\ c.due.status = 200
      \/ d = Fail(c, 405) /\ c.due.status = 405
  <2>1. CASE Rmdir(r)
    <3>1. c.pc = "rmdir" /\ IsDir(r) /\ req[r].slash
      BY <1>a, <2>1 DEF Rmdir, Remove, At, Before, c
    <3>2. c.due.status = IF Children(Node(r)) = {} THEN 200 ELSE 405
      BY <1>a, <1>2, <1>n, <3>1 DEF PromiseTable
    <3> QED BY <1>c, <2>1, <3>1, <3>2 DEF Rmdir, Remove, c
  <2>2. CASE Unlink(r)
    <3>1. c.pc = "unlink" /\ IsFile(r) BY <1>a, <2>2 DEF Unlink, Remove, At, Before, c
    <3>2. c.due.status = 200 BY <1>a, <1>2, <3>1 DEF PromiseTable
    <3> QED BY <1>c, <2>2, <3>1, <3>2 DEF Unlink, Remove, c
  <2> QED BY <2>1, <2>2
<1>4. /\ d.due = c.due /\ d.answers = <<>>
      /\ \/ d.pc = "answer" /\ tree'[Node(r)] = Absent /\ d.due.status = 200
         \/ d.pc = "error" /\ d.status = 405 /\ d.due.status = 405
  BY <1>a, <1>2, <1>3, Moves DEF SameButPc, SameWork
<1>5. Node(r)' = Node(r) /\ req' = req BY DEF Node
<1>6. Before(r, conn[r])' BY <1>4, <1>d DEF Before, Waiting
<1>7. Reading(r, conn[r])' BY <1>4, <1>d DEF Reading
<1>8. Stored(r, conn[r])' BY <1>2, <1>5 DEF Stored, Writers
<1>9. Removed(r, conn[r])' BY <1>4, <1>5, <1>d DEF Removed
<1>10. Told(r, conn[r])'
  <2>1. CASE d.pc = "answer" BY <1>2, <1>4, <1>5, <1>d, <2>1 DEF Told, Answered
  <2>2. CASE d.pc = "error" BY <1>4, <1>5, <1>d, <2>2 DEF Told, Answered
  <2> QED BY <1>4, <2>1, <2>2
<1>11. Shown(r, conn[r])' BY <1>2, <1>5 DEF Shown
<1> QED BY <1>6, <1>7, <1>8, <1>9, <1>10, <1>11 DEF LoneOK

(* One mkdir of the path: a path that can be written stays so, and its       *)
(* directories are there up to the one the request has come to.              *)
LEMMA MkdirLone ==
  ASSUME BaseInv, TypeInv', TreeInv, TreeInv', NEW r \in Requests, UNCHANGED req, LoneOK(r, conn[r]),
         Mkdir(r)
  PROVE  LoneOK(r, conn[r])'
<1> DEFINE c == conn[r]
           d == conn'[r]
           n == Node(r)
           m == DirPath(r)[c.dirs + 1]
           e == [c EXCEPT !.dirs = IF NotADir(m) THEN Len(DirPath(r)) ELSE @ + 1,
                          !.pc = IF NotADir(m) \/ c.dirs + 1 = Len(DirPath(r)) THEN "create" ELSE @]
<1>a. /\ c \in ConnType /\ LocalOK(r, c) /\ n \in Nodes /\ tree \in [Nodes -> Inodes \cup {Absent, Dir}]
      /\ req[r] \in RequestType /\ PromiseTable(r) /\ Before(r, c) /\ TypeInv /\ Above[n] \in Seq(Nodes)
  BY Request, PromiseOf DEF BaseInv, TypeInv, LocalInv, AllPromises, LoneOK
<1>d. d = conn'[r] /\ n' = n /\ req' = req BY DEF Node
<1>1. /\ c.pc = "mkdirs" /\ d = e /\ UNCHANGED data
      /\ tree' = IF Reachable(m) /\ tree[m] = Absent THEN [tree EXCEPT ![m] = Dir] ELSE tree
  BY DEF Mkdir, At, Become, TypeInv, BaseInv
<1> HIDE DEF c
<1>2. /\ d.due = c.due /\ d.answers = c.answers
      /\ d.dirs = (IF NotADir(m) THEN Len(DirPath(r)) ELSE c.dirs + 1)
      /\ d.pc = (IF NotADir(m) \/ c.dirs + 1 = Len(DirPath(r)) THEN "create" ELSE "mkdirs")
  <2>1. ASSUME NEW x, NEW y, d = [c EXCEPT !.dirs = x, !.pc = y]
        PROVE  d.due = c.due /\ d.answers = c.answers /\ d.dirs = x /\ d.pc = y
    BY <1>a, <2>1 DEF ConnType
  <2> HIDE DEF d, m
  <2> QED BY <1>1, <2>1
<1> HIDE DEF d, n, m, e
<1>3. /\ req[r].method \in Writers /\ c.due = Promise(r) /\ c.answers = <<>>
      /\ c.dirs \in Nat /\ c.dirs < Len(DirPath(r))
  BY <1>a, <1>1 DEF Before, Waiting, LocalOK, AnswerOK, MethodOK, BodyOK, LabelsOf, Opening, Started,
                    RequestType, Methods, ConnType, Writers
<1>4. /\ d.pc \in {"mkdirs", "create"} /\ d.answers = <<>> BY <1>2, <1>3
<1>5. /\ d.due = Promise(r)'
      /\ d.pc = "mkdirs" /\ Writable(r)' => \A i \in 1 .. d.dirs : tree'[Above[n][i]] = Dir
      /\ d.pc = "create" /\ Writable(r)' => Reachable(n)'
  <2>1. CASE req[r].slash
    <3>1. ~Writable(r) /\ ~Writable(r)' BY <1>d, <2>1 DEF Writable
    <3>2. AllPromises' BY PromiseOf, PTL
    <3>3. PromiseTable(r)' BY <3>2 DEF AllPromises
    <3>4. Promise(r)' = Promise(r) BY <1>a, <1>3, <1>d, <3>1, <3>3 DEF PromiseTable
    <3> QED BY <1>2, <1>3, <3>1, <3>4
  <2>2. CASE ~req[r].slash
    <3>1. DirPath(r) = Above[n] BY <2>2 DEF DirPath, n
    <3>2. m = Above[n][c.dirs + 1] /\ c.dirs + 1 \in 1 .. Len(Above[n])
      BY <1>a, <1>3, <3>1 DEF m
    <3>3. m \in Elements(Above[n]) BY <3>2 DEF Elements
    <3>4. m \in Nodes /\ m # n BY <1>a, <3>3, WayIn
    <3>5. Len(Above[m]) = c.dirs /\ \A j \in 1 .. c.dirs : Above[m][j] = Above[n][j]
      <4>1. (c.dirs + 1) - 1 = c.dirs BY <1>3
      <4>2. ASSUME NEW i \in 1 .. Len(Above[n]), m = Above[n][i]
            PROVE  Len(Above[m]) = i - 1 /\ \A j \in 1 .. i - 1 : Above[m][j] = Above[n][j]
        BY <1>a, <4>2, OnTheWay
      <4> QED BY <3>2, <4>1, <4>2
    <3>6. \A k \in Nodes : tree'[k] = tree[k] \/ (k = m /\ tree[m] = Absent /\ tree'[m] = Dir)
      BY <1>1, <1>a, <3>4
    <3>7. Undisturbed(r)
      <4>1. tree'[n] = tree[n] BY <1>a, <3>4, <3>6
      <4>2. \A k \in Elements(Above[n]) : k \in Nodes BY <1>a, WayIn
      <4> QED BY <1>1, <1>3, <3>6, <4>1, <4>2 DEF Undisturbed, n, Writers
    <3>8. /\ Promise(r)' = Promise(r) /\ (Writable(r)' <=> Writable(r))
      BY <1>a, <3>7, PromiseKept
    <3>9. ASSUME Writable(r)
          PROVE  /\ d.dirs = c.dirs + 1 /\ (d.pc = "create" => d.dirs = Len(Above[n]))
                 /\ \A i \in 1 .. d.dirs : tree'[Above[n][i]] = Dir
      <4>1. \A i \in 1 .. Len(Above[n]) : tree[Above[n][i]] \notin Inodes
        BY <3>9 DEF Writable, Blocked, n
      <4>2. \A i \in 1 .. c.dirs : tree[Above[n][i]] = Dir BY <1>a, <1>1, <3>9 DEF Before, n
      <4>3. \A k \in Elements(Above[m]) : tree[k] = Dir
        BY <3>5, <4>2 DEF Elements
      <4>4. Reachable(m) /\ ~NotADir(m) BY <4>3, NamesAssumption DEF Reachable, NotADir
      <4>5. tree'[m] = Dir
        <5>1. tree[m] \in {Absent, Dir} BY <1>a, <3>2, <3>4, <4>1
        <5> QED BY <1>1, <1>a, <3>4, <4>4, <5>1
      <4>6. d.dirs = c.dirs + 1 /\ (d.pc = "create" => d.dirs = Len(Above[n])) BY <1>2, <3>1, <4>4
      <4>7. \A i \in 1 .. c.dirs : Above[n][i] \in Nodes BY <1>a, <1>3, <3>2
      <4>8. \A i \in 1 .. c.dirs : tree'[Above[n][i]] = Dir
        BY <3>6, <4>2, <4>7
      <4> QED BY <1>3, <3>2, <4>5, <4>6, <4>8
    <3>10. d.pc = "create" /\ Writable(r) => Reachable(n)'
      BY <3>9, <1>d DEF Reachable, Elements
    <3> QED BY <1>2, <1>3, <3>8, <3>9, <3>10
  <2> QED BY <2>1, <2>2
<1>6. Before(r, conn[r])' BY <1>4, <1>5, <1>d DEF Before, Waiting, n
<1>7. Reading(r, conn[r])' BY <1>4, <1>d DEF Reading
<1>8. Stored(r, conn[r])' BY <1>4, <1>d DEF Stored, Holding
<1>9. Removed(r, conn[r])' BY <1>4, <1>d DEF Removed, Holding
<1>10. Told(r, conn[r])' BY <1>4, <1>d DEF Told, Answered
<1>11. Shown(r, conn[r])' BY <1>4, <1>d DEF Shown, Answered
<1> QED BY <1>6, <1>7, <1>8, <1>9, <1>10, <1>11 DEF LoneOK

(* fopen of the file that a PUT or POST writes. *)
LEMMA CreateLone ==
  ASSUME BaseInv, TreeInv, NEW r \in Requests, UNCHANGED <<req, gone>>, LoneOK(r, conn[r]),
         Create(r), conn'[r].alone
  PROVE  LoneOK(r, conn[r])'
<1> DEFINE c == conn[r]
           d == conn'[r]
           n == Node(r)
           ino == IF tree[n] = Absent THEN r ELSE tree[n]
           opened == [c EXCEPT !.file = Min(Free), !.ino = ino]
           failed == [Fail(c, 405) EXCEPT !.alone = @ /\ Free # {}]
<1>a. /\ c \in ConnType /\ LocalOK(r, c) /\ n \in Nodes /\ tree \in [Nodes -> Inodes \cup {Absent, Dir}]
      /\ data \in [Inodes -> Seq(Cells)] /\ r \in Inodes /\ Inodes \subseteq Inodes \cup {None, Dir}
      /\ req[r] \in RequestType /\ PromiseTable(r) /\ Before(r, c) /\ Above[n] \in Seq(Nodes)
  BY Request, PromiseOf DEF BaseInv, TypeInv, LocalInv, AllPromises, LoneOK, Inodes
<1>d. d = conn'[r] /\ n' = n /\ req' = req /\ gone' = gone /\ d.alone /\ Content(r)' = Content(r)
  BY DEF Node, Content
<1>c. ASSUME NEW e, Become(r, e) PROVE d = e
  BY <1>c DEF Become, TypeInv, BaseInv
<1>1. /\ c.pc = "create"
      /\ \/ /\ Reachable(n) /\ ~req[r].slash /\ tree[n] # Dir /\ Free # {}
            /\ tree' = [tree EXCEPT ![n] = ino] /\ data' = [data EXCEPT ![ino] = <<>>]
            /\ d = IF Lengthless(r) THEN [Fail(opened, 411) EXCEPT !.then = "answer"]
                   ELSE Goto(opened, "copy")
         \/ ~(Reachable(n) /\ ~req[r].slash /\ tree[n] # Dir /\ Free # {}) /\ d = failed
  BY <1>c DEF Create, At, Only
<1> HIDE DEF c, d, n, ino
<1>2. /\ req[r].method \in Writers /\ c.due = Promise(r) /\ c.answers = <<>>
      /\ c.body = <<>> /\ c.flushed = 0
      /\ Writable(r) => Reachable(n)
  BY <1>a, <1>1 DEF Before, Waiting, LocalOK, AnswerOK, MethodOK, BodyOK, LabelsOf, Opening, Started,
                    RequestType, Methods, Writers, n
<1>3. CASE Reachable(n) /\ ~req[r].slash /\ tree[n] # Dir /\ Free # {}
  <2>1. /\ tree' = [tree EXCEPT ![n] = ino] /\ data' = [data EXCEPT ![ino] = <<>>]
        /\ d = IF Lengthless(r) THEN [Fail(opened, 411) EXCEPT !.then = "answer"]
               ELSE Goto(opened, "copy")
    BY <1>1, <1>3
  <2>2. ino \in Inodes BY <1>a, <1>3 DEF ino
  <2>3. /\ d.due = c.due /\ d.answers = <<>> /\ d.ino = ino /\ d.body = <<>> /\ d.flushed = 0
        /\ Lengthless(r) => d.pc = "error" /\ d.status = 411
        /\ ~Lengthless(r) => d.pc = "copy"
    <3>1. CASE Lengthless(r) BY <1>a, <1>2, <2>1, <3>1 DEF Fail, ConnType
    <3>2. CASE ~Lengthless(r) BY <1>a, <1>2, <2>1, <3>2 DEF Goto, ConnType
    <3> QED BY <3>1, <3>2
  <2> HIDE DEF opened, failed
  <2>4. Writable(r)
    <3>1. ~Blocked(r) BY <1>3, NamesAssumption DEF Blocked, Reachable, Elements, n
    <3> QED BY <1>3, <3>1 DEF Writable, n
  <2>5. /\ Lengthless(r) => d.due.status = 411
        /\ ~Lengthless(r) => /\ req[r].length # None
                             /\ d.due.body = Content(r) /\ d.due.status \in {200, 201}
                             /\ req[r].method = "POST" => d.due.status = 200
    <3>1. Lengthless(r) <=> req[r].length = None BY <1>2 DEF Lengthless
    <3> QED BY <1>a, <1>2, <2>3, <2>4, <3>1 DEF PromiseTable
  <2>6. data'[ino] = <<>> /\ tree'[n] = ino BY <1>a, <2>1, <2>2
  <2>7. Reachable(n)'
    <3>1. \A k \in Elements(Above[n]) : k \in Nodes /\ k # n BY <1>a, WayIn
    <3> QED BY <1>3, <1>a, <1>d, <2>1, <3>1 DEF Reachable, Elements
  <2>8. Before(r, conn[r])' BY <1>d, <2>3 DEF Before, Waiting
  <2>9. Reading(r, conn[r])' BY <1>d, <2>3 DEF Reading
  <2>10. Stored(r, conn[r])'
    <3>1. CASE Lengthless(r) BY <1>d, <2>3, <3>1 DEF Stored, Holding
    <3>2. CASE ~Lengthless(r)
      <4>1. Len(d.body) <= Len(Content(r)) /\ SubSeq(d.body, 1, d.flushed) = <<>>
        <5>1. Content(r) \in Seq({r}) BY <2>5, <3>2, ContentType DEF BaseInv
        <5>2. SubSeq(<<>>, 1, 0) = <<>> OBVIOUS
        <5> QED BY <2>3, <5>1, <5>2
      <4>2. /\ d.pc = "copy" /\ d.due.body = Content(r) /\ req[r].length # None /\ d.ino = ino
            /\ data'[d.ino] = SubSeq(d.body, 1, d.flushed)
        BY <2>3, <2>5, <2>6, <3>2, <4>1
      <4> QED BY <1>d, <2>2, <2>6, <2>7, <4>1, <4>2 DEF Stored, n
    <3> QED BY <3>1, <3>2
  <2>11. Removed(r, conn[r])' BY <1>2, <1>d DEF Removed, Writers
  <2>12. Told(r, conn[r])'
    <3>1. CASE Lengthless(r)
      <4>1. d.pc = "error" /\ d.answers = <<>> /\ d.status = 411 /\ d.due.status = 411
        BY <2>3, <2>5, <3>1
      <4> QED BY <1>d, <4>1 DEF Told, Answered
    <3>2. CASE ~Lengthless(r)
      <4>1. /\ d.pc = "copy" /\ d.answers = <<>> /\ d.due.status \in {200, 201}
            /\ req[r].method = "POST" => d.due.status = 200
        BY <2>3, <2>5, <3>2
      <4> QED BY <1>d, <4>1 DEF Told, Answered
    <3> QED BY <3>1, <3>2
  <2>13. Shown(r, conn[r])' BY <1>2, <1>d DEF Shown, Writers
  <2> QED BY <2>8, <2>9, <2>10, <2>11, <2>12, <2>13 DEF LoneOK
<1>4. CASE ~(Reachable(n) /\ ~req[r].slash /\ tree[n] # Dir /\ Free # {})
  <2>1. d = failed BY <1>1, <1>4
  <2>2. /\ Fail(c, 405).pc = "error" /\ Fail(c, 405).status = 405 /\ Fail(c, 405).due = c.due
        /\ Fail(c, 405).answers = <<>>
    BY <1>a, <1>2, Moves DEF SameButPc, SameWork
  <2>3. Fail(c, 405) \in ConnType BY <1>a, FailType
  <2>4. d.pc = "error" /\ d.status = 405 /\ d.due = c.due /\ d.answers = <<>> /\ Free # {}
    <3>1. ASSUME NEW f \in ConnType, d = [f EXCEPT !.alone = @ /\ Free # {}]
          PROVE  /\ d.pc = f.pc /\ d.status = f.status /\ d.due = f.due /\ d.answers = f.answers
                 /\ d.alone = (f.alone /\ Free # {})
      BY <3>1 DEF ConnType
    <3> QED BY <1>d, <2>1, <2>2, <2>3, <3>1, ZenonT(40)
  <2>5. c.due.status = 405
    <3>1. ~Writable(r) BY <1>2, <1>4, <2>4 DEF Writable, n
    <3> QED BY <1>a, <1>2, <3>1 DEF PromiseTable
  <2>6. Before(r, conn[r])' BY <1>d, <2>4 DEF Before, Waiting
  <2>7. Reading(r, conn[r])' BY <1>d, <2>4 DEF Reading
  <2>8. Stored(r, conn[r])' BY <1>d, <2>4 DEF Stored, Holding
  <2>9. Removed(r, conn[r])' BY <1>d, <2>4 DEF Removed, Holding
  <2>10. Told(r, conn[r])' BY <1>d, <2>4, <2>5 DEF Told, Answered
  <2>11. Shown(r, conn[r])' BY <1>d, <2>4 DEF Shown, Answered
  <2> QED BY <2>6, <2>7, <2>8, <2>9, <2>10, <2>11 DEF LoneOK
<1> QED BY <1>3, <1>4

(* One turn of the copy from the client, and its end. *)
LEMMA CopyLone ==
  ASSUME BaseInv, NEW r \in Requests, UNCHANGED <<req, gone>>, LoneOK(r, conn[r]), CopyBody(r)
  PROVE  LoneOK(r, conn[r])'
<1> DEFINE c == conn[r]
           d == conn'[r]
           n == Node(r)
           more == [c EXCEPT !.body = Append(@, r)]
<1>a. /\ c \in ConnType /\ LocalOK(r, c) /\ n \in Nodes /\ data \in [Inodes -> Seq(Cells)]
      /\ req[r] \in RequestType /\ TypeInv
      /\ Stored(r, c) /\ Told(r, c)
  BY Request DEF BaseInv, TypeInv, LocalInv, LoneOK
<1>d. /\ d = conn'[r] /\ n' = n /\ req' = req /\ gone' = gone /\ Content(r)' = Content(r)
      /\ Lengthless(r)' = Lengthless(r)
  BY DEF Node, Content, Lengthless
<1>c. ASSUME NEW e, Become(r, e) PROVE d = e
  BY <1>c DEF Become, TypeInv, BaseInv
<1>1. /\ c.pc = "copy" /\ UNCHANGED tree
      /\ \/ /\ Len(c.body) = Copied(req[r].length) \/ Len(c.body) = req[r].supply \/ r \in gone
            /\ d = Goto(c, "answer") /\ UNCHANGED data
         \/ /\ Len(c.body) < Min({Copied(req[r].length), req[r].supply})
            /\ \E k \in c.flushed .. Len(more.body) :
                 /\ data' = [data EXCEPT ![more.ino] =
                               WriteAt(@, more.flushed, SubSeq(more.body, more.flushed + 1, k))]
                 /\ d = [more EXCEPT !.flushed = k]
  BY <1>c DEF CopyBody, At, Only, Flush, treeVars
<1> HIDE DEF c, d, n
<1>u. UNCHANGED tree BY <1>1
<1>2. Reachable(n)' <=> Reachable(n) BY <1>u, <1>d DEF Reachable, Elements
<1>3. /\ req[r].method \in Writers /\ req[r].length # None /\ c.answers = <<>>
      /\ c.body \in Seq({r}) /\ c.flushed \in Nat /\ c.flushed <= Len(c.body)
  BY <1>a, <1>1 DEF LocalOK, AnswerOK, MethodOK, BodyOK, LabelsOf, Opening, Started, Lengthless,
                    RequestType, Methods, Writers, ConnType
<1>4. /\ c.due.status \in {200, 201} /\ (req[r].method = "POST" => c.due.status # 201)
      /\ c.due.body = Content(r) /\ Reachable(n) /\ tree[n] = c.ino /\ c.ino \in Inodes
      /\ Len(c.body) <= Len(Content(r)) /\ data[c.ino] = SubSeq(c.body, 1, c.flushed)
  BY <1>a, <1>1, <1>3 DEF Told, Stored, Holding, n
<1>5. /\ Content(r) \in Seq({r}) /\ Len(Content(r)) = Min({req[r].length, req[r].supply})
      /\ Len(Content(r)) <= req[r].length /\ Len(Content(r)) <= req[r].supply
      /\ req[r].length \in Nat /\ req[r].supply \in Nat
  BY <1>a, <1>3, ContentType DEF RequestType
<1>f. /\ Copied(req[r].length) \in Nat /\ Copied(req[r].length) <= req[r].length
      /\ req[r].length < IntCells => Copied(req[r].length) = req[r].length
  BY <1>5, CopiedIs
<1>g. /\ Min({req[r].length, req[r].supply}) \in {req[r].length, req[r].supply}
      /\ Min({Copied(req[r].length), req[r].supply}) \in Nat
      /\ Min({Copied(req[r].length), req[r].supply}) <= Copied(req[r].length)
      /\ Min({Copied(req[r].length), req[r].supply}) <= req[r].supply
  BY <1>5, <1>f, MinOfTwo
<1>6. ASSUME d.pc \in {"copy", "answer"}, d.due = c.due, d.answers = <<>>, d.ino = c.ino,
             Len(d.body) <= Len(Content(r)), data'[c.ino] = SubSeq(d.body, 1, d.flushed),
             d.pc = "answer" /\ r \notin gone /\ req[r].length < IntCells => Len(d.body) = Len(Content(r))
      PROVE  LoneOK(r, conn[r])'
  <2>1. Before(r, conn[r])' BY <1>6, <1>d DEF Before, Waiting
  <2>2. Reading(r, conn[r])' BY <1>6, <1>d DEF Reading
  <2>3. Stored(r, conn[r])'
    <3>1. /\ d.due.body = Content(r)' /\ req'[r].length # None
          /\ Reachable(n)' /\ tree'[n] = d.ino /\ d.ino \in Inodes
          /\ Len(d.body) <= Len(Content(r)') /\ d.pc # "close again"
          /\ data'[d.ino] = SubSeq(d.body, 1, d.flushed)
          /\ d.pc # "copy" /\ r \notin gone' /\ req'[r].length < IntCells => Len(d.body) = Len(Content(r)')
      BY <1>1, <1>2, <1>3, <1>4, <1>6, <1>d
    <3> QED BY <3>1, <1>d DEF Stored, n
  <2>4. Removed(r, conn[r])' BY <1>3, <1>d DEF Removed, Writers
  <2>5. Told(r, conn[r])'
    <3>1. /\ d.due.status \in {200, 201} /\ (req[r].method = "POST" => d.due.status # 201)
          /\ req[r].method \in {"PUT", "POST"}
      BY <1>3, <1>4, <1>6 DEF Writers
    <3>2. CASE d.pc = "copy" BY <1>6, <1>d, <3>1, <3>2 DEF Told, Answered
    <3>3. CASE d.pc = "answer" BY <1>6, <1>d, <3>1, <3>3 DEF Told, Answered
    <3> QED BY <1>6, <3>2, <3>3
  <2>6. Shown(r, conn[r])' BY <1>3, <1>d DEF Shown, Writers
  <2> QED BY <2>1, <2>2, <2>3, <2>4, <2>5, <2>6 DEF LoneOK
<1>7. CASE /\ Len(c.body) = Copied(req[r].length) \/ Len(c.body) = req[r].supply \/ r \in gone
           /\ d = Goto(c, "answer") /\ UNCHANGED data
  <2>1. /\ d.pc = "answer" /\ d.due = c.due /\ d.answers = <<>> /\ d.ino = c.ino /\ d.body = c.body
        /\ d.flushed = c.flushed
    BY <1>a, <1>3, <1>7, Moves DEF SameButPc, SameWork
  <2>2. r \notin gone /\ req[r].length < IntCells => Len(c.body) = Len(Content(r))
    BY <1>3, <1>4, <1>5, <1>7, <1>f, <1>g
  <2> QED BY <1>4, <1>6, <1>7, <2>1, <2>2
<1>8. ASSUME Len(c.body) < Min({Copied(req[r].length), req[r].supply}), NEW k \in c.flushed .. Len(more.body),
             data' = [data EXCEPT ![more.ino] =
                        WriteAt(@, more.flushed, SubSeq(more.body, more.flushed + 1, k))],
             d = [more EXCEPT !.flushed = k]
      PROVE  LoneOK(r, conn[r])'
  <2> DEFINE s == Append(c.body, r)
  <2>1. more.body = s /\ more.ino = c.ino /\ more.flushed = c.flushed BY <1>a DEF ConnType
  <2>2. d.pc = "copy" /\ d.due = c.due /\ d.answers = <<>> /\ d.ino = c.ino /\ d.body = s /\ d.flushed = k
    BY <1>a, <1>1, <1>3, <1>8 DEF ConnType
  <2>3. s \in Seq({r}) /\ Len(s) = Len(c.body) + 1 BY <1>3
  <2>4. SubSeq(s, 1, c.flushed) = SubSeq(c.body, 1, c.flushed) BY <1>3
  <2> HIDE DEF s, more
  <2>5. k \in Nat /\ c.flushed <= k /\ k <= Len(s) BY <1>3, <1>8, <2>1, <2>3
  <2>6. data'[c.ino] = WriteAt(SubSeq(s, 1, c.flushed), c.flushed, SubSeq(s, c.flushed + 1, k))
    BY <1>a, <1>4, <1>8, <2>1, <2>4
  <2>7. data'[c.ino] = SubSeq(s, 1, k) BY <1>3, <2>3, <2>5, <2>6, WriteOut
  <2>8. Len(s) <= Len(Content(r)) BY <1>3, <1>5, <1>8, <2>3, <1>f, <1>g
  <2> QED BY <1>6, <2>2, <2>7, <2>8
<1> QED BY <1>1, <1>7, <1>8

(* fclose: what putStream still holds is written out. *)
LEMMA CloseLone ==
  ASSUME BaseInv, NEW r \in Requests, UNCHANGED <<req, gone>>, LoneOK(r, conn[r]), Close(r)
  PROVE  LoneOK(r, conn[r])'
<1> DEFINE c == conn[r]
           d == conn'[r]
           n == Node(r)
           e == Goto([c EXCEPT !.file = None], "close again")
<1>a. /\ c \in ConnType /\ LocalOK(r, c) /\ n \in Nodes /\ data \in [Inodes -> Seq(Cells)]
      /\ Stored(r, c) /\ Told(r, c) /\ Removed(r, c) /\ Shown(r, c)
  BY Request DEF BaseInv, TypeInv, LocalInv, LoneOK
<1>d. d = conn'[r] /\ n' = n /\ req' = req /\ gone' = gone /\ Content(r)' = Content(r)
  BY DEF Node, Content
<1>1. /\ c.pc = "close" /\ UNCHANGED tree /\ d = e
      /\ IF c.ino # None /\ req[r].method \in Writers
         THEN data' = [data EXCEPT ![c.ino] = WriteAt(@, c.flushed, SubSeq(c.body, c.flushed + 1, Len(c.body)))]
         ELSE UNCHANGED data
  BY DEF Close, At, Become, Flush, treeVars, BaseInv, TypeInv
<1> HIDE DEF c, d, n
<1>u. UNCHANGED tree BY <1>1
<1>2. Reachable(n)' <=> Reachable(n) BY <1>u, <1>d DEF Reachable, Elements
<1>3. /\ d.pc = "close again" /\ d.due = c.due /\ d.answers = c.answers /\ d.ino = c.ino
      /\ d.body = c.body
  BY <1>a, <1>1 DEF Goto, ConnType
<1> HIDE DEF e
<1>4. Before(r, conn[r])' BY <1>3, <1>d DEF Before, Waiting
<1>5. Reading(r, conn[r])' BY <1>3, <1>d DEF Reading
<1>6. Stored(r, conn[r])'
  <2>1. ASSUME req[r].method \in Writers, c.due.status \in {200, 201}
        PROVE  /\ d.due.body = Content(r)' /\ req'[r].length # None
               /\ Reachable(n)' /\ tree'[n] = d.ino /\ d.ino \in Inodes
               /\ Len(d.body) <= Len(Content(r)') /\ data'[d.ino] = d.body
               /\ r \notin gone' /\ req'[r].length < IntCells => Len(d.body) = Len(Content(r)')
    <3>1. /\ c.due.body = Content(r) /\ req[r].length # None
          /\ Reachable(n) /\ tree[n] = c.ino /\ c.ino \in Inodes
          /\ Len(c.body) <= Len(Content(r))
          /\ data[c.ino] = SubSeq(c.body, 1, c.flushed)
          /\ r \notin gone /\ req[r].length < IntCells => Len(c.body) = Len(Content(r))
      BY <1>a, <1>1, <2>1 DEF Stored, Holding, n
    <3>2. c.body \in Seq({r}) /\ c.flushed \in Nat /\ c.flushed <= Len(c.body) /\ Len(c.body) \in Nat
      BY <1>a, <2>1 DEF LocalOK, BodyOK, ConnType
    <3>3. data'[c.ino] = WriteAt(SubSeq(c.body, 1, c.flushed), c.flushed,
                                 SubSeq(c.body, c.flushed + 1, Len(c.body)))
      BY <1>a, <1>1, <2>1, <3>1, NamesAssumption
    <3>4. data'[c.ino] = SubSeq(c.body, 1, Len(c.body))
      <4>1. ASSUME NEW s \in Seq({r}), NEW f \in Nat, NEW k \in Nat, f <= k, k <= Len(s)
            PROVE  WriteAt(SubSeq(s, 1, f), f, SubSeq(s, f + 1, k)) = SubSeq(s, 1, k)
        BY <4>1, WriteOut
      <4>2. Len(c.body) <= Len(c.body) BY <3>2
      <4> QED BY <3>2, <3>3, <4>1, <4>2
    <3>5. SubSeq(c.body, 1, Len(c.body)) = c.body BY <3>2
    <3> QED BY <1>1, <1>2, <1>3, <1>d, <3>1, <3>4, <3>5
  <2> QED BY <1>3, <1>d, <2>1 DEF Stored, n
<1>7. Removed(r, conn[r])' BY <1>a, <1>1, <1>3, <1>d, ZenonT(40) DEF Removed, Holding, n
<1>8. Told(r, conn[r])'
  <2>1. c.answers # <<>> \/ req[r].method = "empty" BY <1>a, <1>1 DEF Told, Answered
  <2>2. c.answers # <<>> => \/ c.answers[1].status = c.due.status
                            \/ req[r].method = "PUT" /\ c.answers[1].status = 201
    BY <1>a DEF Told
  <2> QED BY <1>3, <1>d, <2>1, <2>2 DEF Told, Answered
<1>9. Shown(r, conn[r])'
  <2>1. ASSUME c.answers # <<>>, c.answers[1].status = 200, req[r].method \in {"GET", "HEAD"}
        PROVE  /\ c.answers[1].lens = <<Len(c.due.body)>>
               /\ r \notin gone => /\ req[r].method = "GET" /\ Len(c.due.body) < IntCells => c.body = c.due.body
                                   /\ req[r].method = "HEAD" => c.body = <<>>
    <3>1. c.pc = "close" BY <1>1
    <3> QED BY <1>a, <2>1, <3>1 DEF Shown, Answered
  <2> QED BY <1>3, <1>d, <2>1 DEF Shown, Answered
<1> QED BY <1>4, <1>5, <1>6, <1>7, <1>8, <1>9 DEF LoneOK

-----------------------------------------------------------------------------
(* What a step of a thread keeps. *)

LEMMA StepAlone ==
  ASSUME BaseInv, AloneInv, NEW r \in Requests, Step(r), fault' = "none", UNCHANGED req
  PROVE  AloneInv'
<1>1. /\ \A q \in Requests : conn'[q].alone => conn[q].alone
      /\ \A q \in running' : q \in running
  BY StepSummary DEF BaseInv, Kept, poolVars, Pool!Finish
<1>2. \A p, q : Conflict(p, q)' <=> Conflict(p, q) BY DEF Conflict, Node
<1> QED BY <1>1, <1>2 DEF AloneInv

LEMMA StepLone ==
  ASSUME BaseInv, BaseInv', TreeInv, TreeInv', AloneInv, LoneInv,
         NEW q \in Requests, Step(q), fault' = "none", UNCHANGED req
  PROVE  LoneInv'
<1>a. TypeInv /\ TypeInv' /\ LocalInv /\ LocalInv' /\ PoolInv BY DEF BaseInv
<1>b. /\ conn[q].pc \in Running /\ (conn'[q].alone => conn[q].alone)
      /\ \A r \in Requests \ {q} : conn'[r] = conn[r]
      /\ UNCHANGED gone
  BY <1>a, StepSummary DEF Kept
<1> SUFFICES ASSUME NEW r \in Requests, conn'[r].alone PROVE LoneOK(r, conn[r])'
  BY DEF LoneInv
<1>1. CASE r = q
  <2>1. LoneOK(r, conn[r]) /\ LocalOK(r, conn'[r]) /\ Step(r)
    BY <1>1, <1>a, <1>b, StepLocal DEF LoneInv
  <2>2. CASE \/ SendError(r) \/ StatGet(r) \/ ListDir(r) \/ SendHead(r) \/ OpenGet(r) \/ SendBody(r)
             \/ StatDelete(r) \/ DoneDelete(r) \/ DonePut(r) \/ DonePost(r)
             \/ CloseAgain(r) \/ ReturnEarly(r)
    <3>1. LoneOK(r, conn'[r]) BY <2>1, <2>2, QuietLone
    <3>2. UNCHANGED treeVars
      BY <2>2 DEF SendError, StatGet, ListDir, SendHead, OpenGet, SendBody, StatDelete, DoneDelete,
                  DonePut, DonePost, Done, CloseAgain, ReturnEarly, Only, Respond, Crash
    <3> QED BY <1>a, <1>b, <3>1, <3>2, SameTree
  <2>3. CASE Rmdir(r) \/ Unlink(r) BY <2>1, <2>3, RemoveLone
  <2>4. CASE Mkdir(r) BY <1>a, <2>1, <2>4, MkdirLone
  <2>5. CASE Create(r) BY <1>b, <2>1, <2>5, CreateLone
  <2>6. CASE CopyBody(r) BY <1>b, <2>1, <2>6, CopyLone
  <2>7. CASE Close(r) BY <1>b, <2>1, <2>7, CloseLone
  <2> QED BY <2>1, <2>2, <2>3, <2>4, <2>5, <2>6, <2>7 DEF Step
<1>2. CASE r # q
  <2>1. conn'[r] = conn[r] /\ LoneOK(r, conn[r]) BY <1>2, <1>b DEF LoneInv
  <2>2. SameWork(conn[r], conn'[r]) /\ conn[r].pc \in Labels
    BY <1>a, <2>1, Request DEF SameWork, ConnType
  <2>3. CASE r \in running
    <3>1. q \in running BY <1>a, <1>b DEF PoolInv
    <3>2. ~Conflict(q, r) BY <1>2, <2>1, <2>3, <3>1 DEF AloneInv
    <3>3. Undisturbed(r) BY <3>2, Apart
    <3> QED BY <1>a, <1>b, <2>1, <2>2, <3>3, Persist
  <2>4. CASE r \notin running
    <3>1. conn'[r].pc \notin Running BY <1>a, <2>1, <2>4 DEF PoolInv
    <3> QED BY <1>b, <2>1, <2>2, <3>1, Resting
  <2> QED BY <2>3, <2>4
<1> QED BY <1>1, <1>2

-----------------------------------------------------------------------------
(* What the arrival, the start and the reset of a request keep. *)

LEMMA TreeSame ==
  ASSUME TreeInv, UNCHANGED <<req, tree>>,
         \A r \in Requests : conn'[r].ino = conn[r].ino \/ conn'[r].ino = None
  PROVE  TreeInv'
<1>1. \A n : Reachable(n)' <=> Reachable(n) BY DEF Reachable, Elements
<1>2. \A i : Home(i)' = Home(i) BY DEF Home, Node
<1> QED BY <1>1, <1>2, NamesAssumption DEF TreeInv, Node

LEMMA OtherLone ==
  ASSUME TypeInv, TypeInv', LocalInv, TreeInv, TreeInv', NEW r \in Requests,
         UNCHANGED <<req, treeVars>>, gone \subseteq gone', SameWork(conn[r], conn'[r]),
         conn'[r].pc = conn[r].pc, conn'[r].due = conn[r].due, conn'[r].status = conn[r].status,
         LoneOK(r, conn[r])
  PROVE  LoneOK(r, conn[r])'
<1>1. Undisturbed(r) BY DEF Undisturbed, treeVars, Children, Node
<1> QED BY <1>1, Persist

LEMMA AcceptLone ==
  ASSUME BaseInv, BaseInv', TreeInv, AloneInv, LoneInv, NEW r \in Requests, Accept(r), UNCHANGED req
  PROVE  TreeInv' /\ AloneInv' /\ LoneInv'
<1>a. TypeInv /\ TypeInv' /\ LocalInv /\ LocalInv' /\ PoolInv /\ PoolInv' BY DEF BaseInv
<1>b. /\ \A q \in Requests \ {r} : conn'[q] = conn[q]
      /\ conn'[r].pc = "queued" /\ UNCHANGED <<treeVars, gone, running>>
  BY <1>a, AcceptConn DEF TypeInv, Accept, Pool!Submit
<1>c. LocalOK(r, conn'[r]) BY <1>a, AcceptConn
<1>d. conn'[r].ino = None /\ conn'[r].answers = <<>>
  BY <1>b, <1>c DEF LocalOK, BodyOK, AnswerOK, Opening, Started
<1>1. TreeInv' BY <1>b, <1>d, TreeSame DEF treeVars
<1>2. AloneInv'
  <2>1. r \notin running' BY <1>a, <1>b DEF PoolInv, Running
  <2>2. \A p, q : Conflict(p, q)' <=> Conflict(p, q) BY DEF Conflict, Node
  <2> QED BY <1>b, <2>1, <2>2 DEF AloneInv
<1>3. LoneInv'
  <2> SUFFICES ASSUME NEW q \in Requests, conn'[q].alone PROVE LoneOK(q, conn[q])'
    BY DEF LoneInv
  <2>1. CASE q = r
    <3> DEFINE d == conn'[r]
    <3>d. d = conn'[r] /\ d.pc = "queued" /\ d.answers = <<>> BY <1>b, <1>d
    <3> HIDE DEF d
    <3>1. Before(r, conn[r])' BY <3>d DEF Before, Waiting
    <3>2. Reading(r, conn[r])' BY <3>d DEF Reading
    <3>3. Stored(r, conn[r])' /\ Removed(r, conn[r])' BY <3>d DEF Stored, Removed, Holding
    <3>4. Told(r, conn[r])' BY <3>d DEF Told, Answered
    <3>5. Shown(r, conn[r])' BY <3>d DEF Shown, Answered
    <3> QED BY <2>1, <3>1, <3>2, <3>3, <3>4, <3>5 DEF LoneOK
  <2>2. CASE q # r
    <3>1. conn'[q] = conn[q] /\ LoneOK(q, conn[q]) BY <1>b, <2>2 DEF LoneInv
    <3>2. SameWork(conn[q], conn'[q]) BY <3>1 DEF SameWork
    <3> QED BY <1>1, <1>a, <1>b, <3>1, <3>2, OtherLone
  <2> QED BY <2>1, <2>2
<1> QED BY <1>1, <1>2, <1>3

LEMMA ResetLone ==
  ASSUME BaseInv, BaseInv', TreeInv, AloneInv, LoneInv, NEW r \in Requests, Reset(r), UNCHANGED req
  PROVE  TreeInv' /\ AloneInv' /\ LoneInv'
<1>a. TypeInv /\ TypeInv' /\ LocalInv BY DEF BaseInv
<1>b. gone \subseteq gone' /\ UNCHANGED <<treeVars, conn, running>> BY DEF Reset, poolVars
<1>1. TreeInv' BY <1>b, TreeSame DEF treeVars
<1>2. AloneInv'
  <2>1. \A p, q : Conflict(p, q)' <=> Conflict(p, q) BY DEF Conflict, Node
  <2> QED BY <1>b, <2>1 DEF AloneInv
<1>3. ASSUME NEW q \in Requests, conn'[q].alone PROVE LoneOK(q, conn[q])'
  <2>1. conn'[q] = conn[q] /\ LoneOK(q, conn[q]) BY <1>3, <1>b DEF LoneInv
  <2>2. SameWork(conn[q], conn'[q]) BY <2>1 DEF SameWork
  <2> QED BY <1>1, <1>a, <1>b, <2>1, <2>2, OtherLone
<1> QED BY <1>1, <1>2, <1>3 DEF LoneInv

LEMMA BeginLone ==
  ASSUME BaseInv, BaseInv', TreeInv, AloneInv, LoneInv, NEW r \in Requests, Begin(r), UNCHANGED req
  PROVE  TreeInv' /\ AloneInv' /\ LoneInv'
<1>a. /\ TypeInv /\ TypeInv' /\ LocalInv /\ LocalInv' /\ PoolInv /\ req[r] \in RequestType
      /\ PromiseTable(r)
  BY Request, PromiseOf DEF BaseInv, AllPromises
<1>p. conn[r].pc = "queued" /\ r \notin running /\ running' = running \cup {r} BY <1>a, BeginPool
<1>b. /\ conn'[r].pc = Entry(r) /\ conn'[r].due = Promise(r) /\ SameWork(conn[r], conn'[r])
      /\ conn'[r].alone = ({q \in running : Conflict(q, r)} = {})
      /\ conn'[r].status = (IF req[r].method = "bad" THEN 400 ELSE 501)
      /\ \A q \in Requests \ {r} :
           /\ SameWork(conn[q], conn'[q]) /\ conn'[q].pc = conn[q].pc /\ conn'[q].due = conn[q].due
           /\ conn'[q].then = conn[q].then /\ conn'[q].status = conn[q].status
           /\ conn'[q].alone = (conn[q].alone /\ ~(q \in running /\ Conflict(q, r)))
  BY <1>a, <1>p, BeginConn
<1>u. UNCHANGED <<treeVars, gone>> BY DEF Begin
<1>1. TreeInv'
  <2>1. \A q \in Requests : conn'[q].ino = conn[q].ino BY <1>b DEF SameWork
  <2> QED BY <1>u, <2>1, TreeSame DEF treeVars
<1>2. AloneInv'
  <2>1. \A p, q : Conflict(p, q)' <=> Conflict(p, q) BY DEF Conflict, Node
  <2>2. \A p, q : Conflict(p, q) => Conflict(q, p) BY DEF Conflict
  <2> SUFFICES ASSUME NEW p \in Requests, NEW q \in Requests, p # q, p \in running', q \in running',
                      conn'[q].alone
               PROVE  ~Conflict(p, q)
    BY <2>1 DEF AloneInv
  <2>3. CASE q = r
    <3>1. p \in running BY <1>p, <2>3
    <3>2. {x \in running : Conflict(x, r)} = {} BY <1>b, <2>3
    <3> QED BY <2>3, <3>1, <3>2
  <2>4. CASE q # r
    <3>1. q \in running BY <1>p, <2>4
    <3>2. conn[q].alone /\ ~Conflict(q, r) BY <1>b, <2>4, <3>1
    <3>3. CASE p = r BY <2>2, <3>2, <3>3
    <3>4. CASE p # r BY <1>p, <3>1, <3>2, <3>4 DEF AloneInv
    <3> QED BY <3>3, <3>4
  <2> QED BY <2>3, <2>4
<1>3. LoneInv'
  <2> SUFFICES ASSUME NEW q \in Requests, conn'[q].alone PROVE LoneOK(q, conn[q])'
    BY DEF LoneInv
  <2>1. CASE q = r
    <3> DEFINE c == conn[r]
               d == conn'[r]
    <3>c. /\ d.pc = Entry(r) /\ d.due = Promise(r)
          /\ d.status = (IF req[r].method = "bad" THEN 400 ELSE 501)
          /\ d.answers = <<>> /\ d.dirs = 0
      <4>1. c.answers = <<>> /\ c.dirs = 0
        BY <1>a, <1>p DEF LocalInv, LocalOK, AnswerOK, BodyOK, Opening, Started
      <4> QED BY <1>b, <4>1 DEF SameWork
    <3>d. d = conn'[r] OBVIOUS
    <3> HIDE DEF c, d
    <3>1. /\ d.pc \in {"return", "error", "mkdirs", "stat"}
          /\ d.pc = "return" => req[r].method = "empty"
          /\ d.pc = "error" => req[r].method \in {"bad", "other"}
      BY <3>c DEF Entry
    <3>2. d.pc = "error" => d.due.status = d.status /\ d.status \notin {200, 201}
      BY <1>a, <3>c, <3>1 DEF PromiseTable
    <3>3. LoneOK(r, d)
      <4>1. Before(r, d)
        <5>1. 1 .. d.dirs = {} BY <3>c
        <5> QED BY <3>c, <3>1, <5>1 DEF Before, Waiting
      <4>2. Reading(r, d) BY <3>1 DEF Reading
      <4>3. Stored(r, d) /\ Removed(r, d) BY <3>1 DEF Stored, Removed, Holding
      <4>4. Told(r, d)
        <5>1. CASE d.pc = "error" BY <3>c, <3>2, <5>1 DEF Told, Answered
        <5>2. CASE d.pc = "return" BY <3>c, <3>1, <5>2 DEF Told, Answered
        <5>3. CASE d.pc \in {"mkdirs", "stat"} BY <3>c, <5>3 DEF Told, Answered
        <5> QED BY <3>1, <5>1, <5>2, <5>3
      <4>5. Shown(r, d) BY <3>1 DEF Shown, Answered
      <4> QED BY <4>1, <4>2, <4>3, <4>4, <4>5 DEF LoneOK
    <3> QED BY <1>1, <1>a, <1>u, <2>1, <3>3, <3>d, SameTree
  <2>2. CASE q # r
    <3>1. conn[q].alone /\ SameWork(conn[q], conn'[q]) /\ conn'[q].pc = conn[q].pc
          /\ conn'[q].due = conn[q].due /\ conn'[q].status = conn[q].status
      BY <1>b, <2>2
    <3>2. LoneOK(q, conn[q]) BY <3>1 DEF LoneInv
    <3> QED BY <1>1, <1>a, <1>u, <3>1, <3>2, OtherLone
  <2> QED BY <2>1, <2>2
<1> QED BY <1>1, <1>2, <1>3

-----------------------------------------------------------------------------
(* The whole invariant. *)

LEMMA InitIInv == Init => IInv
<1> SUFFICES ASSUME Init PROVE IInv
  OBVIOUS
<1>1. BaseInv BY BaseInit
<1>2. \A r \in Requests : conn[r] = Fresh BY DEF Init
<1>3. /\ Fresh.pc = "idle" /\ Fresh.ino = None /\ Fresh.answers = <<>>
  BY DEF Fresh
<1>4. running = {} BY DEF Init, Pool!Init
<1>5. TreeInv
  <2>1. \A n \in Nodes : tree[n] = IF n = Root THEN Dir ELSE IF n \in Files THEN n ELSE Absent
    BY DEF Init
  <2>2. /\ Root \in Nodes /\ Elements(Above[Root]) = {} /\ tree[Root] = Dir
    BY <2>1, PathsAssumption DEF Elements
  <2>3. \A n \in Files : n \in Nodes /\ Elements(Above[n]) = {Root}
    <3>1. Elements(<<Root>>) = {Root} BY DEF Elements
    <3> QED BY <3>1, PathsAssumption
  <2>4. \A n \in Nodes : tree[n] # Absent => Reachable(n)
    BY <2>1, <2>2, <2>3 DEF Reachable
  <2>5. \A n \in Nodes : tree[n] \in Inodes => Home(tree[n]) = n
    BY <2>1, NamesAssumption DEF Home, Inodes
  <2>6. \A r \in Requests : conn[r].ino \notin Inodes BY <1>2, <1>3, NamesAssumption
  <2> QED BY <2>4, <2>5, <2>6 DEF TreeInv
<1>6. ASSUME NEW r \in Requests PROVE LoneOK(r, Fresh)
  <2>1. Before(r, Fresh) BY <1>3 DEF Before, Waiting
  <2>2. Reading(r, Fresh) BY <1>3 DEF Reading
  <2>3. Stored(r, Fresh) /\ Removed(r, Fresh) BY <1>3 DEF Stored, Removed, Holding
  <2>4. Told(r, Fresh) BY <1>3 DEF Told, Answered
  <2>5. Shown(r, Fresh) BY <1>3 DEF Shown, Answered
  <2> QED BY <2>1, <2>2, <2>3, <2>4, <2>5 DEF LoneOK
<1> QED BY <1>1, <1>2, <1>4, <1>5, <1>6 DEF IInv, BaseInv, AloneInv, LoneInv

LEMMA NextIInv == IInv /\ [Next]_vars => IInv'
<1> SUFFICES ASSUME IInv, [Next]_vars PROVE IInv'
  OBVIOUS
<1>a. BaseInv /\ TreeInv /\ AloneInv /\ LoneInv BY DEF IInv, BaseInv
<1>b. BaseInv' BY <1>a, BaseNext
<1>c. TypeInv /\ TypeInv' /\ LocalInv BY <1>a, <1>b DEF BaseInv
<1>1. TreeInv' /\ AloneInv' /\ LoneInv' => IInv' BY <1>b DEF IInv, BaseInv
<1>2. ASSUME UNCHANGED <<running, req, tree, data, conn, gone>> PROVE IInv'
  <2>1. TreeInv' BY <1>a, <1>2, TreeSame
  <2>2. AloneInv'
    <3>1. \A p, q : Conflict(p, q)' <=> Conflict(p, q) BY <1>2 DEF Conflict, Node
    <3> QED BY <1>a, <1>2, <3>1 DEF AloneInv
  <2>3. ASSUME NEW r \in Requests, conn'[r].alone PROVE LoneOK(r, conn[r])'
    <3>1. LoneOK(r, conn'[r]) BY <1>a, <1>2, <2>3 DEF LoneInv
    <3> QED BY <1>a, <1>2, <1>c, <2>1, <3>1, SameTree DEF treeVars
  <2> QED BY <1>1, <2>1, <2>2, <2>3 DEF LoneInv
<1>3. CASE UNCHANGED vars BY <1>2, <1>3 DEF vars, poolVars
<1>4. CASE Next
  <2>1. fault = "none" /\ UNCHANGED req BY <1>4 DEF Next
  <2>2. PICK r \in Requests : Accept(r) \/ Reset(r) \/ Begin(r) \/ Step(r)
    BY <1>4 DEF Next
  <2>3. CASE Accept(r) BY <1>1, <1>a, <1>b, <2>1, <2>3, AcceptLone
  <2>4. CASE Reset(r) BY <1>1, <1>a, <1>b, <2>1, <2>4, ResetLone
  <2>5. CASE Begin(r) BY <1>1, <1>a, <1>b, <2>1, <2>5, BeginLone
  <2>6. CASE Step(r) /\ fault' = "none"
    <3>1. TreeInv' BY <1>a, <2>1, <2>6, TreeKept
    <3>2. AloneInv' BY <1>a, <2>1, <2>6, StepAlone
    <3>3. LoneInv' BY <1>a, <1>b, <2>1, <2>6, <3>1, StepLone
    <3> QED BY <1>1, <3>1, <3>2, <3>3
  <2>7. CASE Step(r) /\ fault' # "none"
    <3>1. UNCHANGED <<poolVars, treeVars, conn, owner, gone>> BY <2>1, <2>7, CrashStep
    <3> QED BY <1>2, <2>1, <3>1 DEF poolVars, treeVars
  <2> QED BY <2>2, <2>3, <2>4, <2>5, <2>6, <2>7
<1> QED BY <1>3, <1>4

-----------------------------------------------------------------------------
(* The theorems. *)

(* Whatever a request took from the process (a thread of the pool, the       *)
(* descriptors of its streams) it has given back when it ends, by every path *)
(* through process_request and its handlers; the sockets of the early        *)
(* returns are the exception ResourcesReturned names.                        *)
THEOREM RequestsReturnResources == Spec => []ResourcesReturned
<1>1. BaseInv => ResourcesReturned
  <2> SUFFICES ASSUME BaseInv PROVE ResourcesReturned
    OBVIOUS
  <2>1. TypeInv /\ LocalInv /\ PoolInv /\ OwnerInv BY DEF BaseInv
  <2>2. TypeOK
    <3>1. \A r \in Requests :
            /\ conn[r].pc \in Labels /\ conn[r].sock \in Fds \cup {None}
            /\ conn[r].file \in Fds \cup {None} /\ conn[r].ino \in Inodes \cup {None, Dir}
      BY <2>1 DEF TypeInv, ConnType
    <3> QED BY <2>1, <3>1 DEF TypeOK, TypeInv, Cells
  <2>3. ThreadsReturned BY <2>1 DEF PoolInv, ThreadsReturned, Running
  <2>4. DescriptorsReturned BY <2>1 DEF OwnerInv, DescriptorsReturned, Ended
  <2> QED BY <2>2, <2>3, <2>4 DEF ResourcesReturned
<1> QED BY <1>1, BaseInit, BaseNext, PTL DEF Spec

(* However the steps of several requests interleave, one that has ended was  *)
(* answered exactly once: no handler goes on to its own answer after an error *)
(* page, and none ends in silence, except where OneAnswer says so.           *)
THEOREM EachAnsweredOnce == Spec => []OneAnswer
<1>1. BaseInv => OneAnswer
  <2> SUFFICES ASSUME BaseInv, NEW r \in Requests, Ended(r), req[r].method # "empty", ~Lengthless(r)
               PROVE  Len(conn[r].answers) = 1 /\ Len(conn[r].answers[1].lens) <= 1
    BY DEF OneAnswer
  <2>1. AnswerOK(r, conn[r]) BY DEF BaseInv, LocalInv, LocalOK
  <2> QED BY <2>1 DEF AnswerOK, Ended
<1> QED BY <1>1, BaseInit, BaseNext, PTL DEF Spec
(* Between the fclose of a request that nobody got in the way of and the end *)
(* of its job, the tree holds what it was promised: the body of its PUT or   *)
(* POST, whatever part of it putStream had written out before, or no path    *)
(* after its DELETE, however the other requests are interleaved with it.     *)
(* (The Content-Length of the PUT or POST is one an int holds.)              *)
THEOREM LoneWritesStay == Spec => []StoredAlone
<1>1. IInv => StoredAlone
  <2> SUFFICES ASSUME IInv, NEW r \in Requests, conn[r].pc = "close again", conn[r].alone, r \notin gone
               PROVE  /\ req[r].method \in Writers /\ conn[r].due.status \in {200, 201}
                        /\ req[r].length < IntCells =>
                           Reachable(Node(r)) /\ tree[Node(r)] \in Inodes
                           /\ data[tree[Node(r)]] = conn[r].due.body
                      /\ req[r].method = "DELETE" /\ conn[r].due.status = 200 => tree[Node(r)] = Absent
    BY DEF StoredAlone
  <2> DEFINE c == conn[r]
  <2>1. Stored(r, c) /\ Removed(r, c) /\ c \in ConnType /\ c.pc = "close again" /\ LocalOK(r, c) /\ TypeInv
    BY Request DEF IInv, LoneInv, LoneOK, LocalInv
  <2> HIDE DEF c
  <2>2. ASSUME req[r].method \in Writers, c.due.status \in {200, 201}, req[r].length < IntCells
        PROVE  Reachable(Node(r)) /\ tree[Node(r)] \in Inodes /\ data[tree[Node(r)]] = c.due.body
    <3>1. /\ c.due.body = Content(r) /\ req[r].length # None
          /\ Reachable(Node(r)) /\ tree[Node(r)] = c.ino /\ c.ino \in Inodes
          /\ data[c.ino] = c.body /\ Len(c.body) = Len(Content(r))
      BY <2>1, <2>2 DEF Stored, Holding
    <3>2. c.body \in Seq({r}) /\ Content(r) \in Seq({r})
      BY <2>1, <2>2, <3>1, ContentType DEF LocalOK, BodyOK
    <3>3. ASSUME NEW S, \A x \in S : x = r, NEW s \in Seq(S), NEW t \in Seq(S), Len(s) = Len(t)
          PROVE  s = t
      <4>1. \A i \in 1 .. Len(s) : s[i] \in S /\ t[i] \in S BY <3>3, ElementOfSeq
      <4>2. \A i \in 1 .. Len(s) : s[i] = t[i] BY <3>3, <4>1
      <4> QED BY <3>3, <4>2, SeqEqual
    <3>4. \A x \in {r} : x = r OBVIOUS
    <3>5. c.body = Content(r) BY <3>1, <3>2, <3>3, <3>4, Zenon
    <3> QED BY <3>1, <3>5
  <2>3. req[r].method = "DELETE" /\ c.due.status = 200 => tree[Node(r)] = Absent
    BY <2>1 DEF Removed, Holding
  <2> QED BY <2>2, <2>3 DEF c
<1> QED BY <1>1, InitIInv, NextIInv, PTL DEF Spec

(* A request that no conflicting request overlaps is answered as if it had   *)
(* run alone from its start: with the status, the length and the cells of    *)
(* what its path held when its thread began.  (Cells that an int does not    *)
(* count are announced and not all sent, as ServedAlone says.)               *)
THEOREM LoneAnswersRight == Spec => []ServedAlone
<1>1. IInv => ServedAlone
  <2> SUFFICES ASSUME IInv, NEW r \in Requests, Lone(r), req[r].method # "empty"
               PROVE  /\ conn[r].answers # <<>>
                      /\ \/ conn[r].answers[1].status = conn[r].due.status
                         \/ req[r].method = "PUT" /\ conn[r].answers[1].status = 201
                      /\ conn[r].answers[1].status = 200 /\ req[r].method \in {"GET", "HEAD"} =>
                           /\ conn[r].answers[1].lens = <<Len(conn[r].due.body)>>
                           /\ req[r].method = "GET" /\ Len(conn[r].due.body) < IntCells =>
                                conn[r].body = conn[r].due.body
                           /\ req[r].method = "HEAD" => conn[r].body = <<>>
    BY DEF ServedAlone
  <2> DEFINE c == conn[r]
  <2>1. Told(r, c) /\ Shown(r, c) /\ c.pc = "done" /\ r \notin gone
    BY DEF IInv, LoneInv, LoneOK, Lone, Ended
  <2> HIDE DEF c
  <2>2. c.answers # <<>> BY <2>1 DEF Told, Answered
  <2>3. c.answers[1].status = c.due.status \/ (req[r].method = "PUT" /\ c.answers[1].status = 201)
    BY <2>1, <2>2 DEF Told
  <2>4. c.answers[1].status = 200 /\ req[r].method \in {"GET", "HEAD"} =>
          /\ c.answers[1].lens = <<Len(c.due.body)>>
          /\ req[r].method = "GET" /\ Len(c.due.body) < IntCells => c.body = c.due.body
          /\ req[r].method = "HEAD" => c.body = <<>>
    BY <2>1, <2>2 DEF Shown, Answered
  <2> QED BY <2>2, <2>3, <2>4 DEF c
<1> QED BY <1>1, InitIInv, NextIInv, PTL DEF Spec
=============================================================================
