---------------------------- MODULE HttpRequests ----------------------------
(***************************************************************************)
(* The requests of the HTTP server (CS5600Assignment5/src): main accepts   *)
(* connections and queues them on the thread pool (WorkPool), whose        *)
(* threads run process_request, several at a time, over one tree of files. *)
(*                                                                         *)
(* A step of a request is what it does between two system calls that       *)
(* another request can notice: those on the tree, those that take or give  *)
(* back a descriptor, and the writes a client sees.  A cell of a file or   *)
(* of a body is what one read or write moves.                              *)
(***************************************************************************)
EXTENDS Integers, Sequences, FiniteSets, FiniteSetsExt

CONSTANTS Requests,    \* the connections
          Nodes,       \* the paths below content_base that requests name
          Root,        \* the path of content_base itself
          Above,       \* the directories above each path, outermost first
          Files,       \* the paths that are files at start
          Scenarios,   \* what the clients may send: Requests -> RequestType
          Resetting,   \* the clients that may reset their connection
          NThreads,    \* NUM_THREADS
          Fds,         \* the descriptors left to the process
          IntCells,    \* INT_MAX + 1, in cells
          None, Absent, Dir,
          Old,         \* what the cells of such a file hold
          Hole,        \* what a file reads as where nobody wrote
          Listing      \* the page of do_list_dir

Methods == {"GET", "HEAD", "DELETE", "PUT", "POST",
            "other",   \* a well-formed request of another method
            "bad",     \* a malformed request line or URI
            "empty"}   \* the client closes before it sends a line
Writers == {"PUT", "POST"}
Inodes == Requests \cup Files   \* a file is named for the request that created it,
                              \* or for its path when it was there at start
RequestType == [method : Methods, node : Nodes, slash : BOOLEAN,
                length : Nat \cup {None},   \* the Content-Length it announces
                supply : Nat]               \* the cells of body it sends

ASSUME PathsAssumption ==
  /\ Root \in Nodes /\ Above \in [Nodes -> Seq(Nodes)] /\ Above[Root] = <<>>
  /\ \A n \in Nodes : \A i \in 1 .. Len(Above[n]) : Above[Above[n][i]] = SubSeq(Above[n], 1, i - 1)
  /\ Files \subseteq Nodes /\ \A n \in Files : Above[n] = <<Root>>
ASSUME ScenariosAssumption ==
  /\ Scenarios \subseteq [Requests -> RequestType]
  /\ \A s \in Scenarios, r \in Requests :   \* a URI begins with '/'
       s[r].slash \/ Above[s[r].node] # <<>>
ASSUME IntAssumption == IntCells \in Nat \ {0}
ASSUME NamesAssumption == /\ Fds \subseteq Nat /\ None \notin Requests \cup Nat
                          /\ None \notin Inodes /\ Absent \notin Inodes /\ Dir \notin Inodes
                          /\ Absent # Dir /\ None # Dir /\ Requests \cap Files = {}

VARIABLES
  pending, running, finished, closed,   \* the pool, as WorkPool has it
  req,     \* what each client sends
  tree,    \* what each path is: Absent, Dir or the inode of a file
  data,    \* the cells of each inode
  conn,    \* the state of each process_request
  owner,   \* the request that holds each descriptor, or None
  gone,    \* the clients that have reset their connection
  fault    \* what has ended the process or handed a descriptor to two owners

poolVars == <<pending, running, finished, closed>>
treeVars == <<tree, data>>
vars == <<poolVars, req, tree, data, conn, owner, gone, fault>>

Pool == INSTANCE WorkPool WITH Jobs <- Requests

----------------------------------------------------------------------------
(* The tree *)

Node(r) == req[r].node
Elements(s) == {s[i] : i \in 1 .. Len(s)}
Reachable(n) == \A m \in Elements(Above[n]) : tree[m] = Dir
Children(n) == {m \in Nodes : Above[m] # <<>> /\ Above[m][Len(Above[m])] = n /\ tree[m] # Absent}

\* stat: a path that ends with '/' leads only to a directory
Found(r) == /\ Reachable(Node(r)) /\ tree[Node(r)] # Absent
            /\ req[r].slash => tree[Node(r)] = Dir
IsFile(r) == Found(r) /\ tree[Node(r)] \in Inodes
IsDir(r) == Found(r) /\ tree[Node(r)] = Dir

\* the path mkdirs gets: everything up to the last '/'
DirPath(r) == IF req[r].slash THEN Append(Above[Node(r)], Node(r)) ELSE Above[Node(r)]

\* findProperty(requestHeaders, 0, "Content-Length", buf)
Lengthless(r) == req[r].method \in Writers /\ req[r].length = None

\* how much copyFileStreamBytes copies of n cells: its nbytes is an int
Copied(n) ==
  LET nbytes == ((n + IntCells) % (2 * IntCells)) - IntCells   \* wraps
  IN IF nbytes < 0 THEN 0 ELSE nbytes

WriteAt(s, pos, cells) ==
  [i \in 1 .. Max({Len(s), pos + Len(cells)}) |->
     IF i \in pos + 1 .. pos + Len(cells) THEN cells[i - pos]
     ELSE IF i <= Len(s) THEN s[i] ELSE Hole]

----------------------------------------------------------------------------
(* Descriptors, and what a connection remembers *)

Free == {f \in Fds : owner[f] = None}
NoTempFile == Free = {}   \* tmpfile returns NULL
Take(r) == owner' = [owner EXCEPT ![Min(Free)] = r]
GiveBack(fs) == owner' = [f \in Fds |-> IF f \in fs THEN None ELSE owner[f]]

Fresh == [pc |-> "idle",       \* the next thing to do
          sock |-> None,       \* sock_fd, which stream stands on
          file |-> None,       \* the descriptor of contentStream or putStream
          ino |-> None,        \* the file it is open on
          status |-> 0,        \* the error to answer
          then |-> "close",    \* where it goes after an error page
          lens |-> <<>>,       \* the Content-Length entries of responseHeaders
          answers |-> <<>>,    \* the responses sent: status and lengths
          want |-> <<>>,       \* (history) what the path held when it was stat-ed
          body |-> <<>>,       \* the cells copied, to the client or from it
          flushed |-> 0,       \* how many of them putStream has written out
          dirs |-> 0,          \* how many elements of the path mkdirs has made
          alone |-> TRUE,      \* (history) nothing got in its way: no conflicting
                             \* request, no want of descriptors
          due |-> [status |-> 0, body |-> <<>>]]   \* (history) see Promise

PutLength(c, n) == [c EXCEPT !.lens = Append(@, n)]
Answer(c, status) == [c EXCEPT !.answers = Append(@, [status |-> status, lens |-> c.lens])]

Goto(c, label) == [c EXCEPT !.pc = label]
Fail(c, status) == [c EXCEPT !.pc = "error", !.status = status]
Become(r, c) == conn' = [conn EXCEPT ![r] = c]

Crash(what) == fault' = what /\ UNCHANGED <<conn, owner, treeVars>>

\* A response is several writes: the first after a reset draws an error, the
\* second SIGPIPE, which nothing in the server ignores.
Respond(r, c) ==
  IF r \in gone THEN Crash("broken pipe")
  ELSE Become(r, c) /\ UNCHANGED <<owner, treeVars, fault>>

----------------------------------------------------------------------------
(* What a request that runs alone is promised (README.md of the server, its *)
(* paragraphs on DELETE, PUT, POST and directories)                         *)

Blocked(r) == \E i \in 1 .. Len(Above[Node(r)]) : tree[Above[Node(r)][i]] \in Inodes
Writable(r) == ~Blocked(r) /\ ~req[r].slash /\ tree[Node(r)] # Dir
Content(r) == [i \in 1 .. Min({req[r].length, req[r].supply}) |-> r]

Promise(r) ==
  LET m == req[r].method IN
  CASE m \in {"GET", "HEAD"} /\ IsFile(r) -> [status |-> 200, body |-> data[tree[Node(r)]]]
    [] m \in {"GET", "HEAD"} /\ IsDir(r) /\ req[r].slash -> [status |-> 200, body |-> <<Listing>>]
    [] m = "DELETE" /\ IsFile(r) -> [status |-> 200, body |-> <<>>]
    [] m = "DELETE" /\ IsDir(r) /\ req[r].slash ->
         [status |-> IF Children(Node(r)) = {} THEN 200 ELSE 405, body |-> <<>>]
    [] m \in Writers /\ ~Writable(r) -> [status |-> 405, body |-> <<>>]
    [] m \in Writers /\ Writable(r) /\ req[r].length # None ->
         [status |-> IF m = "POST" \/ IsFile(r) THEN 200 ELSE 201, body |-> Content(r)]
    [] m \in Writers /\ Writable(r) /\ req[r].length = None -> [status |-> 411, body |-> <<>>]
    [] m = "other" -> [status |-> 501, body |-> <<>>]
    [] m \in {"bad", "empty"} -> [status |-> 400, body |-> <<>>]
    [] OTHER -> [status |-> 404, body |-> <<>>]

\* two requests get in each other's way when one changes the tree and the path
\* of one is that of the other or lies on the way to it
Conflict(q, r) ==
  /\ \E s \in {q, r} : req[s].method \in Writers \cup {"DELETE"}
  /\ \/ Node(q) \in Elements(Above[Node(r)]) \cup {Node(r)}
     \/ Node(r) \in Elements(Above[Node(q)])

----------------------------------------------------------------------------
Init ==
  /\ Pool!Init
  /\ req \in Scenarios
  /\ tree = [n \in Nodes |-> IF n = Root THEN Dir ELSE IF n \in Files THEN n ELSE Absent]
  /\ data = [i \in Inodes |-> IF i \in Files THEN <<Old, Old>> ELSE <<>>]
  /\ conn = [r \in Requests |-> Fresh]
  /\ owner = [f \in Fds |-> None]
  /\ gone = {} /\ fault = "none"

\* accept_peer_connection goes round until there is a descriptor; main adds the
\* connection to the pool
AcceptPeer(r) == Free # {} /\ Take(r) /\ Become(r, [Fresh EXCEPT !.pc = "queued", !.sock = Min(Free)])
Accept(r) == AcceptPeer(r) /\ Pool!Submit(r) /\ UNCHANGED <<treeVars, gone, fault>>

\* the client of a connection that is still open resets it
Reset(r) ==
  /\ r \in Resetting /\ conn[r].pc \notin {"idle", "return", "done"}
  /\ gone' = gone \cup {r}
  /\ UNCHANGED <<poolVars, treeVars, conn, owner, fault>>

\* process_request up to the dispatch: it blocks until the client has sent its
\* request or closed
Entry(r) ==
  CASE req[r].method = "empty" -> "return"
    [] req[r].method \in {"bad", "other"} -> "error"
    [] req[r].method \in Writers -> "mkdirs"
    [] OTHER -> "stat"

Begin(r) ==
  /\ Cardinality(running) < NThreads
  /\ pending # <<>> /\ r = Head(pending) /\ Pool!Start
  /\ LET others == {q \in running : Conflict(q, r)} IN
       conn' = [q \in Requests |->
         IF q = r THEN [conn[r] EXCEPT !.pc = Entry(r), !.due = Promise(r),
                                       !.alone = (others = {}),
                                       !.status = IF req[r].method = "bad" THEN 400 ELSE 501,
                                       !.then = IF req[r].method = "bad" THEN "return" ELSE "close"]
         ELSE [conn[q] EXCEPT !.alone = @ /\ q \notin others]]
  /\ UNCHANGED <<treeVars, owner, gone, fault>>

At(r, label) == conn[r].pc = label /\ UNCHANGED <<poolVars, gone>>
Only(r, c) == Become(r, c) /\ UNCHANGED <<treeVars, owner, fault>>

\* sendErrorResponse: status, a temporary file for the page (its NULL is not
\* tested), the headers and the page.  The file is gone when it returns.
\* (mutant: after an error page the handler goes on to its own answer)
SendErrorGoesOn(r) ==
  /\ At(r, "error")
  /\ IF NoTempFile THEN Crash("null stream")
     ELSE Respond(r, Goto(Answer(PutLength(conn[r], 1), conn[r].status),
                          IF conn[r].then = "close" THEN "answer" ELSE conn[r].then))
SendError(r) ==
  /\ At(r, "error")
  /\ IF NoTempFile THEN Crash("null stream")
     ELSE Respond(r, Goto(Answer(PutLength(conn[r], 1), conn[r].status), conn[r].then))

----------------------------------------------------------------------------
(* GET and HEAD *)

\* mutant: a directory needs no trailing slash
StatGetAnyDir(r) == LET c == conn[r] IN
  /\ At(r, "stat") /\ req[r].method \in {"GET", "HEAD"}
  /\ Only(r, IF IsFile(r) THEN Goto([c EXCEPT !.want = data[tree[Node(r)]]], "head")
             ELSE IF IsDir(r) THEN Goto(c, "list")
             ELSE Fail(c, 404))
StatGet(r) == LET c == conn[r] IN
  /\ At(r, "stat") /\ req[r].method \in {"GET", "HEAD"}
  /\ Only(r, IF IsFile(r) THEN Goto([c EXCEPT !.want = data[tree[Node(r)]]], "head")
             ELSE IF IsDir(r) /\ req[r].slash THEN Goto(c, "list")
             ELSE Fail(c, 404))

\* do_list_dir: a temporary file, then opendir, whose NULL is not tested
ListDir(r) == LET c == conn[r] IN
  /\ At(r, "list")
  /\ IF NoTempFile THEN Only(r, [Fail(c, 405) EXCEPT !.alone = FALSE])
     ELSE IF Cardinality(Free) = 1 \/ ~IsDir(r) THEN Crash("null stream")
     ELSE /\ Take(r)
          /\ Become(r, Goto([c EXCEPT !.want = <<Listing>>, !.file = Min(Free)], "head"))
          /\ UNCHANGED <<treeVars, fault>>

SendHead(r) == LET c == conn[r] IN
  /\ At(r, "head")
  /\ Respond(r, Goto(Answer(PutLength(c, Len(c.want)), 200),
                     IF req[r].method = "HEAD" THEN "close"
                     ELSE IF c.file = None THEN "open" ELSE "send"))

\* fopen "r", which succeeds on a directory; on NULL copyFileStreamBytes calls
\* feof unless it has nothing to copy
OpenGet(r) == LET c == conn[r] IN
  /\ At(r, "open")
  /\ IF Found(r) /\ Free # {}
     THEN /\ Take(r)
          /\ Become(r, Goto([c EXCEPT !.file = Min(Free), !.ino = tree[Node(r)]], "send"))
          /\ UNCHANGED <<treeVars, fault>>
     ELSE IF Copied(Len(c.want)) = 0 THEN Only(r, Goto(c, "close"))
     ELSE Crash("null stream")

\* reading a directory fails without feof: the copy loop never ends
Spins(r) == conn[r].pc = "send" /\ conn[r].ino = Dir /\ Copied(Len(conn[r].want)) # 0

SendBody(r) ==
  LET c == conn[r]
      source == IF c.ino = None THEN c.want ELSE data[c.ino]
      n == Len(c.body)
  IN /\ At(r, "send") /\ ~Spins(r)
     /\ Only(r, IF n = Copied(Len(c.want)) \/ r \in gone \/ n >= Len(source) THEN Goto(c, "close")
                ELSE [c EXCEPT !.body = Append(@, source[n + 1])])

----------------------------------------------------------------------------
(* DELETE *)

StatDelete(r) ==
  /\ At(r, "stat") /\ req[r].method = "DELETE"
  /\ Only(r, IF IsDir(r) /\ req[r].slash THEN Goto(conn[r], "rmdir")
             ELSE IF IsFile(r) THEN Goto(conn[r], "unlink")
             ELSE Fail(conn[r], 404))

Remove(r, label, removable) ==
  /\ At(r, label)
  /\ tree' = IF removable THEN [tree EXCEPT ![Node(r)] = Absent] ELSE tree
  /\ Become(r, IF removable THEN Goto(conn[r], "answer") ELSE Fail(conn[r], 405))
  /\ UNCHANGED <<data, owner, fault>>

Rmdir(r) == Remove(r, "rmdir", IsDir(r) /\ Children(Node(r)) = {})
Unlink(r) == Remove(r, "unlink", IsFile(r))

----------------------------------------------------------------------------
(* PUT and POST *)

\* one mkdir of mkdirs: an error other than ENOTDIR is passed over
NotADir(d) == \E m \in Elements(Above[d]) : tree[m] \in Inodes
Mkdir(r) ==
  LET c == conn[r]
      d == DirPath(r)[c.dirs + 1]
  IN /\ At(r, "mkdirs")
     /\ tree' = IF Reachable(d) /\ tree[d] = Absent THEN [tree EXCEPT ![d] = Dir] ELSE tree
     /\ Become(r, [c EXCEPT !.dirs = IF NotADir(d) THEN Len(DirPath(r)) ELSE @ + 1,
                            !.pc = IF NotADir(d) \/ c.dirs + 1 = Len(DirPath(r)) THEN "create" ELSE @])
     /\ UNCHANGED <<data, owner, fault>>

\* fopen "w"
Create(r) ==
  LET c == conn[r]
      ino == IF tree[Node(r)] = Absent THEN r ELSE tree[Node(r)]
      opened == [c EXCEPT !.file = Min(Free), !.ino = ino]
  IN /\ At(r, "create")
     /\ IF Reachable(Node(r)) /\ ~req[r].slash /\ tree[Node(r)] # Dir /\ Free # {}
        THEN /\ tree' = [tree EXCEPT ![Node(r)] = ino]
             /\ data' = [data EXCEPT ![ino] = <<>>]
             /\ Take(r)
             /\ Become(r, IF Lengthless(r) THEN [Fail(opened, 411) EXCEPT !.then = "answer"]
                          ELSE Goto(opened, "copy"))
             /\ UNCHANGED fault
        ELSE Only(r, [Fail(c, 405) EXCEPT !.alone = @ /\ Free # {}])

\* one turn of the copy from the client: putStream writes out none, some or all
\* of what it holds
Flush(r, c, k) ==
  /\ data' = [data EXCEPT ![c.ino] = WriteAt(@, c.flushed, SubSeq(c.body, c.flushed + 1, k))]
  /\ UNCHANGED tree

\* (mutant: the copy waits for all that was announced, whatever feof says)
CopyBodyToLength(r) ==
  LET c == conn[r]
      more == [c EXCEPT !.body = Append(@, r)]
  IN /\ At(r, "copy")
     /\ \/ /\ Len(c.body) = Copied(req[r].length)
           /\ Only(r, Goto(c, "answer"))
        \/ /\ Len(c.body) < Min({Copied(req[r].length), req[r].supply})
           /\ \E k \in c.flushed .. Len(more.body) :
                Flush(r, more, k) /\ Become(r, [more EXCEPT !.flushed = k])
           /\ UNCHANGED <<owner, fault>>
CopyBody(r) ==
  LET c == conn[r]
      more == [c EXCEPT !.body = Append(@, r)]
  IN /\ At(r, "copy")
     /\ \/ /\ Len(c.body) = Copied(req[r].length) \/ Len(c.body) = req[r].supply \/ r \in gone
           /\ Only(r, Goto(c, "answer"))
        \/ /\ Len(c.body) < Min({Copied(req[r].length), req[r].supply})
           /\ \E k \in c.flushed .. Len(more.body) :
                Flush(r, more, k) /\ Become(r, [more EXCEPT !.flushed = k])
           /\ UNCHANGED <<owner, fault>>

----------------------------------------------------------------------------
(* The end of every request *)

Done(r, method, c, status) ==
  At(r, "answer") /\ req[r].method = method /\ Respond(r, Goto(Answer(c, status), "close"))

DoneDelete(r) == Done(r, "DELETE", conn[r], 200)
\* PUT has looked for the file with stat(filePath, &stats != 0), which always
\* fails: it never answers 200
DonePut(r) == Done(r, "PUT", PutLength(conn[r], 0), 201)
\* do_post differs from do_put in its answer
DonePost(r) == Done(r, "POST", PutLength(conn[r], 0), 200)

\* fclose of the file, which writes out the rest of a putStream, then of stream
\* (mutants: what putStream still holds is lost; the file is left open)
CloseUnflushed(r) == LET c == conn[r] IN
  /\ At(r, "close")
  /\ UNCHANGED treeVars
  /\ GiveBack({c.file, c.sock})
  /\ Become(r, Goto([c EXCEPT !.file = None], "close again"))
  /\ UNCHANGED fault
CloseStreamOnly(r) == LET c == conn[r] IN
  /\ At(r, "close")
  /\ IF c.ino # None /\ req[r].method \in Writers THEN Flush(r, c, Len(c.body))
     ELSE UNCHANGED treeVars
  /\ GiveBack({c.sock})
  /\ Become(r, Goto([c EXCEPT !.file = None], "close again"))
  /\ UNCHANGED fault
Close(r) == LET c == conn[r] IN
  /\ At(r, "close")
  /\ IF c.ino # None /\ req[r].method \in Writers THEN Flush(r, c, Len(c.body))
     ELSE UNCHANGED treeVars
  /\ GiveBack({c.file, c.sock})
  /\ Become(r, Goto([c EXCEPT !.file = None], "close again"))
  /\ UNCHANGED fault

\* close(sock_fd), though fclose has closed it, and the end of the job
CloseAgain(r) ==
  /\ conn[r].pc = "close again" /\ UNCHANGED gone
  /\ IF owner[conn[r].sock] # None THEN Crash("stray close") /\ UNCHANGED poolVars
     ELSE Pool!Finish(r) /\ Only(r, Goto(conn[r], "done"))

\* the early returns: neither stream nor sock_fd is closed
ReturnEarly(r) ==
  /\ conn[r].pc = "return" /\ UNCHANGED gone
  /\ Pool!Finish(r) /\ Only(r, Goto(conn[r], "done"))

\* a step of the thread that runs the request
Step(r) ==
  \/ SendError(r)
  \/ StatGet(r) \/ ListDir(r) \/ SendHead(r) \/ OpenGet(r) \/ SendBody(r)
  \/ StatDelete(r) \/ Rmdir(r) \/ Unlink(r)
  \/ Mkdir(r) \/ Create(r) \/ CopyBody(r)
  \/ DoneDelete(r) \/ DonePut(r) \/ DonePost(r) \/ Close(r) \/ CloseAgain(r) \/ ReturnEarly(r)

Next == /\ fault = "none" /\ UNCHANGED req
        /\ \E r \in Requests : Accept(r) \/ Reset(r) \/ Begin(r) \/ Step(r)

Spec == Init /\ [][Next]_vars

\* Threads run and clients send their requests or close; nobody owes a
\* connection or a reset.
FairSpec ==
  /\ Spec
  /\ \A r \in Requests : WF_vars(fault = "none" /\ UNCHANGED req /\ Begin(r))
                         /\ WF_vars(fault = "none" /\ UNCHANGED req /\ Step(r))

----------------------------------------------------------------------------
(* Correctness *)

Labels == {"idle", "queued", "error", "stat", "list", "head", "open", "send", "rmdir", "unlink",
           "mkdirs", "create", "copy", "answer", "close", "close again", "return", "done"}

\* The types of the tree, of the connections and of the descriptors.
TypeOK ==
  /\ req \in Scenarios
  /\ tree \in [Nodes -> Inodes \cup {Absent, Dir}]
  /\ data \in [Inodes -> Seq(Requests \cup {Old, Hole})]
  /\ owner \in [Fds -> Requests \cup {None}]
  /\ gone \subseteq Resetting
  /\ fault \in {"none", "null stream", "broken pipe", "stray close"}
  /\ \A r \in Requests :
       /\ conn[r].pc \in Labels
       /\ conn[r].sock \in Fds \cup {None} /\ conn[r].file \in Fds \cup {None}
       /\ conn[r].ino \in Inodes \cup {None, Dir}

Ended(r) == conn[r].pc = "done"
Lone(r) == Ended(r) /\ conn[r].alone /\ r \notin gone
\* process_request takes the early return that closes nothing
LeftOpen(r) == req[r].method \in {"bad", "empty"}

\* A request that no conflicting request overlaps, and that finds the
\* descriptors it needs, is answered as the server's
\* README says, whatever the others do meanwhile: the status, the length
\* announced and the cells sent are those of what the path held when its thread
\* began.  (A PUT over a file is answered 201, see OverwriteAnswers200; a body
\* that an int does not count is cut short, see AnnouncedIsSent.)
ServedAlone ==
  \A r \in Requests : Lone(r) /\ req[r].method # "empty" =>
    LET c == conn[r] IN
    /\ c.answers # <<>>
    /\ \/ c.answers[1].status = c.due.status
       \/ req[r].method = "PUT" /\ c.answers[1].status = 201
    /\ c.answers[1].status = 200 /\ req[r].method \in {"GET", "HEAD"} =>
         /\ c.answers[1].lens = <<Len(c.due.body)>>
         /\ req[r].method = "GET" /\ Len(c.due.body) < IntCells => c.body = c.due.body
         /\ req[r].method = "HEAD" => c.body = <<>>

\* When such a request has closed its files, and before anyone else touches the
\* path, the tree holds what it asked for: the body of a PUT or POST and nothing
\* else, or nothing after a DELETE.  (The length of the body is one an int holds.)
StoredAlone ==
  \A r \in Requests : conn[r].pc = "close again" /\ conn[r].alone /\ r \notin gone =>
    /\ req[r].method \in Writers /\ conn[r].due.status \in {200, 201} /\ req[r].length < IntCells =>
         Reachable(Node(r)) /\ tree[Node(r)] \in Inodes /\ data[tree[Node(r)]] = conn[r].due.body
    /\ req[r].method = "DELETE" /\ conn[r].due.status = 200 => tree[Node(r)] = Absent

\* However requests overlap, one that has ended was answered exactly once, with
\* at most one Content-Length; the exception is a PUT or POST without one.
OneAnswer ==
  \A r \in Requests : Ended(r) /\ req[r].method # "empty" /\ ~Lengthless(r) =>
    Len(conn[r].answers) = 1 /\ Len(conn[r].answers[1].lens) <= 1

\* A thread of the pool runs exactly the requests between their start and their
\* end.  A descriptor belongs to a request that is queued or running, or to one
\* whose early return left it open, and then it is its socket.
ThreadsReturned == \A r \in Requests :
  /\ (conn[r].pc \in Labels \ {"idle", "queued", "done"}) <=> r \in running
  /\ (conn[r].pc = "queued") <=> r \in Elements(pending)
DescriptorsReturned ==
  \A f \in Fds : owner[f] # None =>
    LET r == owner[f] IN
    \/ ~Ended(r) /\ f \in {conn[r].sock, conn[r].file}
    \/ Ended(r) /\ LeftOpen(r) /\ f = conn[r].sock

\* Whatever a request took from the process it has given back when it ends, by
\* every path through the handlers.
ResourcesReturned == TypeOK /\ ThreadsReturned /\ DescriptorsReturned

\* Every accepted connection is answered and closed unless a thread reads a
\* directory for ever or the process is in disorder.
RequestsEnd ==
  \A r \in Requests :
    conn[r].pc = "queued" ~> (Ended(r) \/ fault # "none" \/ \E q \in Requests : Spins(q))

----------------------------------------------------------------------------
(* What documents claim and the code does not do *)

\* "If the named file is overwritten, the server returns a 200" (README.md:19)
OverwriteAnswers200 ==
  \A r \in Requests : Lone(r) /\ req[r].method = "PUT" /\ conn[r].answers # <<>> =>
    conn[r].answers[1].status = conn[r].due.status

\* "ensure file exists" (http_methods.c:139): the GET that has announced a file
\* finds it
AnnouncedFileOpens == fault # "null stream"

\* "nbytes the number of bytes to send" (file_util.c:49): a GET that runs alone
\* sends as much as it has announced
AnnouncedIsSent ==
  \A r \in Requests : Lone(r) /\ req[r].method = "GET" =>
    \A i \in 1 .. Len(conn[r].answers) :
      conn[r].answers[i].status = 200 => conn[r].answers[i].lens = <<Len(conn[r].body)>>
=============================================================================
