------------------------------- MODULE Shell --------------------------------
(***************************************************************************)
(* The command interpreter of fsx600 (misc.c of CS5600Assignment4, started *)
(* with -cmdline): a stack of command files, a working directory that is   *)
(* text, and commands that make one or several calls of fs_ops.  One       *)
(* action is one line that cmdloop reads, with every call it leads to.     *)
(*                                                                         *)
(* A path is [abs, names]: names are what split leaves between slashes.    *)
(* The last name of a path a command changes something at is a Leaf; "."   *)
(* and ".." there are refused by every call (they exist, or are special).  *)
(***************************************************************************)
EXTENDS FsCalls, Sequences, SequencesExt

CONSTANTS
  Stdin,          \* the stream cmdloop starts with
  Typed,          \* bound: the lines typed at the terminal
  Script,         \* the command files, and the lines of each
  CMDSTKMAX,
  MaxCwd          \* bound: names in the working directory's path

\* A line is a record: cmd, the path p of its argument; for link and rename the
\* path q as well, for put the number n of pieces of the local file and what they
\* hold, t, for symlink the text t, and for run the file.
Lines == Typed \cup UNION {{Script[f][k] : k \in DOMAIN Script[f]} : f \in DOMAIN Script}

ASSUME ShellAssumption ==
  /\ {CMDSTKMAX, MaxCwd} \subseteq Nat \ {0} /\ Stdin \notin DOMAIN Script
  /\ \A c \in Lines : c.cmd \notin {"run", "quit"} =>
       /\ c.p.abs \in BOOLEAN /\ c.p.names \in Seq(Names)
       /\ c.cmd # "cd" => c.p.names # <<>> /\ Last(c.p.names) \in Leaf
       /\ c.cmd = "put" => c.n \in Nat

VARIABLES
  cwd,            \* the names of the working directory's path
  cmdstk          \* the streams being read, the top one last; <<>>: the process has ended

shellVars == <<vol, cwd, cmdstk>>

-----------------------------------------------------------------------------
(* Paths                                                                   *)

\* full_path and split
FullPath(p) == IF p.abs THEN p.names ELSE cwd \o p.names

\* one round of normalize_dot_paths; mutant: ".." is dropped like "."
KeepDots(kept, n) == IF n \in Leaf THEN Append(kept, n) ELSE kept
Keep(kept, n) ==
  IF n = Dot THEN kept
  ELSE IF n = DotDot THEN IF kept = <<>> THEN kept ELSE Front(kept)
  ELSE Append(kept, n)
Normalized(names) ==
  LET kept[k \in 0 .. Len(names)] ==
        IF k = 0 THEN <<>> ELSE LET before == kept[k - 1] IN Keep(before, names[k])
  IN kept[Len(names)]

\* one round of get_inode_of_file_path; mutant: the walk stays where it is when a
\* name is not there
StepStays(v, at, n) ==
  IF ~at.found \/ ~IsDir(v, at.inum) \/ Found(v, at.inum, n) = {} THEN at
  ELSE IF n \in Leaf THEN Resolve(v, at.inum, n)
  ELSE [at EXCEPT !.inum = Target(v, at.inum, n)]
Step(v, at, n) ==
  IF ~at.found THEN at
  ELSE IF ~IsDir(v, at.inum) \/ Found(v, at.inum, n) = {} THEN [found |-> FALSE, inum |-> Wild]
  ELSE IF n \in Leaf THEN Resolve(v, at.inum, n)
  ELSE [at EXCEPT !.inum = Target(v, at.inum, n)]
Walk(v, names) ==
  LET at[k \in 0 .. Len(names)] ==
        IF k = 0 THEN [found |-> TRUE, inum |-> Root]
        ELSE LET before == at[k - 1] IN Step(v, before, names[k])
  IN at[Len(names)]

\* a name on the way is a link of a chain without end: the stack overflows
Endless(v, names) == \E k \in DOMAIN names :
  LET at == Walk(v, SubSeq(names, 1, k - 1)) IN
  at.found /\ IsDir(v, at.inum) /\ Loops(v, at.inum, names[k])

IsDirAt(v, names) == LET at == Walk(v, names) IN at.found /\ IsDir(v, at.inum)

-----------------------------------------------------------------------------
(* What the commands do to the volume, and whether they report success     *)

\* get_inode_of_file_path_dir, and a call in the directory it finds
InDir(v, names, Call(_, _)) ==
  IF IsDirAt(v, Front(names)) THEN Call(Walk(v, Front(names)).inum, Last(names)) ELSE Fail(v)

\* a call for the file (Files) or the file or directory at a path
OnInode(v, names, Kinds, Call(_)) ==
  LET at == Walk(v, names) IN
  IF at.found /\ v.inodes[at.inum].type \in Kinds THEN Call(at.inum) ELSE Fail(v)
File == {"file"}
AnyKind == {"file", "dir"}

\* a local file of k short pieces t; the file stays when a write fails.  Pieces that
\* fill blocks are in FsFile.
PutCall(v, names, k, t) ==
  LET made == InDir(v, names, LAMBDA d, n : MkEntry(v, d, n, "file"))
      at == Walk(made.vol, names)
      put[j \in 0 .. k] ==
        IF j = 0 THEN made
        ELSE LET before == put[j - 1] IN
             IF before.ok THEN DoWrite(before.vol, at.inum, t) ELSE before
  IN IF made.ok /\ ~at.found THEN Fail(made.vol) ELSE put[k]

Touched(v, i) == Done(FlushMetadata(MarkInode(v, i)))
TouchCall(v, names) ==
  LET made == InDir(v, names, LAMBDA d, n : MkEntry(v, d, n, "file"))
      exists == InDir(v, names, LAMBDA d, n : [ok |-> Found(v, d, n) # {}]).ok
  IN IF exists THEN OnInode(v, names, AnyKind, LAMBDA i : Touched(v, i)) ELSE made

LinkCall(v, from, to) ==
  OnInode(v, from, File, LAMBDA i : InDir(v, to, LAMBDA d, n : MkLink(v, i, d, n)))

TruncateCall(v, names) ==
  OnInode(v, names, File, LAMBDA i : Done(FlushMetadata(MarkInode(Truncated(v, i), i))))

\* ls-l of a directory: names and inode numbers; of anything else, what stat tells
LsLong(v, names) ==
  LET at == Walk(v, names)
      entry(p) == [name |-> Slot(v, at.inum, p).name, ino |-> Slot(v, at.inum, p).inum]
  IN IF ~at.found THEN {}
     ELSE IF ~IsDir(v, at.inum) THEN {[name |-> Last(names), ino |-> at.inum]}
     ELSE {entry(p) : p \in {q \in Positions(v, at.inum) : Slot(v, at.inum, q).name # NoName}}

-----------------------------------------------------------------------------
(* The command loop                                                        *)

ShellInit == Init /\ cwd = <<>> /\ cmdstk = <<[file |-> Stdin, line |-> 1]>>

Top == cmdstk[Len(cmdstk)]
AtEnd == Top.file # Stdin /\ Top.line > Len(Script[Top.file])

\* fgets and split: c is a line that can be next
NextLine(c) ==
  /\ cmdstk # <<>> /\ ~AtEnd
  /\ IF Top.file = Stdin THEN c \in Typed ELSE c = Script[Top.file][Top.line]

\* the paths a command walks: for a directory, or to the end
Walks(c) ==
  CASE c.cmd = "cd" -> {Normalized(FullPath(c.p))}
    [] c.cmd \in {"touch", "truncate", "chmod"} -> {FullPath(c.p)}
    [] c.cmd \in {"mkdir", "rmdir", "rm", "symlink", "put"} -> {Front(FullPath(c.p))}
    [] c.cmd = "link" -> {FullPath(c.p), Front(FullPath(c.q))}
    [] c.cmd = "rename" -> {FullPath(c.p), FullPath(c.q)}
    [] c.cmd \in {"run", "quit"} -> {}
Overflows(c) == \E path \in Walks(c) : Endless(vol, path)

\* the search of cmds[]
Reads(c, names) == NextLine(c) /\ c.cmd \in names /\ ~Overflows(c)
Advanced ==
  IF Top.file = Stdin THEN cmdstk ELSE [cmdstk EXCEPT ![Len(cmdstk)].line = @ + 1]

\* a command that changes at most the volume
Performs(result) == vol' = result.vol /\ cmdstk' = Advanced /\ UNCHANGED cwd

\* an empty link to cd into makes the text grow without end
Cd(c) ==
  LET names == Normalized(FullPath(c.p)) IN
  /\ Reads(c, {"cd"}) /\ Len(names) <= MaxCwd
  /\ cwd' = IF IsDirAt(vol, names) THEN names ELSE cwd
  /\ cmdstk' = Advanced /\ UNCHANGED vol

\* the commands that look for their directory and take the last name as it is
Entry(c) ==
  LET names == FullPath(c.p) IN
  /\ Reads(c, {"mkdir", "rmdir", "rm", "symlink"})
  /\ \/ c.cmd = "mkdir" /\ Performs(InDir(vol, names, LAMBDA d, n : MkdirCall(vol, d, n)))
     \/ c.cmd = "rmdir" /\ Performs(InDir(vol, names, LAMBDA d, n : RmdirCall(vol, d, n)))
     \/ c.cmd = "rm" /\ Performs(InDir(vol, names, LAMBDA d, n : UnlinkCall(vol, d, n)))
     \/ c.cmd = "symlink" /\ Performs(InDir(vol, names, LAMBDA d, n : SymlinkCall(vol, d, n, c.t)))

\* the commands that follow a link at the end of the path
Attribute(c) ==
  LET names == FullPath(c.p) IN
  /\ Reads(c, {"touch", "truncate", "chmod"})
  /\ \/ c.cmd = "touch" /\ Performs(TouchCall(vol, names))
     \/ c.cmd = "truncate" /\ Performs(TruncateCall(vol, names))
     \/ c.cmd = "chmod" /\ Performs(OnInode(vol, names, AnyKind, LAMBDA i : Touched(vol, i)))

PutFile(c) ==
  /\ Reads(c, {"put"}) /\ Performs(PutCall(vol, FullPath(c.p), c.n, c.t))

LinkFile(c) ==
  /\ Reads(c, {"link"}) /\ Performs(LinkCall(vol, FullPath(c.p), FullPath(c.q)))

\* the renames of PlainRename, and those of what is not there
RenameInPlace(c) ==
  LET from == Front(FullPath(c.p))
      to == Front(FullPath(c.q))
      n == Last(c.p.names)
  IN /\ Reads(c, {"rename"}) /\ IsDirAt(vol, from)
     /\ \/ Found(vol, Walk(vol, from).inum, n) = {} /\ UNCHANGED vol
        \/ IsDirAt(vol, to) /\ PlainRename(Walk(vol, from).inum, n, Walk(vol, to).inum, Last(c.q.names))
     /\ cmdstk' = Advanced /\ UNCHANGED cwd

\* fs_rename does not look whether its directories exist.  Where there is none, an
\* error number indexes the inode table, and the last name is what the stack held:
\* the call fails (the name is a dot, or what is read has not the mode of a directory)
\* or the process ends.
RenameFromNowhere(c) ==
  LET from == Walk(vol, Front(FullPath(c.p))) IN
  /\ Reads(c, {"rename"}) /\ ~IsDirAt(vol, Front(FullPath(c.p)))
  /\ cmdstk' \in {Advanced} \cup {end \in {<<>>} : ~from.found}
  /\ UNCHANGED <<vol, cwd>>

\* do_mklink fails, which is not looked at, and do_unlink takes the name away
RenameToNowhere(c) ==
  LET from == Front(FullPath(c.p))
      d == Walk(vol, from).inum
      n == Last(c.p.names)
  IN /\ Reads(c, {"rename"}) /\ IsDirAt(vol, from) /\ ~IsDirAt(vol, Front(FullPath(c.q)))
     /\ Found(vol, d, n) # {} /\ vol.inodes[Target(vol, d, n)].type \in AnyKind
     /\ \/ vol' = DoUnlink(vol, Target(vol, d, n), d, n).vol /\ cmdstk' = Advanced
        \/ /\ ~Walk(vol, Front(FullPath(c.q))).found
           /\ cmdstk' \in {Advanced, <<>>} /\ UNCHANGED vol
     /\ UNCHANGED cwd

RenameFile(c) == RenameInPlace(c) \/ RenameFromNowhere(c) \/ RenameToNowhere(c)

\* mutants: the limit is one too high; the file that calls is left where it is, so
\* that the same line is read again
RunPastEnd(c) ==
  /\ Reads(c, {"run"})
  /\ cmdstk' = IF c.file \notin DOMAIN Script \/ Len(cmdstk) > CMDSTKMAX THEN Advanced
               ELSE Append(Advanced, [file |-> c.file, line |-> 1])
  /\ UNCHANGED <<vol, cwd>>
RunStays(c) ==
  /\ Reads(c, {"run"})
  /\ cmdstk' = IF c.file \notin DOMAIN Script \/ Len(cmdstk) >= CMDSTKMAX THEN cmdstk
               ELSE Append(cmdstk, [file |-> c.file, line |-> 1])
  /\ UNCHANGED <<vol, cwd>>

\* do_run: a file that is not there, or one too many, is not read; a line that starts
\* with ! pushes what the program prints in the same way
Run(c) ==
  /\ Reads(c, {"run"})
  /\ cmdstk' = IF c.file \notin DOMAIN Script \/ Len(cmdstk) >= CMDSTKMAX THEN Advanced
               ELSE Append(Advanced, [file |-> c.file, line |-> 1])
  /\ UNCHANGED <<vol, cwd>>

\* the loop ends, also when a command file says so
Quit(c) == Reads(c, {"quit"}) /\ cmdstk' = <<>> /\ UNCHANGED <<vol, cwd>>

\* the end of a stream: the stack is popped, and the loop ends with stdin
EndOfFile ==
  /\ cmdstk # <<>> /\ (AtEnd \/ Top.file = Stdin)
  /\ cmdstk' = Front(cmdstk) /\ UNCHANGED <<vol, cwd>>

\* a circle of links on the way overflows the process's stack
Crash(c) == NextLine(c) /\ Overflows(c) /\ cmdstk' = <<>> /\ UNCHANGED <<vol, cwd>>

\* main, for the same image
Start == /\ cmdstk = <<>> /\ cmdstk' = <<[file |-> Stdin, line |-> 1]>>
         /\ cwd' = <<>> /\ Remount

Performed(c) ==
  \/ Cd(c) \/ Entry(c) \/ Attribute(c) \/ PutFile(c)
  \/ LinkFile(c) \/ RenameFile(c) \/ Run(c) \/ Quit(c) \/ Crash(c)

ShellNext == \/ \E c \in Lines : Performed(c)
             \/ EndOfFile \/ Start
ShellSpec == ShellInit /\ [][ShellNext]_shellVars

\* a read of a command file returns, where a read of the terminal may wait for ever
FromFile == Len(cmdstk) > 1 /\ IF AtEnd THEN EndOfFile ELSE Performed(Script[Top.file][Top.line])
ShellFairSpec == ShellSpec /\ WF_shellVars(FromFile)

-----------------------------------------------------------------------------
(* Properties                                                              *)

\* The working directory's text has no "." or "..": normalize_dot_paths strikes out all.
CwdNormal == cwd \in Seq(Leaf)

\* The command stack stays within cmdstk[CMDSTKMAX], whatever command files run, and
\* the terminal is at its bottom and nowhere else.
StackFits ==
  /\ Len(cmdstk) <= CMDSTKMAX
  /\ \A k \in DOMAIN cmdstk : cmdstk[k].file = Stdin <=> k = 1

\* Between two commands the volume, the working directory and the stack are as such.
ShellTypeOK == TypeOK /\ CwdNormal /\ StackFits

\* cd strikes "." and ".." out of the text and every other command follows the
\* entries of the directories: after a cd, ls-l shows what ls-l of cd's argument
\* showed before it.  Not so for a link that a full volume left empty: it stands
\* for its directory, whose entry ".." is one level further up.
LinksFilled == \A i \in vol.imap : vol.inodes[i].type = "link" => vol.inodes[i].size # 0
CdLikeLs == LinksFilled => \A c \in {x \in Typed : x.cmd = "cd"} :
  LET path == FullPath(c.p) IN
  ~Endless(vol, path) /\ IsDirAt(vol, path) => LsLong(vol, Normalized(path)) = LsLong(vol, path)

\* When the working directory is gone, no command that is given a relative name
\* first does anything to the volume, whatever directory its text used to lead
\* through; rename with a relative name second does, see RenameToNowhere.
GoneCwdInert == [][\A c \in Lines :
  /\ cwd # <<>> /\ ~IsDirAt(vol, cwd) /\ c.cmd \notin {"run", "quit"} /\ ~c.p.abs
  /\ Entry(c) \/ Attribute(c) \/ PutFile(c) \/ LinkFile(c) \/ RenameFile(c)
  => UNCHANGED vol]_shellVars

\* A rename that goes on to the next line has not taken the last name of what it was
\* given: README.md:84 promises a move.
RenameMoves == [][\A c \in {x \in Lines : x.cmd = "rename"} :
  RenameFile(c) /\ cmdstk' # <<>> => \A i \in vol.imap : EntriesTo(i) # {} => EntriesTo(i)' # {}]_shellVars

\* A command file that is run is left again, though it may run itself.
FilesEnd == Len(cmdstk) > 1 ~> Len(cmdstk) <= 1
=============================================================================
