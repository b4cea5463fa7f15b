# Verification of the Northeastern course systems

The repository holds several separate programs. This directory is their
verification project: TLA+ modules translated from the sources, TLC
configurations that check them on small instances, and TLAPS proofs of the
properties that matter most. Every definition that stands for code is listed,
with its lines, in `PROJECT.json` under `map`.

Contents: [Inventory](#inventory), [Plan](#plan), [Thread pool](#thread-pool),
[fsx600](#fsx600), [Shell](#shell), [HTTP requests](#http-requests),
[Heaps](#heaps), [Disagreements](#disagreements) between code and documents,
[What is proved](#what-is-proved), [What is not modelled](#what-is-not-modelled).

## Inventory

### Thread pool (`CS5600Assignment5/src/thpool.c`): modelled

- State: a FIFO of jobs under `rwmutex`; a binary semaphore `has_jobs`; the
  counters `num_threads_alive` and `num_threads_working` under `thcount_lock`;
  the condition variable `threads_all_idle`; two statics shared by all pools of
  a process, `threads_keepalive` and `threads_on_hold`.
- Operations: `thpool_init`, `thpool_add_work`, `thpool_wait`, `thpool_pause`,
  `thpool_resume`, `thpool_destroy`, and the worker loop `thread_do`.
- Interactions: the HTTP server's `main` adds one job per connection; workers
  run it. Clients and workers meet in the queue, the semaphore and the counters.
- Hard: every interleaving of workers, clients and a destroyer; `len`,
  `num_threads_alive` and the statics are read without their locks; posts of a
  binary semaphore coincide; signals arrive anywhere.
- Correct when: each job runs once, in order; none is dropped while another
  runs; no job waits with every worker asleep; `thpool_wait` covers what was
  outstanding at its call and returns; `thpool_destroy` returns, and frees only
  what nobody uses.

### HTTP server (`CS5600Assignment5/src/http_*.c` and helpers): requests modelled

- State: the directory tree under `content_base`, one socket stream per request,
  the process's descriptors, a configuration and a table of media types filled
  at start.
- Operations: `main` accepts and queues; `process_request` parses one request
  and calls `do_get`, `do_head`, `do_put`, `do_post` or `do_delete`.
- Interactions: twenty workers of the pool run requests on one file tree, with
  no lock.
- Hard: check-then-act between `stat`, `fopen` and `unlink`; a file that is
  truncated, rewritten or removed while it is sent; error paths that must answer
  once and close the connection; loops that end only at `feof`; a descriptor
  that is closed twice.
- Correct when: every request is answered once and its descriptors are given
  back; a request nobody gets in the way of is served as documented; requests
  end.

### fsx600 file system (`CS5600Assignment4/`): modelled, but for the image device

- State: inode and block bitmaps and the inode table in memory, with the set of
  dirty metadata blocks; directory and data blocks, written through to the image.
- Operations: the `fuse_operations` vector of `fs_ops.c`.
- Interactions: libfuse, or the shell of `misc.c`, calls one operation after
  another; all of them share the bitmaps, the inode table and `get_file_blkno`.
- Hard: calls that fail half way on a full volume; reference counts, the size of
  a directory and the block map, each kept by hand at many places; what is in
  memory only and what is in the image; hard and symbolic links; pointer blocks.
- Correct when: entries name allocated inodes and the counts equal the number of
  entries; the block map marks exactly the blocks files reach; a call happens to
  the names at once or not at all; a restart changes nothing; a file reads back
  as written; what the queries tell is what the calls made.

### fsx600 shell (`CS5600Assignment4/misc.c`): modelled in part

- State: the working directory, as text; a stack of the command files being
  read; a table of commands.
- Operations: `cmdloop` reads a line from the top stream and calls the command,
  which turns its arguments into absolute paths and calls `fs_ops`.
- Interactions: the only client of the file system when started with `-cmdline`.
- Hard: text that outlives the directories it names; `cd` treats `..` as text
  and every other command as an entry; commands of several calls, of which one
  fails; command files that run command files.
- Correct when: a path means the same to all commands; a command reports success
  only when all of it happened; a lost working directory does no harm; command
  files end.

### Other programs

| Program | State and operations | Hard | Correct when | Status |
|---|---|---|---|---|
| K&R heap, `assignment-3-master/mm_kr_heap.c` | a circular free list in address order; malloc, free, realloc over `mem_sbrk` | splitting, merging with two neighbours, growth | free and allocated blocks partition the heap; the list is in address order; no two free neighbours; contents are kept | modelled |
| Boundary-tag heap, `mm_kr2_heap.c` | a doubly linked list, header and footer per block | tags of neighbours are trusted, and a flag is left unset by a split; the tag past the break; double free | tags, list and client agree after every sequence of calls | modelled |
| Heap test and traces | reads a trace, calls the heap | | | left out: driver and data |
| ALU, `assignment-1-master/alu.c`, `word.c` | pure functions on words; most are stubs that return 0 | widths, shift counts at the width | the few that are written equal arithmetic modulo 2^w, which their tests ask | left out |
| RegisterSystem (Java) | users, courses, sign-ups, scholarships; commands of a file, one after another | long sequences of commands | no document or test says | left out |
| Ecommerce (Java) | products, inventories, carts; commands of a file, one after another | quantities over long sequences | no document or test says | left out |
| Tic-tac-toe, `assignment-2-master` | tests of programs that are not in the repository | | | left out |
| TinDog, web content, `mime.types` | static data | | | left out |

## Plan

In order of importance; 1 to 7 are done; the end of 8 says what is left.

1. `WorkPool` (what a pool promises), `ThreadPool` (the code), proofs in
   `ThreadPoolProofs`.
2. `PoolStatics`: pauses and other pools, on top of `ThreadPool`.
3. `Namespace` (what a file system promises about names), `FsVolume` (the
   operators of `fs_util_*.c`), `FsCalls` (the calls), `FsHandles` (open files),
   `FsQueries` (what the calls that change nothing tell).
4. `FileContents` (what a store of files promises), `FsFile` (pointer blocks).
5. `Shell`: the command interpreter over `FsCalls`.
6. `HttpRequests`: the steps of each handler between system calls, several at
   once on a small tree of files, queued on `WorkPool`.
7. `BoundaryTags` (`mm_kr2_heap.c`) and `FreeList` (`mm_kr_heap.c`), both against
   `Heap`, what an allocator promises.
8. Proofs of the pool (`ThreadPoolProofs`, `PoolStaticsProofs`), of the requests
   (`HttpProofs`), of the fsx600 calls (`FsProofs`), of the blocks of files
   (`FsFileProofs`), of the shell (`ShellProofs`) and of both heaps
   (`FreeListProofs`, `BoundaryTagsProofs`): done. Left: of `FsCalls`, what
   `PlainRename` keeps (`NamesCounted`), and of `Shell` what follows only from that,
   `CdLikeLs`; of `FsFile`, `PutStored`; of what happens after a `mkdir` that failed
   half way, `ImplementsNamespace` and `FreeIsUnreached` for `SparingSpec`.

A module of the disk writes inside one fsx600 call, with a crash between them,
was planned and dropped: neither code nor documents say what a crash may cost,
and there is nothing in the code that repairs an image.

## Thread pool

### Modules

`ThreadPool` has one program counter per worker and per client. A step is what a
thread does between two points where another can observe or change the pool:
a section under `thcount_lock` or the semaphore's mutex is one step when nothing
of its middle can be seen. Sections that can be seen are split, and the model
keeps the holder of the lock:

- `rwmutex` is held from the dequeue or the push to the end of the `bsem_post`
  inside it (`Pull` then `PullPost`; `AddWork` then `PushPost`);
- `thcount_lock` is held between the two reads of `thpool_wait`, `len` and
  `num_threads_working` (`WaitReadLen`, `WaitReadWorking`), and between a dying
  thread's decrement and its unlock (`ThreadExit`, `ThreadUnlock`).

| Labels of a worker | Code |
|---|---|
| `start` | `thread_do` up to the increment of `num_threads_alive` |
| `loop`, `check` | the two tests of `threads_keepalive` |
| `bsem` | `bsem_wait`, asleep when in `bsemWait` |
| `count`, `pull`, `pullpost`, `run`, `uncount` | the body of the loop |
| `exit`, `unlock`, `dead` | after the loop |

A client is at `idle` between calls, `post` inside `thpool_add_work`, `wlock`,
`wread`, `wdone` inside `thpool_wait`, and `poll`, `clear`, `free`, `gone` inside
`thpool_destroy`, whose two polling loops, the second after a pause of the
first, are one: post to everybody while a thread is alive. `finished` and `owed`
are history variables. Condition waits may wake without a signal (`SpuriousWake`).

`PoolStatics` adds the SIGUSR1 handler, entered at any label, with
`threads_on_hold`, and the creation and destruction of other pools, which write
the shared statics.

Assumed of the callers: `thpool_destroy` is called when no other client is in a
call, and none is made after. Assumed of the platform: `malloc` and
`pthread_create` succeed. Every job's function returns.

### Runs

| Run | Instance | Shows |
|---|---|---|
| `pool_safety` | 3 threads, 2 clients, 3 jobs, symmetric | `WaitCoversWork`, `NoLostWakeup`, `CountsExact`, `FreedAfterUse`, and `ImplementsWorkPool` |
| `pool_live` | 2 threads, 1 client, 2 jobs, fair | queued jobs finish, `thpool_wait` and `thpool_destroy` return |
| `statics_safety` | 2 threads, 1 client, 2 jobs, one pause, one other pool | `WaitCoversWork` and `ImplementsWorkPool` survive pauses at any point and the other pool's writes |

Why the instances are enough: two posts coincide with two jobs and two threads;
a stale post needs a third thread to pass the one it was made for; the branch
`len > 1` of the dequeue with a job left behind needs three jobs or two and a
push. Safety is proved for all instances besides.

Deadlock is not checked: the pool stops when it has been destroyed, and clients
need not call.

Fairness: strong for each worker and for each client inside a call, weak for the
return of `thpool_init`. The kernel runs every thread, and a mutex that is
released again and again is obtained in the end; weak fairness would let one
waiter, woken spuriously for ever, keep `thcount_lock` from the workers. No
client owes a call and no spurious wakeup is owed.

## fsx600

### Modules

`FsVolume` holds the operators of `fs_util_meta.c`, `fs_util_dir.c`,
`fs_util_path.c` and the parts of `fs_util_file.c` that names need, as functions
of a volume: a record of both bitmaps and the inode table in memory, the dirty
set, the metadata as the image has it, and the data blocks. Calls are sequences
of such functions, so that the order of tests, allocations, marks and flushes is
the code's; a call that fails returns the volume as far as it got
(`Fail(room.vol)`), which is where a full volume shows.

`FsCalls` has one operator per call (`MkdirCall`, `RenameCall`, ...), one action
per call, and `Remount`: the process ends between two calls and `fs_init` reads
the image again. A call is atomic. Its path is given as the directory `d` it
leads to and the last name `n`; the last name may be a chain of links.

What is abstracted: times, owners and permission bits (`SetAttr` keeps the flush
that `fs_chmod` and `fs_utime` do; where `fs_rename` compares the whole mode of
source and target, either outcome of the comparison of the bits may happen,
`samePerm`); a file's text, of which only the first block exists here, written with
one of the values `Data`; a symbolic link holds one name relative to its directory.
Sizes of directories are unsigned, and are lowered in two ways: through the `int` of
`max.h` by `fs_unlink` and `fs_rmdir` (`SizeLessOr0`), and by `do_unlink` with a test
that is never true, so that 0 wraps (`SizeLess`). The image
that a volume starts from comes from `mkfs-x6`, which is not in the repository:
a root with `.` and `..`.

What the code computes by walking (the next names of a chain of links, the
directories below the root) is defined by closure: `Chain` is the least set of
names that holds the first one and leads on, `Dirs` the least set of directories
that holds the root and what its members' entries name.

`Namespace` is the promise: a tree in which a call changes the names at once or
not at all, and in which a restart is no step. `FsCalls!ImplementsNamespace`
maps the volume to it: `kind` is the type of the inodes that have a name, `child`
what the directories' entries say. An inode that has no name any more and stays
allocated is no node: that it is not lost is what `FreeIsUnreached` says.

`FsQueries` has the calls that change nothing, as operators over a volume between
two calls: `fs_getattr`, `fs_opendir`, `fs_readdir`, `fs_readlink`, `fs_read`,
`fs_statfs`. Its properties say that they tell what the calls that change the
volume have made.

`FsHandles` adds an open file: `fs_open` keeps an inode number in `fi->fh`, counts
nothing and is never asked again. Three specifications say what may happen to the
file in between. `HandlesSpec`: anything. `CarefulSpec`: clients leave an open file a
name. Nothing in the code sees to that; it is an assumption on the clients, under
which the properties of the volume are checked and proved, and without which
`HandleKeepsInode` fails at once. `MountedSpec` has what libfuse does when it is not
mounted with `hard_remove`: it hides an open file that is unlinked under a free name,
by a call of `fs_rename`. That does not ensure the assumption: without room for the
new name `fs_rename` loses the file (`MCFsQueriesHide.cfg`).

`BytesKept` is an action property: no step changes what a file or a link reads as,
but a write to it or a truncate of it, and what is written is read. With two values
in `Data` and two link texts, a block that came to another file, or was not given
back, shows.

`FsFile` is `get_file_blkno` with direct, indirect and double-indirect pointers,
and `do_read`, `do_write`, `do_truncate` over it, for files that share a block
map. A block is `Ptrs` cells, of a pointer or a byte. `beyond` records that
`get_file_blkno` read past a pointer block. `FileContents` is the promise:
sequences of cells that grow at the end and are emptied. `ReadableToEnd` asks that
`do_get` of the shell, which reads block after block until it has the size that
`stat` told, copies every file whole. `PutStored` is about the other command,
`do_put`, which writes `MaxWrite` cells at a time: in every state, for every new file
and every length, a put that reports success has stored what `do_get` then reads,
whichever piece a full volume stops. It may also fail after the last cell is stored.

### Runs

| Run | Instance | Shows |
|---|---|---|
| `fs_names` | 3 inodes, 2 names, 2 texts, 6 blocks of 3 entries, one open file (`CarefulSpec`) | every call but rename, and restarts: `LinkCounts`, `DirectoriesExact`, `AllocationExact`, `ImageCurrent`, `ListedOnce`, `BytesKept` |
| `fs_names_full` | 3 names, 2 blocks of 4 entries (`SparingSpec`) | calls that run out of blocks, and everything after them: `FreeIsUnreached`, `ImplementsNamespace` |
| `fs_rename` | 2 names, 3 blocks of 4 entries, no links, no text | renames to free names with room (`PlainRename`), and restarts: `NamesCounted`, `ImplementsNamespace` |
| `fs_file` | two files of 10 and 3 cells; 1 direct pointer, 2 cells per block | append and empty through every kind of pointer: `StoredExact`, `ReadableToEnd`, `ImplementsContents` |
| `fs_file_full` | two files of up to 8 cells on 6 blocks | writes that stop half way, puts of several pieces: `StoredExact`, `PutStored` |

Bounds. Three inodes are a root, a directory and something in it, or two
directories, one inside the other. In `fs_names` a block has three entries, so that a
directory needs a second block for its second name and extension is common; six
blocks never run out (10,616 states). In `fs_names_full` two nearly always do, and a
block has four entries, so that a directory that a failed `mkdir` has left without
`.` and `..` can come to have two names: `rmdir` then takes it for empty. Such
volumes are in the run. What is not is that one `rmdir` (`SparingStep`): after it
both properties are false, which `EmptyHasNoNames` shows (below). `InodesPerBlk` is 2
everywhere: the root has the first block of the inode table to itself, the two
others share the second, so that an inode that is not marked dirty is flushed by a
neighbour only sometimes. In `fs_rename` it mostly is not: `do_unlink` does not mark
what it lowers, the image's count stays one too high, a restart reads it, and a later
`unlink` leaves the inode allocated without a name. All of that happens in the run
(2,354 states), and `ImageCurrent` is false in it. What survives is `NamesCounted`: names and
sizes are on the image, and no count, in memory or on it, is ever below the number of
names, so that no inode is freed while a name leads to it. Every round of rename and
restart raises the count again; `MaxRaised` is the count up to which renames are
tried.

`MaxNlink` stands for the largest value of the unsigned count, after which it wraps,
and `MaxDirSize` for the largest of a directory's size, in entries. `CountsAssumption`
has the first at least as large as the number of entries a volume has room for, and
the second twice that; 32 bits give both for every image. The count wraps downwards
when the directory of a failed `mkdir` is removed. `MaxSize` bounds the short writes to
a file between truncations. Links are left out of `fs_rename` because the code takes a
count from the wrong file (below). In `FsFile` ten cells reach the second of the
double-indirect blocks' entries on both levels.

Names and texts are symmetric: no call tells one from another. The views leave out what
nothing reads before it is written: the fields of a free inode but its pointers, and
what an unpointed block holds, since `get_file_blkno` zeroes a block before a
directory or a link uses it. In `FsFile`, where one kind of block is not zeroed, what
is left shows only past the end of a file, which no call of `SpecAppend` reads. The
view of `fs_names_full` leaves out the counts of directories too, which every failed
`mkdir` and its `rmdir` lower: without renames nothing reads them.

## Shell

`Shell` puts the command loop on top of `FsCalls`. Its state is the volume, the
names of the working directory (`cwd`) and the stack of streams (`cmdstk`), each a
file and the line that is next; an empty stack is a process that has ended. An
action is one line: reading it, expanding its paths (`FullPath`, which is
`full_path` and `split`; `Normalized`, which is `normalize_dot_paths`), and every
call of `fs_ops` the command makes, in order, up to the first that fails. `Walk`
is `get_inode_of_file_path` over a whole path, through links.

| Action | Commands |
|---|---|
| `Cd` | `cd` |
| `Entry` | `mkdir`, `rmdir`, `rm`, `symlink` |
| `Attribute` | `touch`, `truncate`, `chmod` (`utime` does the same to the volume) |
| `PutFile`, `LinkFile`, `RenameFile` | `put`, `link`, `rename` |
| `Run`, `Quit`, `EndOfFile` | `run`, `quit`, and the end of a stream |
| `Crash` | any command whose path goes through a circle of links |
| `Start` | `main` again, on the same image |

Left out: `ls`, `ls-l`, `stat`, `show` and `get` change nothing and appear where a
property needs what they print (`LsLong`, and `DoGet` in `FsFile`); a
command without its argument; paths that end in `.` or `..` for commands other
than `cd`, which every call refuses; renames other than `PlainRename` and of what is
not there, which the Disagreements are about. A line that
starts with `!` pushes the output of a program as `run` pushes a file.

`fs_rename` does not test the two directories its paths lead to, so that `RenameFile`
has three cases. `RenameInPlace`: both are there. `RenameFromNowhere`: the source's is
not, and an error number indexes the inode table; the memory before the table, or a
file's inode, has not the mode of a directory, so that the call fails, or the process
ends. `RenameToNowhere`: the target's is not; the entry is not made and the name in the
source directory is taken away, or the process ends. Left out is that the memory before
the table might happen to read as a directory's inode, of which nothing could be said.

A file has one block here, so that `put` comes with one piece; what a `put` of
several stores is `PutStored` of `FsFile`.

| Run | Instance | Shows |
|---|---|---|
| `shell` | directories `/a` and `/a/b`; files and links `a`; 3 inodes, 2 blocks; a command file that runs itself, then does `cd ./..`, and one that is not there; 3 streams | `ShellTypeOK`, `CdLikeLs`, `GoneCwdInert`, `FilesEnd` |

Bounds: `MaxCwd` = 2 names in the working directory, since `cd` into an empty link
makes it grow without end; the lines typed are the set `Typed`, which has each
command at least once, relative and absolute paths, and `..` at either end of a
path. Two blocks leave the root and one directory, file or link: a second `put`
or `mkdir` runs out of space. 17,609 states. `View` leaves out what unpointed blocks hold, and
the root's reference count, which every failed `mkdir` and its `rmdir` lower, and
which nothing reads: the root has no name to remove.

`GoneCwdInert` is about the commands that change the volume, `link` and `rename`
included, when the first name they are given is relative and the working directory is
gone. A `rename` from an absolute name to a relative one is not inert: it loses the
file (`RenameMoves` below).

Fairness: `FilesEnd` assumes only that a read of a command file returns and its
line is carried out; nothing is assumed of the terminal. A file that runs itself
ends because the stack is full, `run` says so, and the caller goes on with its
next line.

`CdLikeLs` excludes volumes on which `symlink` has left an empty link (see
`SymlinkStored` below): there `cd l/..` and `ls l/..` differ. While every link
leads to a name beside it, `..` as text and `..` as an entry agree, wherever the
working directory's text was valid; `RenameFile` moves no directory to another
parent. When no stream could be pushed because `CMDSTKMAX` are open, the file that
`run` had already opened stays open (`misc.c:926`); streams are not counted here.

## HTTP requests

`HttpRequests` composes `WorkPool` (`Submit` with `accept`, `Start` with the first
step of a request, `Finish` with its last) with the handlers. `conn[r].pc` says
what request `r` does next; a step is what it does between two system calls that
another request can notice.

| Labels | Code |
|---|---|
| `queued` | accepted, on the pool's queue |
| `stat`, `list`, `head`, `open`, `send` | `do_get_or_head`, `do_list_dir`, `copyFileStreamBytes` |
| `rmdir`, `unlink` | `do_delete` |
| `mkdirs`, `create`, `copy` | `do_put`, `do_post` |
| `error`, `answer` | `sendErrorResponse`, `sendResponseStatus` |
| `close`, `close again`, `return` | the end of `process_request` and its early returns |

`tree` is what each path is, `data` the cells of each file by inode, so that a
file that is unlinked while open keeps its contents; `owner` says who holds each
descriptor; a `PUT` keeps what stdio has not written out. `alone`, `due`, `want`
and `answers` are history: what a request is promised when it starts, and whether
anything got in its way. `fault` ends a behaviour where the process ends or the
code's effect is another owner's: a NULL stream that is used (`tmpfile`, `opendir`
and `fopen` are not checked), a second write to a client that has reset (SIGPIPE
is not ignored), and `close(sock_fd)` after `fclose` when the number has been
taken again. These happen in the run; the properties speak of the behaviours up
to there, because every request passes through the window of the second close.

Left out: the texts of headers, dates, media types and pages; parsing of a
configuration and of a request line beyond well-formed or not; persistent
connections, which the server has not. Nodes are paths below `content_base`
without `..`; the directories above each are fixed.

`copyFileStreamBytes` takes the number of bytes as an `int`; `Content-Length` and a
file's size are wider. `Copied` is that conversion, `IntCells` the first length an
`int` does not hold. `ServedAlone` promises a body, and `StoredAlone` a file, only for
lengths below it; a file above it is announced with its size and sent empty or cut
(`AnnouncedIsSent` below).

| Run | Instance | Shows |
|---|---|---|
| `http` | 3 connections, 2 threads, 5 descriptors, 9 mixes of requests on a root, a file, a directory and a path below each; one client may reset | `ServedAlone`, `StoredAlone`, `OneAnswer`, `ResourcesReturned`, `RequestsEnd` |

Two threads are two requests that interleave, and a third connection takes over
the descriptors of the first. Five descriptors run out: three sockets, a file and
an error page leave none for the next. The mixes pair every method with one that
changes the path it looks at: removed while it is opened, replaced by a
directory, rewritten while it is sent, its directory removed between `mkdirs` and
`fopen`. A body of two cells can be cut in the middle, and `IntCells` = 3 is above both.
427,637 states.

Fairness: weak for every request that a thread has, and for the pool handing out
the first of the queue: threads run, and clients send what they announce or
close. Nobody owes a connection or a reset. Deadlock is not checked: with every
connection served, nothing is left to do.

## Heaps

`Heap` is what an allocator promises its client. `BoundaryTags` and `FreeList` are
the two allocators, each with `memlib.c` below it, as functions from a heap to a
heap: the units of the area, `freep` and the break. A unit is one `Header`, of
which the fields are what is modelled; a request of `n` is one that is rounded up
to `n` units. The client fills what it is given, at once and completely, so that
whatever the allocator reads later in a place it did not write is something a
client may have left. `live` is the client's view, and
`ImplementsHeap` maps it to `Heap` by what the units hold.

In `BoundaryTags` the flag at the new end of a block that is split is not set: it
is whatever the unit held. `LiveTagged`, a part of `TagsExact`, is what makes this harmless to clients
(only two free neighbours may stay apart, see `Coalesced` below). In `FreeList`
the base is unit 0 and the area begins at unit 1; after `mm_deinit` the client
calls `mm_init` first, as `test_heap.c` does.

`mem_sbrk` takes an `int`, and `morecore` passes it a `size_t`: `AsInt` is that
conversion, `IntUnits` the number of units in 2 GiB. An increment that comes out
negative is refused, and one of 4 GiB or more is cut to its low 32 bits and can
succeed, with the full size written into the header (`GrowsAsAsked` below).
`RequestsAssumption` has every request, and a page, below 4 GiB: the promises of
`Heap` are for those.

| Run | Instance | Shows |
|---|---|---|
| `heap_tags` | 12 units, 2 GiB as 13, requests of 0 to 3, pages of 4, two values | `TagsExact`, `ListExact`, `ImplementsHeap` |
| `heap_list` | 8 units, 2 GiB as 9, requests of 0 to 3, pages of 4, two values | `SizesTile`, `ListSorted`, `Coalesced`, `ImplementsHeap` |

Twelve units are the base and four smallest blocks: a free block with a free
neighbour on either side, growth that joins the last block, an area that is full
to the last unit, and one that cannot grow. In eight units of `FreeList` there
are up to eight blocks. `View` leaves out the fields that no operation reads
before it writes them; each MC module says which and why.

## Disagreements

Found by TLC while the modules were written: places where the code does not do
what a document or a comment says. The last column says how to see each:
`tlc -config X.cfg M`, with M the MC module whose name X starts with, ends with a
counterexample. Where it says "in `X.cfg`", the property takes the place of the
INVARIANTs and PROPERTYs of that configuration.

| Property | Code | Document | How to see it |
|---|---|---|---|
| `WaitReturns` | `thpool.c:378` signals one waiter | `thpool.h:74` | `MCThreadPoolTwoWaiters.cfg` |
| `RenameKeepsFile` | `fs_op_rename.c:103` ignores that there was no room for the new entry | `README.md:84` | `MCFsCallsRenameLost.cfg` |
| `RenameMoves` | `fs_op_rename.c:103`: without a target directory the name in the source directory goes, and nothing comes | `README.md:84` ("if that was successful") | in `MCShell.cfg` |
| `ImageCurrent` | `fs_util_file.c:613`: the count a rename lowers is not marked dirty; after a restart it is one too high, and the inode is never freed | `README.md:74` | in `MCFsCallsRename.cfg` |
| `TruncateKeeps` | `fs_util_file.c:380` frees every block whatever the length; when the length is the size, one block, whose pointer may stay | `README.md:64` | in `MCFsFileFull.cfg`, with `SPECIFICATION Spec` |
| `DestroyWaitsForThreads` | `thpool.c:231`: the last thread has still to unlock `thcount_lock` in the freed pool | `thpool.h:143` | `MCThreadPoolDestroy.cfg` |
| `ResumeReleases` | `thpool.c:305`: a signal delivered after the resume holds its thread | `thpool.h:104` | `MCPoolStaticsResume.cfg` |
| `PausedPoolTakesWork` | `thpool.c:472`: a thread is paused with `rwmutex` held | `thpool.h:107` | `MCPoolStaticsPaused.cfg` |
| `QueuedJobsFinish` | `thpool.c:217`: destroying a pool stops the threads of the others | `thpool.h:147-151` | `MCPoolStaticsSibling.cfg` |
| `BlocksExact` | `fs_util_file.c:617`: renaming over a file frees its inode, not its blocks | `README.md:74` | `MCFsCallsRenameAny.cfg` |
| `LinkCounts` | `fs_util_file.c:613`: the count lowered by a rename is not marked dirty | `README.md:74` | in `MCFsCallsRenameAny.cfg` |
| `LinkCounts` | `fs_op_rename.c:52`: renaming a link lowers the count of the file it leads to | `README.md:74` | `MCFsCallsRenameLink.cfg` |
| `DotEntries` | `fs_op_rename.c:103`: a moved directory keeps its `..`, and can be moved below itself | `README.md:53` | `MCFsCallsRenameDir.cfg` |
| `DotEntries` | `fs_op_mkdir.c:47`: without a block the directory stays without `.` and `..` | `README.md:55` | `MCFsCallsFull.cfg` |
| `EmptyHasNoNames` | `fs_util_dir.c:58`: a directory that `mkdir` left without `.` and `..` has the size of an empty one when it has two names, and `rmdir` removes it with them | `README.md:54` | `MCFsCallsHalfMade.cfg` |
| `SymlinkStored` | `fs_op_symlink.c:41` ignores the result of `do_write` | `fs_op_symlink.c:28` | in `MCFsCallsFull.cfg` |
| `ResolutionEnds` | `fs_util_path.c:170`: no limit to indirections | `README.md:90` | `MCFsCallsLoop.cfg` |
| `NoHoles` | `fs_util_file.c:304`: a write inside the file grows its size | `fs_util_file.c:257-259` | in `MCFsFileFull.cfg`, with `SPECIFICATION SpecOverwrite` |
| `TailZero` | `fs_util_file.c:95`: a block reached through `indir_1` is not zeroed | `fs_util_file.c:158-159` | in `MCFsFileFull.cfg`, with `NBlocks = 16` |
| `ReadableToEnd` | `fs_util_file.c:221`: a read that ends with a block needs the next one too | `fs_util_file.c:191-193` | in `MCFsFileFull.cfg` |
| `IndexInRange` | `fs_util_file.c:103`: `>` where `>=` is meant | `fs_util_file.c:45-46` | in `MCFsFile.cfg`, with `NBlocks = 30` and `MaxSize <- MCMaxSizeAll` |
| `HandleKeepsInode` | `fs_op_open.c:48` counts nothing | `README.md:75` | `MCFsQueriesUnlink.cfg` |
| `HandleKeepsInode` | `fs_op_rename.c:103`: libfuse hides an open file by a rename, which without room loses it | `README.md:75` | `MCFsQueriesHide.cfg` |
| `ListedLikeGetattr` | `fs_op_readdir.c` gives the link's own attributes, `fs_getattr` those of what it leads to | `fs_op_readdir.c:25` | in `MCFsQueries.cfg` |
| `OverwriteAnswers200` | `http_methods.c:275`: `stat(filePath, &stats != 0)` always fails, so that PUT always answers 201 | server `README.md:19` | in `MCHttpRequests.cfg` |
| `AnnouncedFileOpens` | `http_methods.c:186`: a file announced with 200 can be gone when it is opened | `http_methods.c:139` | in `MCHttpRequests.cfg` |
| `AnnouncedIsSent` | `file_util.c:51`: `nbytes` is an `int`, what is announced a `size_t` | `file_util.c:49` | in `MCHttpRequests.cfg`, with `IntCells = 2` |
| `Coalesced` | `mm_kr2_heap.c:161`: the flag at the new end of a split block is not set | `mm_kr2_heap.c:220` | in `MCBoundaryTags.cfg` |
| `GetFreeExact` | `mm_kr2_heap.c`: `mm_getfree` stops where the list turns back, and counts `freep` even when it is the base | `mm_kr2_heap.c:357` | in `MCBoundaryTags.cfg` |
| `ListExact` | `mm_kr2_heap.c:214`: a second free of a block passes the size check | `assignment-3-master/README.md:16` | in `MCBoundaryTags.cfg`, with `SPECIFICATION SpecFreeAgain` |
| `TagInside` | `mm_kr2_heap.c:311`: in a full area the tag after the last unit is past its end | `mm_kr2_heap.c:290` (`nu` units are asked for) | in `MCBoundaryTags.cfg` |
| `GetFreeExact` | `mm_kr_heap.c`: `mm_getfree` stops where the list turns back to base | `mm_kr_heap.c:336` | in `MCFreeList.cfg` |
| `GrowsAsAsked` | `memlib.c:70`: `incr` is an `int`, and `morecore` asks with a `size_t` (`mm_kr2_heap.c:303`, `mm_kr_heap.c:281`) | `memlib.c:64` | in `MCBoundaryTags.cfg` and `MCFreeList.cfg` |
| `SbrkReturnsArea` | `memlib.c:71`: the break is read before the area is initialised | `memlib.c:73` | in `MCFreeList.cfg` |

`README.md` without a directory is `CS5600Assignment4/README.md`.

## What is proved

Eight modules hold proofs. Every theorem is for all values of the constants that
satisfy the assumptions named in the module it extends, which are what the code
or the platform gives.

| Module | Extends | Theorems about |
|---|---|---|
| `ThreadPoolProofs` | `ThreadPool` | the six safety properties of the pool, among them that it implements `WorkPool` |
| `PoolStaticsProofs` | `PoolStatics` | what survives pauses and other pools |
| `HttpProofs` | `HttpRequests` | the four safety properties of requests |
| `FsProofs` | `FsQueries`, with `FsCalls` and `FsHandles` | the six invariants of `fs_names`, and `FreeIsUnreached` and `ImplementsNamespace` |
| `ShellProofs` | `Shell` | the working directory's text, the stack, and `GoneCwdInert` |
| `FsFileProofs` | `FsFile` | `StoredExact`; `ReadableToEnd` and that `FsFile` implements `FileContents`, while a block is free |
| `FreeListProofs` | `FreeList` | the three invariants of the K&R heap, and that it implements `Heap` |
| `BoundaryTagsProofs` | `BoundaryTags` | the two invariants of the boundary-tag heap, and that it implements `Heap` |

### The pool

`ThreadPoolProofs` proves, for every finite non-empty set of threads, every
non-empty set of clients and every set of jobs, `TypesOK`, `WaitCovers`,
`NoWakeupLost`, `Counts`, `FreedLast` and `Refinement` (that the pool implements
`WorkPool`). All follow from one inductive invariant, `IInv`. The properties alone
are not inductive, and each part of `IInv` is there for a reason:

- `TypeInv`: types; `len` is the length of the queue, which the code counts
  separately; a thread holds a job exactly between its pull and its run's end.
- `LockInv`, `SleepInv`: a lock is held only inside its split section; only who
  waits on a condition sleeps on it.
- `CountInv`: the counters are the numbers of threads at certain labels. A step
  moves one thread, so that each number changes by at most one (`ThreadCounts`);
  this is where the library's facts on cardinality are used.
- `ReadyInv`: no call is made before every thread has started, so that
  `alive = 0` cannot mean "not yet".
- `DestroyInv`, `FreedInv`: `thpool_destroy` runs alone, and past its polling no
  thread is inside its loop.
- `OnceInv`: a job is in one place: the queue, one thread's hand, or done. The
  refinement needs it to show that the job a pull starts is neither running nor
  finished.
- `OwedInv`: what a waiting client is owed is in the queue, in a thread's hand
  or finished; between its two reads, with `len` seen 0 and `thcount_lock` held,
  what it is owed is in the hand of a thread that `num_threads_working` counts.
  A job moves from queue to hand only in a thread that has counted itself
  already, which is why reading `len` without `rwmutex` is harmless.
- `NoLostWakeup` is inductive beside `DestroyInv` and `StoppedInv`: the thread
  that takes the post is on its way to the queue, and whoever leaves jobs behind
  posts again before it lets `rwmutex` go.

`CoreInv` is what of this does not speak of `threads_keepalive`; `StoppedInv`, that
only `thpool_destroy` clears it, does. That split is the proof of `PoolStatics`: a
step of the pool between pauses is a step of `ThreadPool`, the signal handler
changes nothing of the pool, and another pool's `thpool_init` and `thpool_destroy`
write `threads_keepalive` only. So `CoreInv` survives them, and with it
`StaticsWaitCovers` and `StaticsRefinement`. `NoLostWakeup` does not follow:
`StoppedInv` is what another pool breaks (`QueuedJobsFinish` under Disagreements).

### Requests

`HttpProofs` proves, for every set of connections, every tree of paths, every mix
of requests and any number of threads and descriptors, `RequestsReturnResources`,
`EachAnsweredOnce`, `LoneWritesStay` and `LoneAnswersRight`, which state
`ResourcesReturned`, `OneAnswer`, `StoredAlone` and `ServedAlone`. Of the
assumptions, `PathsAssumption` says that paths form a tree and that what is served
at start is in the directory `content_base`; the rest are about names and the length
`IntCells`, below which a body is promised.

- `LocalInv` is about one request: which labels its method goes through
  (`MethodOK`), which descriptors it remembers (`SockOK`), what it has told its
  client (`AnswerOK`) and copied (`BodyOK`) by each label. Each step changes one
  `conn[r]`, so that the others keep theirs.
- `PoolInv` ties labels to the pool, `OwnerInv` descriptors to the requests that
  remember them. These and the types are enough for the first two theorems.
- `TreeInv`: a path exists only below directories, and an inode is at one path, so
  that who writes to an inode is in conflict with everybody at its path.
- `AloneInv`: two requests in conflict do not run beside each other while one of
  them counts as alone. `alone` is lost at the start of either, so that this is
  about the order of starts and not of steps.
- `LoneInv`: what a request that is alone finds (`Before`), reads (`Reading`), has
  left (`Stored`, `Removed`) and tells (`Told`, `Shown`). That another request's
  step leaves it true is where `TreeInv` and `AloneInv` come in: it changes no
  path above, at or below this one's, and no inode this one has open.

### fsx600

`FsProofs` proves for every size of the volume, every set of names and link texts,
and every block size, that `AllocationExact`, `LinkCounts`, `DirectoriesExact`,
`ImageCurrent`, `ListedOnce` and `BytesKept` hold of `CarefulSpec`: every call but
`rename`, a file that is held open and keeps a name, and restarts. That it keeps one is
an assumption on the clients, which no code ensures.

The hypothesis. When `mkdir` finds a block for its new name and none for the new
directory's `.` and `..`, it leaves a directory without these, and what is stated
of sizes and counts fails from there on (`DotEntries` and `EmptyHasNoNames` under
Disagreements). The theorems assume `[]WholeDirs`: every directory has its two.
`RoomIsEnough` says when it holds: always, if `mkdir` is called only with two free
blocks (`MkdirFits`). Every other call may run out of blocks or inodes at any
point. What happens after a `mkdir` that failed half way is only model-checked
(`fs_names_full`).

The invariant `IInv` looks at a volume as two tables, of pointers and of entries:

- `Pointers`: a block has at most one pointer, the block map marks those that have
  one, only allocated inodes have any, and an inode's come without gaps. The last
  is why a directory is searched up to its first missing block.
- `Contents`: what is not a directory has at most one block, and has it unless it is
  empty; a link's holds one of the link texts.
- `Linked`: names are unique in a directory, `.` and `..` lead where they should,
  and a directory has one name only. `Counted`: counts and sizes are the numbers
  of entries. A call changes the table by one name, in one of the four ways
  `Created`, `Named`, `Unlinked` and `Removed`.
- `Marked`, inside a call: what is not marked dirty is on the image. `Behind`,
  between calls: the image lacks at most blocks that extend a directory and hold
  no entry, which a call that then found no free inode has left unflushed.
  `ImageCurrent` alone is not inductive: a restart would have to be shown to lose
  nothing but such blocks.
- `Handle`: the open inode is an allocated file.

`BytesAreKept` is about steps. `SameBytes` says of the volumes before and after one
which files and links read the same; every lemma about a call gives it for all but the
inode the call is about (`Others`), because no block has two pointers. `BytesStep` adds
what the write and the truncation do to that one.

For `FreeIsUnreached` and `ImplementsNamespace` two parts are added. `Owned`: what is
allocated has an entry.
`Reached`: every set of inodes that holds the root, and with each directory the
directories it names, holds all of them; stated of all such sets, because what
follows from a closure by induction on its steps is not for the provers here. With
them `NothingIsLost` (`FreeIsUnreached`), and
`NamespaceRefinement`: what each call does to the entries (`Effect`, which every
step of `CarefulSpec` is shown to have) is a step of `Namespace`, or none when the
call fails, and a restart is none. Both are under the hypothesis: of a `mkdir` that
fails half way, and of what may follow it, they say nothing.

What the proof attempts showed: a count that wraps is no count, so that
`CountsAssumption` had to be named; and `rmdir` removes more than an empty
directory when one without `.` and `..` has two names, for which a block needs four
entries, as `fs_names_full` has them; that is `EmptyHasNoNames`.

### The blocks of files

`FsFileProofs` proves, for every number of files, pointers and blocks, `Invariance`,
`BlocksStored`, `ReadsWhileRoom` and `ContentsKept`, all of `SpecAppend`: the calls
that the commands make, which append to a file or empty it.

`BlocksExact` speaks of paths, and a step changes cells: a cell is a pointer or a byte
only by the path that leads to its block. `IInv` therefore speaks of places. A place
of a file is a pointer of its inode, or a cell of one of its pointer blocks (`Places`):

- `Owned`: every place holds a pointer, no two places of any files the same one, and
  the blocks marked are those some place points to. With it, a cell that one write
  changes is a byte of that file and on no other path (`DataApart`).
- `Filled`: what was written to a file is in its blocks. This is what makes the new
  cells those behind the old, and `NoHoles` follows from it.
- `Bare`: an empty file has no blocks. Truncating a file to the length it has takes
  another way through `do_truncate` (`FreeLast`), which would leave pointers to blocks
  it returned; of an empty file there is nothing to return.
- `Fits`: the bound on the size.

`IInv` was checked with TLC on both instances before it was proved, with block
numbers up to 40 in `Filled`.

- `get_file_blkno` goes down by one place at a time (`Follow`, `Descend`), and
  `FollowGives` says what such a step keeps; `BlkForGives` puts them together for the
  three kinds of pointers. `LookupOfOne` says that different numbers of blocks come to
  different places, which is where the arithmetic of the levels is needed.
- `do_write` is a loop. `During` holds after each visit and says how much of the size
  has been counted, where the next cell goes, and that the loop stops early only
  without a free block or past the last pointer (`VisitGives`). The number of visits
  is a division, and the induction over them is by a least counterexample.
- `do_truncate` frees the union of all that the pointers lead to, which is what the
  places of the file point to (`FreeAllIs`); no other file points there.
- Different paths are different places (`PlaceOf`), so that the number of paths that
  end in a block is the number of blocks marked (`Exact`).

`BlocksStored` holds on a full volume too, where writes stop half way.
`ReadsWhileRoom` and `ContentsKept` have two hypotheses:

- `[](used # Blocks)`: the volume is never full. A read that ends with a block visits
  the next one too (`do_read`), and on a full volume `do_write` could not get it; the
  property is false then, see Disagreements. In `fs_file` it holds in every state: the
  two files need 13 of the 14 blocks at most.
- `SizesFit`: no file is as long as its pointers reach. At that length the block after
  the last has no pointer, and the same read fails.

With them `EndStored` joins the invariant (`RInv`): the block a read to the end visits last
exists. Then what `do_get` puts together is as many cells of the file as its size
(`ReadsAll`), and `FileContents` is implemented: a write extends the sequence by its
cells (`WriteStores`), a truncation empties it (`TruncateStores`).

### The shell

`ShellProofs` proves two theorems, for any commands and command files.

- `TextAndStack`: the working directory's text never has `.` or `..`
  (`CwdNormal`), and the stack of streams never outgrows its array, with the
  terminal at its bottom only (`StackFits`), though command files run each other.
- `GoneDirectoryInert`: `GoneCwdInert`. A walk that has come to what is no directory
  finds nothing further on (`WalkOn`), so that neither the directory of a relative
  path nor the path itself leads anywhere (`Lost`), and every call whose first name it
  is returns before it changes anything: those of one name, `link`, and `rename`, of
  which only `RenameFromNowhere` is left.

The steps are shown for any volume: the second theorem does not rest on the invariant
of `FsProofs`, which a `mkdir` on a full volume can break.
Both loops over names, `normalize_dot_paths` and `get_inode_of_file_path`, are
recursive functions; `Rounds` says of either what it does one name at a time
(`NormalizedIs`, `WalkIs`), and what each round keeps holds to the end (`UpTo`).

### The K&R heap

`FreeListProofs` proves, for every size of the area, every page size and every
sequence of calls, `BlocksTileTheArea`, `ListIsSorted`, `NeighboursAreJoined` and
`FreeListRefinement`: `SizesTile`, `ListSorted` and `Coalesced` are invariants, and
the allocator implements `Heap`. `RequestsAssumption` has requests below 4 GiB (see
[Heaps](#heaps)). Of `HeapAssumption`, that `Vals` are in
`0 .. NUnits` keeps the client's words within the type of a header's field.

The invariants are stated by what following the links or the sizes gives, and that
cannot be the induction hypothesis: one changed header changes everything that is
found behind it. `IInv` names the set instead. There is a set `L` of blocks such
that, with `D` the blocks of the client (`Shape`):

- `Tiled`: `L` and `D` together fill the units below the break, each block ending
  where the next begins;
- `Sorted`: the link of a block of `L`, or of the base, leads to the next of `L`
  above it, or back to the base; `freep` is one of these;
- `Joined`: no block of `L` ends where another begins;

and every block of `D` holds what the client wrote (`Holds`). After `mm_deinit`
there is no area, and `Closed` holds.

- That such an `L` is what the code finds is shown once: the list reaches all of
  `L` within as many steps as there are units (`ListCovered`), and the sizes lead to
  every block (`BlocksAre`). A recursive function of the model is some function
  that satisfies its equation, and one exists because a step can be taken any
  number of times (`Iterates`). Least counterexamples take the place of induction.
- `mm_free` is a case of its place on the list (`Before`) and of the four ways to
  join. `Freeing` is the heap with the upper join settled, `Settled` what the lower
  one leaves.
- `mm_malloc` takes a whole block, cuts the tail off a larger one, or frees what
  `morecore` got and looks again; `Given` is what it promises in each case.
- `mm_realloc` is these two with `Copy` between them, which writes only into the
  new block (`MoveGood`).

### The boundary-tag heap

`BoundaryTagsProofs` proves, again for every area, page size and sequence of calls,
`TagsAreExact`, `ListIsExact` and `BoundaryTagsRefinement`: `TagsExact` and
`ListExact` are invariants, and this allocator implements `Heap` too.

`mm_free` looks at its neighbours only through a flag and a size in the unit before
the block and the unit after it, and takes a block off the list through links found
in the block itself. Nothing it reads is searched for, so one wrong word anywhere in
the area is found much later, and all words have to be right at once. There are again
sets `L`, of the blocks on the list, and `D`, of those of the client (`Shape`):

- `Tiled`: together they fill the units from the first block to the break, of two
  units at least each, with the size at both ends. `Before` is what this is for: the
  unit before a block is the last of another, or the one before the first.
- `Ring`: next and prev stay in `L` and the base, undo each other, and no smaller
  set is closed under next. The last replaces an order of the list, which this
  allocator has none of: putting a block in (`RingInsert`) or taking one out
  (`RingDelete`) keeps it, and it gives that the list is one circle.
- `Flagged`: a block of `D` has its flag set at both ends, a block of `L` has it
  cleared at its first unit. Of the last unit of a block of `L` nothing is said:
  `mm_malloc` does not set the flag at the new end of a block it splits, so what is
  there may be anything the client left. If it says used, the next block is not
  joined to this one, and that is all: `LinkedJoins` holds whatever it says.

and every block of `D` holds what the client wrote.

- Inside `mm_free` the flags of the block are not right yet. `Freeing`, `Joining` and
  `Freed` say which are, before it looks, after it has joined the upper neighbour or
  put the block on the list, and at the end.
- `morecore` frees a block that is not the client's, beyond the old break, after it
  has put a used tag past it (`ExtendedFreeing`).
- `mm_malloc` needs `freep` on the list after a block is taken whole
  (`TakeWholeGives`), and cuts a larger one in two (`SplitTailGives`).
- That the list reaches all of `L` within `Most` steps needs counting: the blocks
  have two units at least, so halving their addresses tells them apart (`Halved`);
  there are more steps than halves, so next comes back to where it has been, and what
  it reached is closed (`OnListIs`).

### Model-checked only

- What needs fairness, which is beyond the prover: `QueuedJobsFinish`,
  `CallsReturn`, `RequestsEnd`, `FilesEnd`.
- Renames (`fs_rename`), and with them `NamesCounted`: the invariant was not tried for
  them.
- Of the shell: `CdLikeLs`, and the part of `ShellTypeOK` that is about the volume.
  They need the invariant of `FsProofs` for the renames the shell's commands make.
- `PutStored`, over the pieces of a put on a volume that fills up.
- What follows a `mkdir` that failed half way: `FreeIsUnreached` and
  `ImplementsNamespace` of `SparingSpec`.
- Writes inside a file and truncations to another length than 0, which no command
  makes: the properties that fail for them are under Disagreements.

## What is not modelled

- Allocation and thread-creation failures in the pool; `thpool_init` would spin,
  and `http_server.c` would lose the descriptor of a job it cannot add.
- In fsx600: the disk writes inside a call and a crash between them; calls on
  several threads (`fuse_main` without `-s`), where nothing locks and no property
  of the volume could hold; times, owners and permission bits, but for their comparison
  in `fs_rename`; absolute links; renaming a link that leads nowhere, or onto one, which
  indexes the inode table with an error number (undefined); `image.c`, `fs_ops.c` and option parsing.
- In the shell: what its commands print, and commands without arguments.
- In the HTTP server: `process_config`, `get_listener_socket`, media types, dates
  and string helpers, which run before the first request or only format.
- In the heaps: `visualize`, the test driver and its traces, clients that write
  outside their blocks or free what they do not hold.
- The ALU: mostly stubs, and the written functions are pure and tested.
- RegisterSystem and Ecommerce: sequential programs without concurrency, failures
  or persistent state. Nothing beside their own conditions says what they should
  do, and a property made from those would say again what they test.
- Tic-tac-toe (its programs are not in the repository), the TinDog site and other
  static data.
