# A verification development for oscd

oscd is an operating-systems course project in C: a file system in an image
file (`oscdfs`), a shell (`oscdsh`), a character device driver (`oscddrv`), two
system calls that return a snapshot of the process tree (`oscdk`) and a process
monitor that prints it (`oscdmon`).  This directory holds TLA+ modules for the
parts of it where the order of steps matters, TLC configurations that check
them on small instances, and proofs of the most important invariants.

## 1. Inventory

| Part | State | Operations | What is hard |
|---|---|---|---|
| bitmaps and counters (`oscdfs/src/bitmap.c`, `super.c`) | two bitmaps, two copies of each free count | alloc and free of blocks and inodes | three block writes a call, nothing undoes the first ones |
| inodes and block mapping (`inode.c`) | inode table, pointer blocks | map a logical block (and allocate), free all blocks | index arithmetic over three levels; which write makes a block reachable |
| files, directories, FUSE (`file.c`, `dir.c`, `fuse.c`) | `fd_table`, directory entries | create, open, close, read, write, delete, mkdir, rmdir | calls of many block writes cut off at any point, disk full half way, stale copies of an inode |
| disk image, mkfs (`disk.c`, `mkfs.c`) | image file and its lock | open, lock, block I/O, make a file system | mkfs truncates before it has the lock |
| users, permissions, built-ins (`user.c`, `permission.c`, `builtin.c`, `exec.c`, `state.c`, `main.c`) | user and group tables, current user and directory | login, chmod, chown, commands | sequential; directory removed under a user |
| commands and jobs (`oscdsh/src/exec.c`, `jobs.c`) | job table, children of the shell | run a line, wait, SIGCHLD handler, `jobs` | handler against main program, children that end at any time |
| main loop, history, aliases (`main.c`, `history.c`, `alias.c`) | history list and file, alias table, `$?` | read a line, expand, load, save | recursion limit, two shells with one history file |
| driver (`oscddrv/src/main.c`) | buffer, size, counters, mode, one offset for each open file, the stages of loading | load, unload, open, release, read, write, ioctl | resizing under the offsets of others, loads that fail half way, unloading against opens |
| snapshot (`oscdk/patches`) | task list of the kernel, captured nodes | walk, link into a tree, print, copy out | fork, exit and reuse of pids during the walk |
| monitor (`oscdmon/src/main.c`, `oscdsh/src/monitor.c`) | none that outlives a refresh | read, print | nothing |

They interact little: `oscdfs` and `oscdsh` are programs of their own, the
monitor calls the snapshot, and inside `oscdfs` the interactive program and the
FUSE daemon share the image through the lock of `disk_open`.

What makes each part correct:

* bitmaps: no unit is given to two callers; a set bit has a reason; both counts
  follow the bitmap, and a crash costs at most one unit;
* mapping: two logical blocks never share a block, a pointer block is cleared
  before it is read, whatever a path leads to is marked used;
* calls: entries form a tree, open files stay alive, a write lands where it
  should and nowhere else, a failed call gives everything back;
* shell: the status reported is the status of the command, a job listed as
  running runs, one listed as done is over, no zombies, the prompt returns;
* image: while a program has it locked nobody else empties or removes it;
* driver: no access outside the buffer, no old bytes after growing, statistics
  of one moment, nothing left behind by a failed load, nothing taken away from
  an open file;
* snapshot: nobody who stayed is lost, everybody is below the right parent, and
  the tree has no cycle.

## 2. Modules

| Module | Models |
|---|---|
| `BitmapAlloc` | one bitmap and its two counts, write by write |
| `OscdfsDisk` | the disk of oscdfs and the steps that map and free blocks |
| `Oscdfs` | the calls, over `OscdfsDisk` (EXTENDS), with processes that start, exit and are killed |
| `OscdfsOwners` | no code: which inode and pointer each block belongs to, for the proofs about `Oscdfs` |
| `FileStore` | what a user of oscdfs relies on: names, files with data of their own, descriptors |
| `OscdfsStore` | `Oscdfs` and the refinement mapping that makes it a `FileStore` |
| `DiskLock` | mkfs, the interactive program and the FUSE daemon over one image name |
| `ShellJobs` | the main program of the shell, its children and the SIGCHLD handler |
| `CharDevice` | what a program that uses `/dev/oscddrv` relies on |
| `Driver` | the driver, call by call and stage by stage, and the mapping that makes it a `CharDevice` |
| `ProcSnapshot` | the system call `proc_snapshot` over a changing list of processes |
| `BitmapAllocProofs`, `OscdfsProofs`, `OscdfsBlockProofs`, `OscdfsLeakProofs`, `FileStoreProofs`, `ShellJobsProofs`, `DriverProofs`, `ProcSnapshotProofs` | theorems |
| `MCBitmapAlloc`, `MCOscdfs`, `MCDiskLock`, `MCShellJobs`, `MCDriver`, `MCProcSnapshot` | constants for TLC |

In every module an operator that stands right before another and is named for
an error (`MarkedNever` before `Marked`) is the same code with that error in it.
No specification uses it; replacing the second by the first must break the
property `PROJECT.json` lists with it, and shows that the property can be
broken.

### BitmapAlloc

`alloc_block`, `alloc_inode` and their counterparts are one program over two
bitmaps.  `used`, `sbFree` and `gdFree` are the bitmap block and the counts of
superblock and group descriptor; `pc` and `unit` are the local state of the call
in progress; `held` and `lost` say whom a set bit belongs to.  `AllocBit` and
`FreeBit` are the first write, `SuperUpdate` and `GroupUpdate` the other two,
with their range checks (`SuperRefuses`, `GroupRefuses`).  `Fault` stands both
for a failed `write_block` and for the death of the process: what stays on disk
is the same.

### OscdfsDisk and Oscdfs

The disk is `bbm` and `ibm` (bitmaps), `inode` (the table), `array` and `kind`
(what each block holds) and `entry` (directories).  `op` is the call in
progress: which call, where it stands, its local copy of an inode, the pointer
it looks at.  One step makes at most one block write visible, so that `Kill`
between two steps is a death between two writes.  `inode_get_block` is
`FollowPointer`, `AllocBlock`, `ZeroBlock`, `LinkBlock`, for any of the levels;
`inode_free_blocks` is `ExpandPointerBlock`, `FreeBlock`, `ClearInode`.

A call starts with an action of its own (`Create`, `Mkdir`, `Delete`, `Rmdir`,
`Write`, `FuseWrite`; `Open`, `Close` and `Read` are one step) and goes on with
`Continue`.  The order of writes in the code is the order of the steps: data
before pointer blocks before the inode in `oscdfs_write`; inode, own block, then
entry in `fuse_mkdir`; entry, blocks, inode, bit in `oscdfs_delete`.

Choices a reader may ask about:

* Blocks are written whole, sizes and offsets count blocks.  Partial blocks,
  times, owners and permission bits are left out.
* A directory never outgrows its direct blocks: there are 128 inodes, and 12
  direct blocks hold 12 * 128 entries (`DiskAssumption`).  So a directory block
  is allocated without pointer blocks.
* `FuseWrite` works on a linked file.  libfuse turns the removal of a node that
  is open into a rename, which oscdfs does not implement, so the removal fails
  and an open node stays linked.
* `free_block` leaves the bytes of a block on disk.  The model clears `array`
  and calls the block "old", because nobody may rely on those bytes: a property
  that needs a block written asks for "data" or "ptrs".
* `inode_free_blocks` is a list of pointers still to look at (`op.todo`), in the
  order of the code: direct pointers, then each root with what is below it
  before the root itself (`FreeList`, `Expanded`).  What a pointer block holds is
  read when its turn comes.
* Stale pointers in a reused block are therefore seen by `PointersInitialised`,
  which asks that a pointer block was written as one, and not by
  `NoSharedBlock`, for which a block that is not cleared has no pointers.
* `Init` is the root alone.  mkfs goes on to make `/home` and the directories of
  the users (`mkfs.c:128-156`) with the steps of `Mkdir`; removed through FUSE
  they leave this state.
* The open mode of a descriptor is left out: `Read` and `Write` accept every open
  file, so the model does more than the code (`file.c:141`, `188`), and what
  holds of it holds of the code.
* `MaxSize`, `MaxWrite` and `MaxKills` bound the runs; the proofs do not depend
  on their values.

### FileStore and OscdfsStore

`FileStore` is the contract: a tree of names over files and directories, files
that hold tokens of data, descriptors with an offset.  A call takes effect in
one step or, if it fails or its process dies, in none; only a write may keep a
beginning of what it was asked to write, and a write into holes may fill them
one by one.  It has no results: that a FUSE write may report success and keep
nothing is no step of it, and is what the run `FuseCounts` shows.  `OscdfsStore` maps the disk to it: the entries are the names, a
linked inode that is no directory is a file, and the token of a place is the
block that holds its data.  `IsAFileStore` says that every step of `Oscdfs`, a
kill included, is a step of the contract or changes nothing a user can see:
blocks and inodes that nothing leads to are invisible, so are the steps of a
delete after the name is gone.

### DiskLock

Files are told apart from the name: `path` is the file the name leads to,
`holds` which pieces of a file system are in it, `lock` who has it locked.
`StartMkfs` is the `open` with `O_CREAT | O_TRUNC`, `SetLength` the `ftruncate`,
`DiskOpen` and `Flock` the two halves of `disk_open`, `Format` the writes, and
`Fail` and `Unlink` the error paths, which close first and remove the name
afterwards; `Flock` may also fail with the lock already taken, when the mutex
cannot be made.  Every step may fail or be the last of its process.

### Driver and CharDevice

A call is `Call` (it has reached `mutex_lock`), `Lock`, the decision how much to
copy, the copy, the accounting; each is a step of its own, so that the model does
not take from the start what the mutex is there to give.  `mem` reaches past the
end of the buffer and keeps its bytes there, so that growing without clearing
would show them.  A copy from the caller may fault after any number of bytes; the
kernel clears the rest.  `Acquire`, `AcquireFails` and `GiveBack` are the five
stages of `oscddrv_init` and its labels, which run in the state "failing": for
the kernel the module is still coming then, and `Get` may succeed.  `Rmmod` is refused while the use count
(`Users`) is not zero, `Get` is the kernel taking the module for an open.

Choices:

* What a call asks for is chosen when it has the mutex, where the code first
  looks at it.  `Requests` says which calls each thread makes.
* A call that is over returns before anything else happens (`Return` comes first
  in `Next`): between its last step and its return nothing of it can be seen.
* Files are opened through the node `device_create` makes, and an open that has
  found the node of one load does not last until the next load.  Without this
  the driver can be opened between `cdev_add` and the end of a load that then
  fails; it is listed as a hazard (`main.c:216`).
* The contract does not say how much of a request is copied: `CharDevice` allows a
  short transfer, as read and write do, and ties offset, counters and bytes to
  what was copied.
* `reads` and `writes` of one open file are left out: nothing reads them.

`CharDevice` is the sequential device: each call one step.  The mapping counts a
read or write as done once the copy is done: a file whose call has copied but not
accounted has the new offset already.

### ProcSnapshot

The kernel is modelled from how `proc_snapshot` uses it: a list in the order of
creation (`Fork` appends the next process, `Release` removes one by its place),
`Exit` and `Reparent`, with pids that are free again after release.  An orphan
goes to init or to any live ancestor, because any may be a subreaper
(`Ancestors`).  A released process keeps its pointer to the next one while a
reader may stand on it (`after`): that is what RCU promises, and no more.
`Refuse` is the return before the walk; `Begin`, `Advance`, `Capture`, `NoMemory` are the walk; `Link` looks for parents
by pid, among nodes that may have the same one; `PrintLine` prints level by
level.  What the kernel does after the walk cannot be seen by the call, so it
stands still then.  `kthreadd` and what is below it has no printed ancestor and
is not printed; `PrintedOnce` allows for it.

### ShellJobs

`proc`, `code` and `pending` are what the kernel keeps: the children, the
statuses not collected yet, the signal not delivered yet.  `jobs`, `count` and
`nextId` are the static variables of `jobs.c`; `sh` is the main program, `exit`
is `last_exit_code`.  `Handler` may come between any two steps of the main
program, with two exceptions the kernel makes: a wait that can return does so
before the signal is delivered, and an interrupted wait is entered again
(`signal()` sets SA_RESTART).  The status of a child that `waitpid` did not
return is an uninitialised variable, so `NoChild` picks any.  `add_job` is
`AddJob`, `CompactRow` for each row, `CompactEnd`, `Publish`; the program is
built without optimisation, so the row counts from `job_count++` on.  A row that
moves is copied in two halves in either order, `CopyName` (id and pid, its first
word) and `CopyState` (running and notified, its last), with the handler free to
come before, between and after them.

Pids are not reused, fork and pipe may fail at any time, and what flows through
the pipes of a pipeline is left out; so what a row of a job that is over does to
a later process with the same pid is not covered.

## 3. Runs

| Run | Instance | Shows |
|---|---|---|
| `BitmapBlocks` | 6 units, 2 reserved, 3 faults | counts and bitmap agree up to one lost unit for each fault |
| `BitmapInodes` | 6 units, 1 reserved, count starts at 6 | violation: the free inode count is one too high (`mkfs.c:101`) |
| `FilesBoth` | both front ends, directories, 4 blocks, 3 inodes, 2 names, 2 descriptors, 1 kill | the block writes implement a `FileStore`; one tree of entries, directories with all their blocks, no shared block, failed calls give back what they took, writes land |
| `FilesDeep` | three levels of indirection, 2 pointers a block, 16 blocks, a file of 8, 1 kill | every boundary between the levels, in growing, freeing and after a kill; writes land behind pointer blocks of every depth; calls end |
| `FuseCounts` | FUSE only, 5 blocks | violation: a write into a hole loses its block (`file.c:448`) |
| `ShellJobs` | 3 processes, 2 rows, pipelines of up to 3, lines of up to 2 segments | table and children consistent under every interleaving; prompt returns |
| `ShellStatus`, `ShellStale`, `ShellBlocks` | 3 processes, one segment | violations: status lost, job running for ever, pipeline waits for background jobs |
| `Driver` | 2 threads that share 1 open file, buffers of 1 and 2 bytes, totals modulo 2 | overlapping calls are those of a `CharDevice`; no copy outside the buffer, nothing freed under a user, failed loads leave nothing, calls return |
| `ProcSnapshot` | 6 processes in all, 4 pids | no cycle, nobody lost, right parents, every line once |
| `DiskLock` | 2 processes, up to 3 files made under the name | violation: mkfs empties an image that is locked |

Why the bounds are enough. With two pointers in a pointer block and one direct
pointer, a file of 8 blocks crosses each threshold between the levels and uses
first and last index of pointer blocks of each depth; with 16 blocks it does so
beside the directory and all pointer blocks it needs, and what a killed process
left marked makes later allocations fail. With four blocks two files make every
allocation fail somewhere, and `mkdir` at its last step, after its own block
was allocated; two names and two descriptors let a file be deleted, made again
and reopened while another is open. The run takes the two names for symmetric:
no definition of `Oscdfs` or `FileStore` tells one from the other. One kill is one process that left a half-
done call to the next. Three faults let a count become too low, be noticed and
recover. Three processes and two rows fill the table with one done and one
running job, so that the compaction moves a row; two children can end before
one signal.

Two threads are enough for the driver: the mutex lets one in, and the other is
the one that resizes between its calls. They share the file, which is the harder
case; sizes 1 and 2 with an offset of up to 2 put it below, at and past the end.
Only one of them asks for statistics, which keeps four values each time. Four
processes beside init and kthreadd and two pids for them let a pid come back
twice while the reader stands on a process that is gone, with a child that moved
to init. `DiskLock` is a counterexample and needs no more than it shows.

The file runs and `DiskLock` say `CHECK_DEADLOCK FALSE`: between calls with the
limits reached, or when every file the bound allows was made, a behaviour may
stop.  The others check deadlock.

## 4. Fairness

* `Oscdfs`: weak fairness of `Continue`.  A call is sequential code without
  locks or waits; it keeps running unless the process is killed.
* `ShellJobs`: weak fairness of the main program and of the handler (the kernel
  runs the shell and delivers a pending signal).  Nothing makes a child end;
  `SpecChildrenEnd` adds that each does, and only `PromptReturns` and
  `ChildrenCollected` are checked under it.  `WaitIsForOwn` is about children
  that do not end and is checked without it.
* `Driver`: weak fairness of the stages of loading and of each thread's own
  steps: kernel code that does not wait.  Strong fairness of `Lock`: a kernel
  mutex is handed on in the order it is asked for, so a thread is not passed over
  for ever.  Nothing makes a thread call, open, close, load or unload.
* `BitmapAlloc`, `ProcSnapshot` and `DiskLock` state safety only: processes may
  be created faster than the snapshot walks, and nobody is obliged to run mkfs.

## 5. Proofs

All theorems hold for every value of the constants allowed by the assumptions
next to their declaration.

`BitmapAllocProofs`: type correctness and all five safety properties.  The
inductive invariant adds to `Accounted` how far each count may drift from the
bitmap: each fault lowers or raises a count by at most one, and what a count has
lost bounds how often it can refuse (`NextDrift`, `CardinalityStep`).  That is
what makes `LossBounded` true although a refused allocation is no fault itself.
`CountsFollowBitmap` speaks of behaviours without a fault only; what a call that
fails half way may do to the counts is said by `LossBounded` and `CopiesClose`.

`OscdfsProofs`: type correctness (`TypeInv`: `TypeOK`, and that the call in
progress looks at pointers that exist), then `NameInv`, the inductive invariant
for names.  It says which inodes are marked, linked or in the hands of the call
in progress, and gives `EntriesFormTree` and `OpenFilesLive`.  `TypeOK` alone
does not do: an entry is written several steps after its inode was allocated,
and in between only the call knows of it.  That the entries are one tree, with no
directories apart that name each other, is an invariant of its own beside it
(`Rooted`): a new name goes to an inode without entries, and only an inode
without entries loses its name.
`NameInv` was checked with TLC on the
instances of the file runs before it was proved.

`ShellJobsProofs`: type correctness, `DoneIsOver`, `RowsInOrder` and
`ListedTillCollected`, from one inductive invariant `IInv`.  During a compaction
a row may exist twice, so `DoneIsOver` and the type invariant alone do not carry
the other two: `Passed` says that a row already passed is a copy of one before
`new` or belongs to a process that was collected, and `KeptInOrder` orders only
the rows that will remain.  `RowsKnown` ties rows to processes (a row is marked
when its process was collected, and no row names the process about to be
added).  The row a copy is writing (`Torn`) may say nothing true until the copy
ends; `DoneIsOver` leaves it out, and `HalfWritten` ties each half of it to the row it
comes from.  `IInv` was checked with TLC for tables of 2 and 3 rows and 5 processes
before it was proved.

`DriverProofs`: type correctness, `CopyInBuffer`, `UsedIsLoaded` and
`OutIsClean`, from `Inv`, which adds four parts to the types.  `Locks`: the mutex
holds exactly the tasks inside it, and at most one.  `Copies`: the file of a call
stays open and what is copied ends inside the buffer; the resize and the
accounting of another task cannot break it because `Locks` keeps them out.
`Loading`: what is held is always the first stages, their number given by
`undo` while the module leaves or its load fails.  `Using`: an open file, or an open that has the
module, means that all five are held; an open that has only found the node knows
it while a load is going on, which is where the assumption about nodes is used.
Most steps change one task only; `OneTask` says once what such a step has to
show.

`DriverIsADevice` in the same module: every step of `Driver` is a step of
`CharDevice` or changes nothing of it, so calls that overlap under the mutex
behave like calls one after the other.  The invariant is `DeviceInv`: `Inv`,
that a call has a result from its copy, or from reading the statistics, until it
returns and not before (`Answering`), that the buffer is never empty once the
driver is loaded (`Sized`), and that a load begins with the first size, mode and
totals (`Fresh`).  A read or a write takes
effect when its copy succeeds, a read at the end of the buffer when it decides
so, an ioctl in its own step; `Account` is a stutter because the mapping has
counted the call already.  TLC checked `DeviceInv` on the run `Driver` first.

`OscdfsBlockProofs` proves `LinkedIsMarked`, `NoSharedBlock` and
`PointersInitialised`.  None of them is inductive: two pointers lead to one
block only if an allocation met a block already in use, and why that cannot
happen depends on blocks that are marked but not linked yet.  `OscdfsOwners`
says it with a map `h` from blocks to places (inode, levels below, block and
index of the pointer meant to lead there), and the invariant `BlockInv` is
`NameInv` and that some map is `Owned`: every pointer on disk or in the memory of
the call leads to a block whose place is where the pointer is; what is owned by
a live inode is marked; the walk of `inode_get_block` is where it believes to
be; `inode_free_blocks` looks at each block with the level it has.  `Homes`
gives the map after a step.  The map is existentially quantified, so the model
carries no ghost variable.

`OscdfsLeakProofs` goes on from there:

* `NoLeak` and `MappedIsWritten` need the other direction: every marked block
  is held where its place says, by an inode, by a pointer block, by the walk
  that has just allocated it or by what `inode_free_blocks` has left to do; a
  block that is mapped was written, or its write is the next step.  Both stop at
  the first kill inside a call; `NoLeak` also at the first pointer that a FUSE
  write drops, which the run `FuseCounts` shows to happen.
* `BlocksApart` is about two block numbers below the size, of one linked file or
  of two.  It is arithmetic on top of the map.  The place of a block gives the
  pointer that leads to it, so two lookups that end in one block belong to
  one inode and have come the same way; then slot and indices of the two block numbers agree, and with them
  the numbers (`Way` is a lookup cut short, `InReach` says that no size exceeds
  what the levels reach).
* `WriteLands` is an action property of every step of every write: the block
  about to be written is the one its number leads to in the local inode, no step
  changes where a number leads, and when the call returns the inode on disk
  leads there too (`KeepsMapping`).  Two cases are excused, each for itself: a
  kill, and the blocks behind a pointer that this FUSE write set and drops
  because it returns without `write_inode`, which is what `FuseCounts` shows.
  Blocks of the same write below other pointers, and later writes, are not
  excused.  `OnWay` says that the pointer the walk is at is on the way of a
  lookup for the same block number, taken in the copy of the inode the call
  holds; no later step of the walk changes the way above that pointer.
* `NoHoles` is proved for `Modes` a subset of {"cli"}, the hypothesis stated in
  the theorem.  It is no gap in the proof: a FUSE write behind the end of a file
  leaves a hole on purpose (`fuse.c:109`).  `HoleFree` says that every number
  below the size of an inode, in the table or in memory, is `Filled`, and
  accounts for the block that is written but not counted in the size yet.

Every one of these invariants was checked with TLC on the instances of
`FilesBoth` and `FilesDeep` before it was proved: `InReach`, `OnWay` and
`HoleFree` as they stand, `Owned` and its converse with `h` as a history variable
that starts as `FirstHomes` and becomes `Homes(h)` at every step.  `SnapshotInv`
was checked in the same way, with the order of releases as a history variable.

`ProcSnapshotProofs`: type correctness, `LinkedBack`, `StayersRight` and
`PrintedOnce`, for any number of processes and pids, from `SnapshotInv`.  Its
core is an order on what left: `left[p]` counts the releases before that of p,
and `after` of a process that is gone leads to one released later or not at all,
with everybody between the two gone earlier (`LeftInOrder`).  So a reader on a
process that is gone skips nobody who stayed, and since a parent is released
after its children and created before them, the parent of a captured process was
captured before it.  Pids that come back are told apart by `SinceThen`: among
those who were in the list when the walk began, pids are distinct.  `PrintInv`
says that the queue and the lines printed are the captured nodes level by level,
each once.  The release order is again existentially quantified.

`FileStoreProofs`: in every `FileStore` no piece of data is in two places, every
descriptor stays inside an existing file, and every file and directory but the
root has one name.  These are the conclusions a user draws from `IsAFileStore`;
the invariant is their conjunction with the types.  Assumed is `Fitting`: the
root is a node, 0 is none, and a hole is no piece of data.

Only model-checked:

* `IsAFileStore`, the refinement of `FileStore`.  Its steps rest on what is
  proved here (`EntriesFormTree`, `NoSharedBlock`, `BlocksApart`, `WriteLands`)
  and are next in the plan.
* `DirectoriesWhole`: a linked directory has all its blocks, also after a kill
  inside `mkdir`.  The argument is that of `NoHoles`, for directories.
* `CallsEnd`, `PromptReturns`, `ChildrenCollected` and `CallsReturn`: liveness
  under fairness, which the prover does not handle.
* the runs that end in a violation: TLC's behaviour is the evidence.

Nothing in the modules with theorems is RECURSIVE.  `inode_get_block` and
`inode_free_blocks` go down at most three levels, so `Lookup` and `Tree` are
written out level by level rather than by recursion, as the code is.

## 6. Findings

`PROJECT.json` lists them with their runs: the initial count of free inodes (the
test script expects the same wrong number, 122 after mkfs), the pointer lost by
`oscdfs_write_inode`, three ways in which the SIGCHLD handler and
the waits of the shell take each other's children (`RunningIsLive` also fails
where a copy of a row writes over the handler's mark, `jobs.c:29`; its run stops
at the shorter of the two), and `mkfs`, which empties and
removes an image that another program has locked.

## 7. Not modelled

Users and permissions, paths as strings, the interactive commands, parsing of
shell lines, aliases, the history file, completion and prompt: sequential code
over strings and tables.  Failed block writes inside the calls of `Oscdfs` (only
in `BitmapAlloc`), 32-bit overflow of offsets, bytes inside a block.
`proc_collect` and `proc_stat`, which walk the same list and keep less of it;
threads, and the change of leader when a thread calls exec.  The monitor: it
prints.

## 8. Plan

1. The steps of `IsAFileStore`: the names and descriptors first (they follow
   from `NameInv`), then the contents, from `BlocksApart` and the leak invariant.
2. Failed block writes inside the calls of `Oscdfs`.
3. `DirectoriesWhole`, by the argument of `NoHoles` with FUSE among the modes.
4. `ShellJobs`: that a signal is pending as long as a child that ended has not
   been collected, the safety half of `ChildrenCollected`.
