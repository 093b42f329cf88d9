# TLA+ models of the CS 537 systems

The repository holds seven course projects: small utilities, an xv6 with new
system calls, a shell, an xv6 with a multi-level queue scheduler, an xv6 whose
page allocator keeps the pages of different processes apart, a threaded
MapReduce library, and an xv6 file system with symbolic links plus an offline
checker. This directory models the concurrent and failure-prone cores of five of
them, checks them with TLC, and proves with TLAPS, for every size, the safety of the
file-system log, the buffer cache, the file table and the pipes, the v2-sort page
allocator, the scheduler with its process table, the threads of the MapReduce library,
and the shell's job table.

## Inventory

| part | state | operations | hard behaviour |
|---|---|---|---|
| write-ahead log, `07_xv6_File_System/PartA/log.c` | on-disk header and log blocks, `log.lh`, `outstanding`, `committing` | `begin_op`, `log_write`, `end_op`, `commit`, recovery | crashes between disk writes, group commit, waiting for space |
| buffer cache and disk driver, `PartA/bio.c`, `sleeplock.c`, `ide.c` | buffers with `refcnt`, `B_VALID`, `B_DIRTY`, sleep locks, LRU list, `idequeue` | `bread`, `bwrite`, `brelse`, `iderw`, `ideintr` | recycling a buffer in use or pinned, running out of buffers, lost wakeups, two buffers held at once, read errors |
| inodes and path names, `PartA/fs.c`, `sysfile.c` | inodes on disk, cache entries with `ref`, `valid` and a sleep lock, `is_sym` | `open`, `create`, `mkdir`, `mknod`, `symlink`, `link`, `unlink`, `chdir`, `close` | stale reference counts, lock order, a current directory that is given up, links that dangle or loop |
| file table and pipes, `PartA/file.c`, `pipe.c` | `ftable`, descriptors, ring buffers with two ends | `open`, `dup`, `fork`, `exit`, `pipe`, `read`, `write`, `close`, `kill` | sleep/wakeup, closing under a sleeper, wrapped counters, failing half-way |
| scheduler, `04_xv6_scheduling/src/proc.c` | queues `q_head`/`q_tail`/`next`, `put_in`, `priority`, node ticks | `refresh_q`, `scheduler`, `setpri`, `fork2` | queues edited with and without `ptable.lock`, preemption, starvation |
| process table, same file | `state`, `parent`, `killed`, queue nodes | `fork`, `exit`, `wait`, `kill`, `sleep`, `wakeup` | lost wakeups, orphans, failing forks |
| page allocator v2-sort, `05_xv6_memory_safe_allocation/src/v2-sort/kalloc.c` | sorted free list, `pg2pid`, `allocated_count` | `kinit1/2`, `kalloc`, `kfree`, `dump_physmem` | `pg2pid` written outside the lock, exhaustion, the array's edge |
| page allocators v1a, v1b, v1a-sort | the same | `kinit1/2`, `kalloc`, `kfree` | a guard page after each page, dropped without the lock in v1a-sort |
| MapReduce, `06_Map-Reduce/mapreduce.c` | partitions, index arrays, semaphores, two shared counters | `MR_Run`, `MR_Emit`, sorting, `Get` | thread interleavings, partition order, partitions of 0 and 1 keys, keys that are numbers and strings |
| shell, `03_Shell/mysh.c` | job table, job ids, children | foreground and background commands, `jobs`, `wait`, `exit` | foreground `wait()` reaping background jobs, reused pids, full table, job ids past `bg_flag`, failing `fork()` |
| checker `PartB/fscheck.c` | none shared | sequential passes over an image | agreement with what the file system leaves on disk |
| utilities, `02_New_SysCall` | none shared | sequential | boundary cases |

The parts interact by calls: system calls bracket their block writes with
`begin_op`/`end_op` and reach the disk through the buffer cache; the log pins
buffers with `B_DIRTY`; everything that sleeps relies on the process table's
`sleep`/`wakeup` under `ptable.lock`; `fork` takes pages from the allocator.
What makes each correct: the log must make groups of calls atomic across
crashes and keep its blocks in its disk area (as `mkfs` lays it out, it does not); the queues must hold just the RUNNABLE
processes and run the highest first; the allocator must neither lose nor
duplicate a page and must keep processes apart; MapReduce must hand every pair
to the right reducer call exactly once and end; a reader of a block must see the
last write; no name or open file may refer to a freed inode; a pipe must be a byte
stream whose users are never left asleep; the shell must know its running jobs.
`PROJECT.json` lists the hazards line by line, with the properties that cover them.

## Modules

* `AtomicDisk` - what the log promises: durable contents that change by whole
  transactions, only while no call is active, and a crash that falls back to
  them.
* `Log` - `log.c` over a cache. `disk`, `dlog`, `dhead` are what survives a
  crash; `lh`, `outstanding`, `committing` are the fields of `log`; `pc` is the
  point a process has reached. Each critical section of `log.lock` is one step,
  each disk write is one step, and the size test that `log_write` makes before
  it takes the lock is a step of its own. `Crash` may happen at any moment,
  during recovery too. A call logs at most `MAXOPBLOCKS` distinct blocks, which
  is the contract of `begin_op`. The log area has `NLOG` blocks, the header among them,
  and `mkfs` makes `NLOG` equal to `LOGSIZE`. When `write_log` comes to the end of the
  area (`WriteLogBeyond`), its next write falls on the blocks of inodes, and the
  behaviour ends there (`Overrun`).
* `LogProofs` - the theorems about `Log`: first exclusion and space, then crashes and
  the refinement.
* `BufferCache` - `bio.c` over `ide.c`. `list` is the LRU list from its head. A process
  has two hands (`Hands`), with a buffer each (`at`), for the log copies from one buffer to
  another (`log.c:75-76`, `183-184`) and `bmap` and `itrunc` keep an indirect block while
  they allocate or free the blocks it names (`fs.c:389-392`, `422-426`); `Nested` is the
  order in which two may be held. Taking a sleep lock, queueing a request and the
  interrupt that ends it are steps. A read may end with an error (`ideintr(FALSE)`): the
  buffer then keeps the data it had, of another block or none, and is valid; `unread`
  is history and remembers it. The driver never looks at the status of a write, and the
  model takes writes as performed. `log_write` is what the log does to a buffer: it
  marks it dirty and keeps it so; writing it out later is the `bwrite` of a process
  that got the buffer. `MaxPinned` bounds the blocks the log keeps. The pointer
  surgery of `brelse` and the search of `bget` are operators on positions of the list
  (`MoveToHead`, `Recycled`).
* `BufferCacheProofs` - the theorems about `BufferCache`.
* `Inode` - inodes, directories and path names with symbolic links. A step is what a
  process does from taking a sleep lock to releasing it or asking for another, so that
  the lock order is visible: `st` has the variables of the call, `puts` the inodes a
  call still has to `iput`, `stack` the `namex` calls that met a link. `iput` is three
  steps, since it looks at `ref` under one lock and lowers it under another. The cache
  is written through, so the inode on disk and in the cache are one record. `sys_chdir`
  puts the old current directory, in as many steps as `iput` has, before `ChdirEnd` assigns
  the new one; in between `cwd` may name a freed inode, and the properties look at the
  directory that was looked up (`Home`). The disk starts as the root alone or with one
  empty directory in it. `excused`
  records the two ways an inode can be left over (see below). The operators
  `inode_use`, `BadInodes`, `dir_inode`, `FreeButReferred` and `UsedButNotFound` are
  passes of `fscheck.c` over this disk.
* `ByteStream` - what pipes promise: bounded first-in first-out streams with two ends.
* `Files` - the file table, descriptors and pipes. `op.files` are the references a
  call has in hand between `filealloc` or `fileclose` and its end. A process that is
  about to sleep keeps the pipe's lock but not `ptable.lock`, so `kill` can come in
  between (`rdoze`, `wdoze`). `exit` closes descriptor after descriptor (`ExitNext`), each
  with the steps of `fileclose`. Counters wrap at `CounterMod`, the model's 2^32.
* `FilesProofs` - the theorems about `Files`.
* `MLQ` - scheduler and process table. What runs under `ptable.lock` is one
  step. `allocproc` after its first release and `proc_setpri`, which hold no lock,
  are split at every shared access. A queue walk that would never end or would
  follow a null pointer sets `fault`. The read of `q_head[-1]` for a process in
  no queue is modelled as the word that lies there, the last node's `inuse`.
  `kill` and `setpri` may name an UNUSED slot, as the pid 0 and the old pid that a failed
  fork leaves do, and `wakeup` wakes the sleepers of one channel, any of those asleep for
  I/O. Left out: file descriptors, memory images and the statistics of `getpinfo`.
  `raced` is history: it records that a setpri was preempted half-way, or that two `allocproc`s, which search
  without the lock (`proc.c:174-184`), have picked the same node. `Clean` means that
  neither has happened, and no setpri and no failed fork either.
* `MLQProofs` - the theorems about `MLQ`.
* `KAlloc` - the v2-sort allocator. A frame is its index `VA2IDX`, so the list
  is ascending. The list changes under the lock in one step; marking `pg2pid` and
  counting are later steps. A read of `pg2pid` outside the array returns an
  acceptable value or not, chosen freely (`junk`). `kinit1` frees the frames below
  4MB, untracked ones with an index of `KINIT2` or more, and `kinit2` the rest, tracked or
  not; the kernel may take pages in between. `allocated_count` is counted up and down
  outside the lock, here in one step each: an update lost between two processors is left
  out. Inserting and unlinking are
  operators on positions of the list (`PutAfter`, `Before`, `Unlinked`); `handed` is
  history, the owner of every frame.
* `KAllocProofs` - the theorems about `KAlloc`.
* `KAllocV1` - the first three allocators; `version` says which of the four the machine
  booted with. v1a and v1b hold the lock for a whole `kalloc`; v1a-sort takes the
  guard page off later without it, and a list that has changed in between is a `fault`.
* `MapReduce` - mapper and reducer threads. A file is the sequence of pairs its
  mapper emits; the reducer calls the getter until NULL, as `wordcount.c` and
  `sort.c` do; `qsort` may order equal keys in any way. A key is its place in the order
  of `strcmp`, which sorts the pairs, and the constant `strtoul` gives the number it
  spells, which `MR_SortedPartition` uses: the two orders differ, as "10" and "9" show, and
  "012" is octal. `KEYSPACE` stands for 2^32. The vendored hash map is a function from
  keys to indexes.
  One `MR_Run` per process, as both programs do.
* `MapReduceProofs` - the theorems about `MapReduce`.
* `NatSets` - lemmas on sets of natural numbers that several of the proofs use.
* `Shell` - the shell as one process and its children. A line is what `parse_command`
  makes of it (`Line`): how many words, whether there is an `&` and a `>`, which command.
  With `>` and `&` alone there are -1 arguments (`argc`), and `job_arr_add` crashes
  (`abort`). Job ids are never reused: past `MAX_JID` `job_arr_add` writes behind `bg_flag`,
  where the behaviour ends (`overrun`), and `func_wait` reads behind it, where it may
  find any byte. `fork`,
  `wait` and `waitpid` are modelled from their use (external): a pid comes back once
  its child was reaped, and `fork` may fail. `ended` and `refused` are history.
* `ShellProofs` - the theorems about `Shell`.
* `MC...` - the instances TLC checks, one for each of the above; `MCKAlloc` has both
  allocator modules, of which the one the machine boots with takes steps.

Definitions whose comment begins with "A mutant" are faulty variants of the
definition that follows; they take part in no specification and serve to show
that the properties notice such a fault.

## Runs

| run | instance | result |
|---|---|---|
| `log` | 2 processes, 3 blocks, 2 values, 1 block per call, `LOGSIZE` = `NLOG` = 3, as `mkfs` has them equal | `AtomicCommit` (refinement of `AtomicDisk`), `Durable`, `CommitExclusive`, `Pinned`, `RoomReserved`, `SleeperWakes` hold |
| `log_overrun` | the same | `LogInBounds` fails |
| `bcache` | 2 processes with 2 buffers each, 2 buffers, 4 blocks (1 of the log, 1 indirect), 2 values, 2 pinned | `ReadsLatest`, `PanicOnlyWhenPinned`, `NobodyForgotten` hold; no deadlock |
| `inode` | 2 processes, 3 calls, 2 names, 3 inodes, one nested link | `NoDangling`, `Settled`, `CallsReturn` hold |
| `inode_stuck` | the same, 2 calls | `NeverStuck` fails |
| `files` | 2 processes, 2 descriptors each, 3 files, one pipe of 2 bytes, counters modulo 4, 3 opens | `Accounted`, `SleepersMustWait`, `IsByteStream` (refinement of `ByteStream`), `CloseReleases` hold |
| `mlq` | 3 slots, 1 CPU, 2 queues, slice unit 1 | `QueuesSound`, `NoOrphan`, `WaitNotMissed`, `PriorityRespected`, `TopRuns` hold |
| `mlq_setpri` | 2 slots, one setpri, one failing fork, one pending kill | `KilledNotAsleep` holds |
| `mlq_lost` | 3 slots, one setpri | `NoLostProcess` fails |
| `kalloc` | 5 frames, 3 of them tracked, 4 freed by `kinit2`, for v2-sort; 6 frames, 4 of them tracked, 5 freed by `kinit2`, for v1a, v1b and v1a-sort; 2 pids, a pipe, the kernel, 2 threads | `FreelistSorted`, `Conserved`, `DumpTruthful`, `SequentiallyApart`, `GuardPages` hold |
| `mapreduce` | 2 mappers, 2 reducers, 4 partitions, 110 inputs | `FaultOnlyOneKey`, `SentToOneInOrder`, `Delivered`, `SortOutput`, `Frozen`, `Terminates` hold |
| `shell` | 2 job slots, 3 pids, 5 commands, a `bg_flag` of 3, 1 failing fork, 12 lines | `NothingLost`, `WaitTruthful`, `ForegroundReturns` hold |

Every property is described where it is defined. `log`, `bcache`, `files` and `mlq`
also check their module's `TypeOK`.

Why the bounds are enough for the questions asked. Two processes with a log area of
a header and two blocks, and room for three in `log.lh`, give overlapping calls,
absorption, a log with no room for another call, sleepers, commits of one and of two
blocks with a crash after any write, and the transaction of three that the area cannot
hold. Three slots give a parent, a child and a grandchild, so reparenting to
init, zombies handed on, and two processes competing on one queue while a third
sits on another. `MaxSetPri`, `MaxFail` and `MaxKill` bound calls that could be
repeated for ever. Five frames with three tracked ones give inner pages, a page
at each end of `pg2pid` and pages below it, one freed by `kinit1` and one by `kinit2`. The
MapReduce inputs give
partitions with no key, one key and two keys, lists that must grow, more
partitions than reducers, and keys whose two orders differ. Two buffers for two processes
that each use up to two, with two pinned blocks, give
hits, recycling, two buffers held and wanted at once, waiting for a buffer and
exhaustion; the second conjunct of `PanicOnlyWhenPinned`, a bound on the number of
dirty buffers, cannot fail at that size and is the theorem's to show. Three inodes are the
root, a directory and an entry in it, the directory made by a call or there from the
start; three calls are enough for a file that is linked, unlinked and opened at once, or a
directory removed under a lookup or while it is a current directory that is given up. Two
processes on one pipe of two bytes give a writer asleep with a write half done, a
reader asleep, closes of either end under both, and counters that wrap after four
bytes; three opens are a pipe, a fork and a dup. Two job slots, three pids and
five commands (`MaxCommands`) with a `bg_flag` of three give a full table, a pid that
comes back while an entry still names it, and background and foreground jobs whose ids lie
past `bg_flag`.

The failing runs are disagreements between the code and its own words:

* `log_overrun`: `param.h:11` calls `LOGSIZE` the "max data blocks in on-disk log", and
  `begin_op` reserves that many; `mkfs.c:25` gives the log `LOGSIZE` blocks with the
  header. The test of `log_write` that should panic (`log.c:218`) comes before
  `log.lock` is taken, so two calls pass it for the last slot, and the commit writes over
  the first block of inodes.
* `inode_stuck`: the test `linkunlink` (`usertests.c:855-856`) looks for deadlocks
  between link, unlink and create. `iput` takes the inode's sleep lock (`fs.c:335`),
  and `create` and `sys_unlink` put the directory while they hold the lock of its
  entry (`sysfile.c:280`, `224`). A process that has the directory and asks for the
  entry then waits for one that has the entry and asks for the directory. `CallsReturn`
  shows that this is the only cycle: every call returns unless it is met.
* `mlq_lost`: `rm_from_q` does not move `q_tail` when it removes a tail that is
  not the head; a setpri then links the node to itself and the process is lost.

### Exceptions the properties make

Where the code does less than one might expect, the property says so, and the
model contains the behaviour:

* `RoomReserved` is about the entries of `log.lh.block`; on disk there is one block less
  (`log_overrun`). The other properties of `Log` hold until a transaction overruns the
  area, and `SleeperWakes` up to a panic or an overrun.
* `ReadsLatest` is claimed of buffers whose last read succeeded, or that were written since.
  `bread` is to "return a locked buf with the contents of the indicated block"
  (`bio.c:94`), but `ideintr` marks the buffer valid also when `idewait` reported an error
  and nothing was read (`ide.c:118`, `122`), and its holders then see other bytes.
* `SequentiallyApart` and, for v1a-sort, `GuardPages` are about calls that do not
  overlap: pages are marked, and guard pages dropped, after the lock is released.
* An empty free list makes every `kalloc` follow a null pointer (`fault`), although
  its comment says it returns 0.
* `FaultOnlyOneKey`: a partition whose pairs all have one key gets no index entries,
  since `key_tmp` still holds that key when the second loop of `sort_partition` starts.
* `Settled`: two last `iput`s that overlap see each other's reference, and neither
  frees the inode; and a name can be made in a directory that has been removed since
  it was looked up. `fscheck` then finds an inode in use without a name. It also calls
  every symbolic link a bad inode, and because of "." it counts a directory as found
  even when nothing else names it.
* `NoDangling` leaves out `cwd` between the `iput` in `sys_chdir` and the assignment.
  A path through a link that points to nothing stops the kernel
  (`ilock` of a null inode), one through a link to itself overruns the stack.
* `SleepersMustWait`: a writer that is killed or has lost its last reader leaves
  without a wakeup for the bytes it has put in, so a reader may sleep on until the
  next write or close.
* `SortOutput` compares partitions only. Within one `sort.c` prints its numbers as `strcmp`
  orders them (`06_Map-Reduce/tests/13.out` has 34565363 before 523654).
* `WaitTruthful`: `wait` says "terminated" of a job the full table did not take.
* `NothingLost` ends with the shell, and with the first background job whose id is past
  `bg_flag` (the thousandth and later ones).
* `exit_cleanup` closes the batch file and frees the line once per job (outcome `abort`).
* `is_sym` is one variable for all processes: an `open` of a directory may be refused
  because of another process's lookup, and the other way round.

### Fairness

`Log`: a process that is inside the log code keeps running (weak fairness); one
that has been woken in `begin_op` gets to test again; and each system call makes
finitely many writes, so it reaches `end_op` (strong fairness, as it may be away
from that point again and again). `MLQ`: every idle CPU keeps looping in
`scheduler`, and the timer interrupt keeps arriving, so a running process is
preempted unless it gave up the CPU itself (strong fairness of `Yield`); a
process that is back in the loop of `wait` holds `ptable.lock` and goes on.
`MapReduce`: pthreads run every thread that can run (weak fairness).
`Files` and `Inode`: a process inside a system call that can go on does (weak
fairness of its steps), while programs need not make another call. `Shell`: the
shell runs when it can (weak fairness of its steps other than reading a line); its
children may run for ever. `KAlloc`, `KAllocV1` and `BufferCache` have no liveness
property; `NobodyForgotten` says for `BufferCache` that every sleeper has a waker.
Deadlock is checked for `BufferCache` and `Shell`; the other systems may stop
(a log is overrun, MapReduce ends, a fault ends everything, all readers may sleep on an
empty pipe, all calls are made), and there the liveness properties say what must still happen.

## Proofs

Everything here holds for every value of the constants that satisfies the named
assumptions of the component's module, so for any number of processes, blocks, buffers,
files, pipes, frames, threads, slots, queues and jobs. No property is inductive by itself; each proof module
states an inductive invariant as a conjunction of named parts, proves that every action
keeps it, one lemma per action or per part, and derives the properties from it. The
invariants were checked by TLC on the runs' instances before they were proved.

`LogProofs` (`DataAssumption`, `ProcsAssumption`, `SizeAssumption` of `Log`):

* `LogInvariant`: `Spec => []IInv`;
* `TypeCorrect`: `Spec => []TypeOK`;
* `CommitsAlone`: `Spec => []CommitExclusive`;
* `TransactionsFit`: `Spec => []RoomReserved`, whatever `NLOG` is.

`IInv` adds that `outstanding` is the number of processes inside a call (`Counted`),
that a committer excludes calls and recovery excludes both (`CommitAlone`,
`RecoverAlone`), who holds which buffer (`HeldInv`), what each call has logged
(`OpBlocksInv`), and the reservation argument (`Capacity`): the blocks logged plus the
room reserved by the calls in progress never exceed `LOGSIZE` plus the blocks those
calls have already used. A call may have used at most `MAXOPBLOCKS` blocks, so the used
blocks inject into calls x 1..MAXOPBLOCKS (`UsedBound`), and the log stays within
`LOGSIZE`. So the unlocked test of `log_write` would do no harm on a log area with a
header block besides its `LOGSIZE` blocks; the area `mkfs` makes has none.

Its second half goes on from there:

* `CrashInvariant`: `Spec => [](IInv /\ CInv)`;
* `DirtyIsPinned`: `Spec => []Pinned`;
* `FinishedCallsSurvive`: `Spec => []Durable`;
* `LogIsAtomic`: `Spec => AtomicCommit`, the refinement of `AtomicDisk`.

`CInv` says when the header on disk is the one in memory and when it is empty
(`HeadInv`), that what is neither logged nor held is the same in cache and on disk
(`CleanInv`), and how far the copies into the log have come (`CopyInv`). With it the
refinement is one case per step: what a reboot would find changes at `write_head` of a
commit only, where it becomes what the calls see; installing and erasing change nothing
of it, because they rewrite blocks with the contents a recovery would give them.

`BufferCacheProofs` (`CacheAssumption`): `CacheInvariant`, and from it `TypeCorrect`,
`LastWriteRead` (`ReadsLatest`), `NoSpuriousPanic` (`PanicOnlyWhenPinned`) and
`SleepersHaveWakers` (`NobodyForgotten`). The invariant counts the users of each buffer,
keeps the LRU list a permutation, gives each block one buffer and each lock one holder,
orders the two buffers of a process (`Ordered`),
ties sleepers in `iderw` to requests in the queue, and relates buffer, disk and last
write, except for a buffer whose read failed. `NoSpuriousPanic` is a counting argument:
each process uses two buffers at most. `SleepersHaveWakers` says more than that the lock
has a holder: if the holder sleeps too, it does so for a block nested inside this one,
and nothing is nested inside that, so no circle closes.

`FilesProofs` (`FilesAssumption`: the set of processes is finite, `PIPESIZE` is below
`CounterMod` and divides it, as 512 does 2^32):

* `FilesInvariant`: `Spec => []FilesInv`;
* `FilesTyped`: `Spec => []TypeOK`;
* `FilesAccounted`: `Spec => []Accounted`;
* `NoLostWakeup`: `Spec => []SleepersMustWait`;
* `PipesAreByteStreams`: `Spec => IsByteStream`, the refinement of `ByteStream`.

`FilesInv` has three layers, each inductive on the ones before it. `RefInv` is about
references: what a call may have in hand and where (`HandInv`), that a pipe's page is
known where it is used (`PageInv`), that a file `pipealloc` has taken is nobody else's
(`PrivateInv`), and that `ref` is the number of references (`CountInv`). Counting singles
out the process that moves: its descriptors and the files it has in hand change by one, the
references of all others are the same set as before. `EndInv` is about the ends of pipes:
one owner each (`OwnerInv`), open as long as there is one (`OpenInv`), and a process
inside `piperead` or `pipewrite` still has the descriptor it came with (`HoldInv`), which
is why a page is never given back under it. `PipeInv` bounds what is in a pipe and says
that whoever dozes has the lock and must wait, and whoever sleeps must wait.

The first layer is proved action by action (`RefDup` ... `RefSleep`). The same lemmas show what the
action does to pipes and sleepers, one of a few effects (`Effect`: nothing, a kill, a last
close, a pipe made, an end closed, a call begun, a read, a write, a sleep), and the other
two layers and the refinement are proved effect by effect. In the refinement
`Contents` is what lies between the counters: a read takes a prefix of it
(`ReadContents`), a write appends (`PutContents`). Both come down to arithmetic on places
in the ring: a counter that has wrapped points to the same place, because `PIPESIZE`
divides `CounterMod` (`ModShift`), and the places a write fills are none of those in use
(`ModDistinct`).

The proof attempt changed the model in one respect: `exit` used to put all files of the
process in hand at once, in a sequence whose length depends on `NOFILE`; now it takes the
next descriptor when the one before is closed, as the loop in `proc.c:236-241` does.

`KAllocProofs` (`KAllocAssumption`): `AllocatorInvariant`, and from it `ListInOrder`
(`FreelistSorted`), `PagesConserved` (`Conserved`), `PagesApart` (`SequentiallyApart`)
and `DumpTellsTruth` (`DumpTruthful`). The invariant says for each frame whether it is
not yet given to the allocator, on the list, handed out or in the hands of a thread in
the middle of `kalloc` or `kfree`; what `pg2pid` says of it in each of these cases; and that
`allocated_count` is the number of frames counted. `DumpTellsTruth` needs that the i-th
marked frame exists and is unique, an argument on ranks in finite sets.

`MLQProofs` (`MLQAssumption`), with `NCPU = 1` unless noted: that is the machine the
project's Makefile starts (`CPUS := 1`, `04_xv6_scheduling/src/Makefile:231-232`).

* `TableInvariant`: `Spec => []TableInv`, whatever setpri and failing forks do; from it
  `TypeCorrect` (`TypeOK`), `NobodyOrphaned` (`NoOrphan`) and `NoLostExit`
  (`WaitNotMissed`);
* `KilledWakes`: `Spec => []KilledNotAsleep`, for any number of CPUs;
* `QueuesInvariant`: `Spec => []IInv`; from it `QueuesAlwaysSound` (`QueuesSound`) and
  `HighestFirst` (`PriorityRespected`).

`IInv` is `TableInv` and, while `Clean`, `QueueInv`: slots and nodes in use are in
one-to-one correspondence (`NodeInv`), every queue is a list, laid out in
`q_head`/`next`/`q_tail`, of just the nodes whose process has `put_in` there (`ListsInv`), and
all processes but one are as `refresh_q` left them or in no queue; the one is the process
that was switched to last, and it is at the head of its queue, with at most a full slice
used. So `rm_from_q` only ever removes heads, which is why its neglect of `q_tail` in the
middle of a list does no harm before a setpri. `refresh_q` is a loop over the slots; its
invariant (`RefreshInv`) is proved slot by slot (`RefreshStep`). That a node is left for
every fork is the pigeonhole principle (`FreeNode`).
Two limits of the code show in the hypotheses. On two CPUs a process that exits on one
can be reaped by `wait` on the other before any `refresh_q`, and its freed node is still
in a queue, so `QueuesSound` fails. And two forks preempted between search and take
share a node from then on, hence `raced` in `Clean`; this takes four slots, one more than the
run has, and the proof attempt found it.

Recursive functions (`Walk`, `refresh_q`) are handled through the least number principle
(`LeastNat` of `NatSets`) and, from it, existence of and induction along a finite loop
(`LoopExists`, `LoopIn`).

`MapReduceProofs` (`MapReduceAssumption`; `WorkloadsAssumption`: files are finite
sequences of pairs and the partitioner stays below `num_partitions`):

* `MapReduceInvariant`: `Spec => []IInv`;
* `OnlyOneKeyFaults`: `Spec => []FaultOnlyOneKey`;
* `SentInOrder`: `Spec => []SentToOneInOrder`;
* `SortedIsFrozen`: `Spec => Frozen`.

`IInv` says that the phases of `MR_Run` do not overlap (`PhaseInv`), that a list has room
for its pairs (`SizeInv`), that the partitions given out lie below `cur_reduce_partition`,
have one owner each and are sorted by it alone (`PartInv`), that the index of a sorted
partition is the one its list calls for (`IndexInv`), that a reducer's key counter
stays within the keys (`LoopInv`), and that a semaphore above zero means that every partition up
to it has begun (`SentInv`). `OnlyOneKeyFaults` rests on `StartsAndKeys`: in a sorted list
with no key or at least two, the pairs that differ from the one before (from the last, for
the first) are in one-to-one correspondence with the keys. With exactly one key there is
no such pair, which is the defect the property describes.

`ShellProofs` (`ShellAssumption`):

* `ShellInvariant`: `Spec => []IInv`;
* `NoJobLost`: `Spec => []NothingLost`;
* `WaitTellsTheTruth`: `Spec => WaitTruthful`.

`IInv` says that entries of `job_arr` are empty or have a job id of their own that was
given out (`EntriesInv`), that every job id given out so far has its flag set or its command has ended
(`EarlierInv`), so that a `wait` misled by a byte behind `bg_flag` still
tells the truth, that the child of a job which is just being recorded runs until
the job ends, and that `wait` asks after background jobs (`CmdInv`), and that each job
that still runs has an entry with the pid of its running child (`JobsInv`). The last is
what `NothingLost` lacks to be inductive: `waitpid` on the pid of a running child neither
fails nor reaps it, so no sweep drops the entry, and a pid is handed out again only when
its child is gone, so a reused pid cannot make two jobs share one.

Only model-checked, and why:

* liveness (`SleeperWakes`, `TopRuns`, `CallsReturn`, `CloseReleases`, `Terminates`,
  `ForegroundReturns`): fairness and ENABLED are out of the prover's reach;
* `Inode`: `NoDangling` and `Settled`. An inductive invariant would have to describe, for
  each of the many points of a call, the inodes in `st`, `puts` and `stack`, whose length
  depends on the nesting of links; it has not been worked out;
* `KAllocV1`: `GuardPages`. `insert_freelist` there is written with `SelectSeq`, whose
  results are only known by induction over the list; the sorted list itself is proved for
  v2-sort in `KAllocProofs`;
* `Delivered` of `MapReduce` speaks of concatenations of any number of sequences
  (`FlattenSeq`) and of counts in them, and would need induction over the data;
  `SortOutput` needs that every key given to a reducer was emitted into its partition,
  which is part of `Delivered`.

## Plan

The models are complete along the plan, in the order log, scheduler, allocator,
MapReduce, shell, buffer cache, files and pipes, inodes; the abstract specifications
`AtomicDisk` and `ByteStream` are both shown to be implemented, by TLC and by proof.
What could still be proved, by worth:

1. `Inode`: that locks are held only by processes inside a call and that `ref` counts
   the holders of an inode, the first parts of an invariant for `NoDangling`;
2. `KAllocV1`: `GuardPages`, with `insert_freelist` by positions as in `KAlloc`, from the
   invariant that tracked pages are on the list in pairs.

## Not modelled

* Virtual memory, `exec`, traps, the console, the boot code and the user programs of
  xv6, which come unchanged from xv6 and appear only as callers.
* Most of the repository by size: seven copies of the same xv6 tree, each with
  the same 1,800 lines of `usertests.c`, drivers and headers. A model is of one copy, the
  one whose project changes the code or uses it hardest, so the share of all lines that
  a model stands for stays small.
* In `Inode`: ".", ".." and the blocks of files (`bmap`, `balloc`,
  `readi`, `writei`). Without "." the model does not show that `link` to the name "d/."
  makes `dirlink` put the directory it has locked.
* In `ByteStream` the bytes a write appends are any; that they are the writer's is
  `pipewrite` of `Files`, which takes them from the call's buffer.
* In `MLQ`: memory images and the statistics of `getpinfo`. Two CPUs are allowed by
  the module and not used by the runs (see Proofs).
* `mkfs`, the utilities and `getofilecnt`/`getofilenext`: sequential, they build, format
  or read. `fscheck`'s passes over sizes, the bitmap and the dot entries.
* What follows a write outside an array or the log area: the behaviours of `Log`, `Shell`,
  `MapReduce` and the allocators end there.
* The vendored hash map of `mapreduce.c` and the lint script.
