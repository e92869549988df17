# A TLA+ model of HYU-Assignment

The repository collects the course work of one student.  Its largest and most
intricate part is `HYU-Operating-Systems/xv6-public`, xv6 extended with an
MLFQ + stride scheduler, threads, semaphores, a reader/writer lock, thread-safe
reads and writes, and large files.  Next come a database with a B+ tree on disk,
a buffer pool and transactions, a compiler for C-minus, an assembler and
simulator, a line tracer and some programs about data structures.  This
directory models all of these.  TLC checks each module on small instances and
TLAPS proves the central properties of the queues, the locks, the pipes, the log and
the buffer cache for all sizes.

Paths below are relative to `src/HYU-Operating-Systems/xv6-public/` unless they
start with `src/`.

## 1. Inventory

### The kernel

| Component | State | Operations | Hard behaviour | What makes it correct |
|---|---|---|---|---|
| MLFQ queues (`mlfq.c`) | three arrays with two cursors | enqueue, dequeue, pickprocmlfq, priorityboost | wrap-around, duplicate scan, boosts | bounded FIFO order, nobody starves |
| Scheduler, shares (`proc.c`, `trap.c`, `minheap.c`) | level, ticks, tickets, heap, pass values | scheduler loop, clock tick, set_cpu_share, wakeup | pass values that only grow, joining late, divisions by tickets | each runnable process in one place, shares are kept |
| Processes and threads (`proc.c`, `exec.c`) | `ptable`, rings of threads, `runblenum`, per-CPU `proc` | fork, exit, wait, kill, exec, thread_create/exit/join, sleep, wakeup | CPUs that interleave, kill against sleep, freed slots that are reused | no lost wakeup, no lost process, one parent, one page table |
| Semaphores (`xem.c`) | counter, queue of waiters, two spinlocks | xem_init, xem_wait, xem_unlock | queueing up and falling asleep are two steps | mutual exclusion, FIFO, no lost wakeup |
| Reader/writer lock (`xem.c`, `saferw.c`) | three semaphores, reader count | acquire and release for reading and writing, thread_safe_pread/pwrite | chains of semaphores, readers against writers | writers alone, exact count, no starvation |
| Log (`log.c`) | log header in memory and on disk, logged and home blocks | begin_op, log_write, end_op, commit, recovery | crash between any two disk writes, group commit | atomicity, durability, space reserved |
| Spinlocks (`spinlock.c`) | holder, `ncli`, `intena`, the interrupt flag | acquire, release, pushcli, popcli, sched | interrupts between any two steps, threads that change CPU, lock order | interrupts off under a lock and on again after it |
| Buffer cache, disk, sleep locks (`bio.c`, `ide.c`, `sleeplock.c`) | LRU list, flags, request queue | bread, bwrite, brelse, iderw, ideintr | interrupt against request, kill against both sleeps, buffers that are all pinned | one copy of a block, reads see the last write, requests served |
| Inodes, directories, paths (`fs.c`, `sysfile.c`) | inode cache, disk inodes, entries | create, open, link, unlink, mkdir, chdir, close | names that vanish between look-up and lock, nested locks | counts are exact, nothing in use is freed |
| Blocks of files (`fs.c`, `file.c`) | bitmap, block maps | bmap, writei, writei_p, itrunc, balloc, filewrite | triple indirect blocks, holes, old contents | files read as written, no block in two files, space of the log |
| Descriptors (`file.c`, `sysfile.c`, `proc.c`) | file table, table of every thread | open, dup, close, pipe, fork, thread_create, exit, exec | tables of threads copied and closed by other threads | counts are the descriptors |
| Pipes (`pipe.c`) | ring buffer, two counters, two ends | pipewrite, piperead, pipeclose, kill | both ends sleep and wake under one lock | FIFO bytes, everyone returns |
| Memory (`kalloc.c`, `vm.c`, `exec.c`) | free list, page tables, sizes | fork, exec, sbrk, exit, copyout, argument checks | any kalloc may fail, threads that share a size | a frame has one owner, contents as the process expects |
| Console (`console.c`) | ring with three indexes | keyboard interrupt, consoleread | editing against committing, a full line, end of file | readers get the edited lines |
| Traps, devices, boot | | | hardware | |

System calls and interrupts enter through `trap()`; the clock tick charges the
running process and makes it yield; `yield`, `sleep` and `exit` switch to
`scheduler()`, which queues the group it came from in a level of the MLFQ or in
the heap and picks another.  Semaphores, pipes, buffers, the console, the log and
`wait` block through `sleep` and are woken by `wakeup1`, which queues the group
again.  `ptable.lock` covers all of it.  `exec` and `exit` touch the rings of
threads, the descriptors and the page tables.  File-system calls run between
`begin_op` and `end_op`, lock inodes, and reach blocks through the buffer cache.

### The other parts

| Component | State | Operations | Hard behaviour | What makes it correct |
|---|---|---|---|---|
| User programs of xv6 (`sh.c`, `grep.c`, `umalloc.c`, `ulib.c`, `mkfs.c`) | trees of commands, buffers, a free list, an image | parse and run, match, allocate, make the image | processes around a pipe, lines across reads, joining of free blocks | what is run is what was written; the kernel reads what mkfs wrote |
| Buffer pool (`src/HYU-Database-Systems/project5`) | frames in an LRU list, pins, two copies of the free list | read, write, allocate, free a page, close | eviction between any two calls | pages keep what was written last |
| B+ tree (`project5`, and in memory in `project1`) | header, pages or nodes | insert, delete, range, join, print | splits, delayed merges, redistribution, stale copies | a dictionary, all pages accounted for |
| Transactions (`project5`) | lock table, transaction table, latches, three mutexes | find, update, end, abort | waits, retries, upgrades, undo | two-phase locking: no conflict, no lost update, clean reads |
| Compiler (`src/HYU-Compiter-Design`) | characters, trees, symbol tables | scanner, parser, analyser | comments at the end, precedence, scopes | the tokens, tree and errors of the language |
| LC-2K (`src/HYU-Computer-Architecture`) | program, machine | two passes, simulation | signed offsets, labels | machine code does what the source says |
| Line tracer (`src/HYU-Embedded-System-Design`) | mode, branches, route | explore, reduce, drive | dead ends, the end mark | the second run takes the shortest way |
| Data structures (`src/HYU-Data-Structures`) | trees, lists, tables, graphs | insert, delete, search, traverse | rotations, splits, empty and full | the set, sequence or number they stand for |
| Java, graphics | | | user interfaces | |

`PROJECT.json` lists the components with their status, and the hazards of the
code, line by line, with the properties that watch them.

## 2. Modules

    CircQueue     operators: the circular queue of mlfq.c and xem.c
    Mlfq          the three ready queues                refines Fifo
    Sched         scheduler(), slices, levels, shares, the heap
    Proc          processes, threads, CPUs              refines Lifecycle
    Xem           the semaphore                         refines Semaphore
    RWLock        the reader/writer lock                refines SharedExclusive
    Pipe          a pipe between processes
    Log           the write-ahead log with crashes      refines AtomicDisk
    Spinlocks     spinlocks and the interrupt flag
    Buffers       buffer cache, sleep locks, disk queue
    Inodes        inodes, directories and path names
    FileBlocks    the block map, the bitmap and their calls; mkfs and its image
    Descriptors   file table and descriptors
    Memory        frames, page tables and their calls; copyout, argument checks
    Sbrk          threads in sbrk                       on Memory
    Console       console input
    Shell         the shell's parser and processes
    UserLibrary   grep, malloc, the functions of ulib.c and string.c
    BufferPool    frames, LRU list, free pages          refines PageStore
    BPTree        the tree on disk, join_table
    MemTree       the tree in memory
    Trx           record locks and transactions
    CMinus        parser and analyser of C-minus
    TinyCompiler  the scanner; the TINY code generator and machine beside it
    LC2K, LineTracer                                    assembler, simulator; line tracer
    DataStructures                                      lists, tables, trees, graphs

    CircQueueProofs, MlfqProofs, ProcProofs,            proofs about the modules
    SyncProofs, LogProofs, BuffersProofs,               named like them (section 5)
    TrxProofs, SpinlocksProofs

`Fifo`, `Lifecycle`, `Semaphore`, `SharedExclusive`, `AtomicDisk` and `PageStore`
are the abstract specifications: what the callers of a component may rely on.

The `MC` modules instantiate them.  `MCSync`, `MCKernel`, `MCDatabase` and `MCPrograms`
put several parts in one specification.  In `MCSync` the lock, the semaphore and the
pipe take their steps side by side, each with its own variables. In the others `part`
says which of them a behaviour is of, and only that part takes steps; the parts share
the variables `v1`, `v2`, ...: the first variable of a part is `v1`, and so on, and what
a part does not use stays 0.  `MCKernel` extends `Buffers` and `Spinlocks`, which keep
their own variables, and the processes of both and the console's readers have the same
names; `MCDatabase` extends `BufferPool` and `Trx`, which keep theirs.  The parts do not act on each other there; what one relies on of
another is said below.  `MCProc` has the workloads of `Proc`.  A module of operators
(`FileBlocks`, `Memory`, `UserLibrary`, `BPTree`, `MemTree`, `TinyCompiler`, `CMinus`,
`LC2K`) ends with a user that calls them in any order, and with what that user should
find; `DataStructures` drives `BPTree` along with itself.

A property of a run is often several named parts joined, each stated with its
module: `TableSound`, for instance, is `TypeOK`, `OneCpu` and `ParentLive` of `Proc`.
Section 4 and the table of defects use the names of the parts.

### How state and actions correspond to the code

**Mlfq.**  `mlfq` is the array of `struct cqueue`, cursors and stale slots
included.  All calls are made under `ptable.lock` and are single steps, except
`priorityboost`, whose loops are taken an entry at a time.  The duplicate scan
of `enqueue` starts at `head + 1` without the modulo and, with `head` on the last
slot, reads the field after the array; `Scanned` and `Read` model that read.
`reply` is the last call and its result, so that the refinement compares
results as well as states.

**Sched** is one round of `scheduler()` after another on one CPU, with processes
of one thread.  `BackToMlfq` and `BackToStride` are what the two branches do
after the switch back (charge, demotion, queueing, boost).  They run with
`ptable.lock` held from the `yield`, `sleep` or `exit` that switched, so each of
these is one step with them.  The level queues are sequences, which
`FifoRefinement` (section 5) justifies.  `int` and `uint` are modelled with their
width (`AsInt`, `AsUint`).

**Proc.**  `proc` is `ptable.proc`, field by field as far as control
depends on it; `ready` is the set of indexes in the levels and the heap, any of
which may be picked.  A critical section of `ptable.lock` is one step.  Code
outside is cut where an interrupt or another CPU can matter: after a trap's test
of `killed`, between allocating and publishing a slot, between a sleeper's test
of `killed` and its `sleep()`.  A process resumed inside the loops of `wait` and
`thread_join` holds `ptable.lock`; `LockFree` keeps the others out.  `fault`
records how the kernel would break: a walk of a ring that does not end, a page
table freed twice, the null pointer of `thread_create`; after a fault nothing is said.
`exit` is three actions: it starts (`Exiting`), closes files and may sleep there any
number of times (`ExitSleep`, for the log, a pipe or an inode), and then takes
`ptable.lock` and leaves.  `May` is the workload, a set of pairs of call and caller.

**Xem** keeps the two spinlocks apart: `xem_wait` holds `lk` into `sleep()`, which
takes `ptable.lock` before it frees `lk`; `xem_unlock` takes them in the same
order.  A thread whose index is `NTHREAD`, a legal one, can be refused by the queue, as the
scan for duplicates reads the field behind the array; it is then `Refused`: it sleeps
unqueued, and the permit counted for it is lost.  `Semaphore` allows that of one
thread (`Lose`).  **RWLock** builds on the semaphore without refusals: a call either takes
the permit or queues up, and a release passes the permit to the first waiter.

**Pipe.**  What runs with the pipe's lock held, from one sleep to the next, is one
step, except that `kill`, which takes only `ptable.lock`, may come between the
test of `killed` and the sleep.  `nread` and `nwrite` wrap at `UINT`, and start at
any value.

**Log.**  `home`, `logged` and `head` are the disk and survive `Crash`; all else is
memory.  Each block write is a step.  `log_write` is two steps, because the test of the
log size is made without `log.lock`; a modified buffer is locked from one to the other
(`buf`).  `lh.block` has `LOGSIZE` entries, and the log on disk one block less, for its
header: `log_write` panics at `LOGSIZE - 1` (a panic is a crash), but two operations
that pass the unlocked test together fill the last entry, whose block is then written
over the first block of the inodes (`INODESTART`, `overrun`).  Recovery shares
`install_trans` and `Erase` with the commit, as the code does, so a crash may also
interrupt a recovery.

**Spinlocks.**  Each path through the kernel is the list of what it does with
locks and the interrupt flag (`todo`); an `acquire` is `pushcli` and then `xchg`, and
an interrupt puts its handler's list in front whenever the flag is on.  `sched`
checks what the code checks (`LocksUsedRight`), and `kept` is `intena` on the
stack of the thread that is switched away from.  Whether the scheduler reads the ticks
once more after the switch depends on what it had picked; `uptime` allows both.

**Buffers.**  A process uses one block after another: it reads it, changes it for
the log (which keeps it dirty until it is written) or writes it at once.  What
runs under `bcache.lock`, under the spinlock of a sleep lock or under `idelock` is
one step each; the sleeps of `acquiresleep` and `iderw` can be ended by `kill`.  The blocks
of `FAULTY` are those for which `idewait` may report an error: `ideintr` then calls the
buffer valid without having read it, and no caller is told.

**Inodes.**  `pc[p]` is where a call is, with its registers `ip`, `dp`, `old`.  A step
runs from one sleep lock to the next.  `open`, `create`, `link`, `unlink`, `mkdir`,
`chdir` and `close` go through the same sub-steps as the code: `namex`, `ilock`,
`iput` with its two looks at the count, `itrunc`, `iupdate`.  Entries are functions
from names to numbers; **FileBlocks** has what is below: `bmap`, `writei` and
`itrunc` on a bitmap and blocks of `NINDIRECT` words, with the inode in memory and
on disk apart (`inode`, `dinode`), and the set of blocks given to the log.  A block of the
bitmap has the bits of `BPB` blocks, so that a disk has several of them; a full disk, a
block that is freed twice and the read of a hole panic (`panicked`), after which
nothing goes on.

**Descriptors.**  A thread has its table `ofile`; `fork` and `thread_create` copy
one, `exit` and `exec` close those of all threads of the process.  Steps end where
`ftable.lock` is let go; a slot of the table is a step of its own.  `raced` says
that a thread's table was closed or copied while the thread was in the middle of
a call on it: what follows is undefined, and not followed any further.

**Memory.**  The free list and the frames are one record `m`, operators map and
unmap pages in it, and every `kalloc` may be the one that fails.  A page has two
bytes.  The end of the module has the checks of `syscall.c` with unsigned addresses
that wrap, and `copyout`, on a page table of their own (`pages`); `uva2ka` adds a missing page
table to it, or reads a null pointer when there is no frame for one.  **Sbrk** runs threads
through `growproc` in three steps.

**Console.**  `r`, `w`, `e` are the three indexes modulo `UINT`, `keys` the keys still
to be handled; `committed` and `line` say what a user who sees the screen expects.

**The database.**  A call of **BufferPool** is one step, as it runs under
`buffer_pool_mutex` or in one thread.  Insertions and deletions unpin what they pin;
`db_find` and `db_update` leave the leaf they read pinned (`left`), and once every frame
is pinned `get_LRU_index` never ends (`endless`).  **BPTree** works on pages directly: the
refinement of `PageStore` is what justifies that.  A function that is passed a
copy of a page is an operator that is passed one, so that stale copies stay
stale.  In **Trx** a transaction is a thread; a mutex that is held while another is
taken is a variable.  A transaction may end up `hung`, where the code waits for
itself.

**The programs.**  A function that changes a structure through pointers is an
operator that returns it changed; loops are recursive functions or folds.  The
Shell's processes, and the reads of grep from the console, are actions.  A token or a
character of a program's text is a string of its own.  The scanner's directory also
holds the analyser, the code generator and the machine of TINY, the language of the
text book: **TinyCompiler** compiles its syntax trees and runs the code (`tm`), next to
what the program means.  The line tracer's first run ends for the model when `branch_list`
is full, as the code then writes on behind the array.

Mutants (`\* Mutant:` ... before a definition) are versions of that definition
with a plausible bug.  Nothing uses them; with one of them in place of the
original, a named property of a run is violated.

## 3. Runs

| Run | Instance | Distinct states | Shows |
|---|---|---|---|
| `mlfq` | 2 processes, 3 slots, all levels | 253 000 | FIFO refinement, where a duplicate can slip in, `NoStarvation` |
| `proc_kill` | 4 slots, 2 CPUs, 4 pids | 148 000 | wait, exit and kill: nothing missed, `ImplementsLifecycle` |
| `proc_thread` | 4 slots, 1 CPU, 2 thread ids | 243 000 | ring, `runblenum`, page tables, no runnable thread forgotten |
| `proc_live` | 3 slots, 1 CPU | 3 200 | `KilledDies` |
| `sync` | 4 threads on the lock; 4 on a semaphore with `NTHREAD` 4, indexes 4 to 7; 2 writers and a reader of a pipe of 2 bytes | 41 000 | refinements of lock and semaphore, no lost wakeup, everyone is served |
| `log` | 2 operations of up to 2 blocks, 4 blocks, a log of 3 and its header, 2 values | 984 000 | atomic, durable, reserved |
| `kernel` | see `MCKernel` | 2 916 000 | shares, spinlocks, buffers, console |
| `inodes` | 2 processes, 2 calls each, 3 file systems, 2 names | 1 637 000 | counts, locks, nothing in use freed |
| `database` | 3 frames for 4 pages; 3 transactions on 2 records | 848 000 | refinement of `PageStore`; two-phase locking |
| `programs` | see `MCPrograms` | 808 000 | every sequential part against what it should compute |
| `lock_order` | 2 CPUs, 2 threads | violation | `ptable.lock` and `tickslock` in both orders |
| `sbrk` | 3 threads, 9 frames | violation | two threads are given one page |

**Why the bounds are enough.**  A circular queue of three slots wraps after three calls,
is full with two entries and has every position of `head` relative to `tail`; for larger
ones there is the proof.  In the scheduler's part four processes fill the heap so far
that a sinking entry has two children; the constants keep the order of the real ones
(`HQUANTUM < MQUANTUM < LQUANTUM`, `CAP < TOTAL`) but let each threshold be crossed
within a few ticks.  Pass values are unbounded: the view of `Sched` keeps their
differences, which is all the code looks at while no int wraps, and the processes
without their names.  In `proc_kill` four slots allow a chain init, parent, child,
grandchild, needed for orphans whose new parent is not their grandparent, and slots are
reused because there are four pids for three free slots.  `proc_thread` has three
threads in a ring, the least for which the ring's order matters.  In `sync` the
semaphore has a waiter for each place in the queue but one, one of them with the index
that the queue may refuse, the lock two readers and two writers at once, in any roles,
and the pipe a writer whose bytes do not fit and another that waits behind it, with
counters that wrap.  In `log` two operations fill `lh.block` between them, so that
`log_write` panics, or, in a race, the last entry goes over the first inode block;
`begin_op` makes some wait.  Three buffers for four blocks are the least with which a
block leaves the cache and comes back while another is dirty: one for each process and
one that the log keeps.  The proof of section 5 holds for any of these numbers.  The
console's ring holds four characters and its indexes wrap at eight. Two processes and a
second thread, two pages for pipes and five calls let a file be shared in every way the
calls allow, and closed.  Two calls of each of two processes, on trees with a directory,
meet in every lock that Inodes has; the three file systems are an empty one, one with a
file, and one with a directory that has one.  A block of files has four words, so that
all four parts of the block map are reached with files of 90 blocks, and the disk has
several bitmap blocks; one disk is so small that it fills.  Trees, lists and tables are
given every sequence of calls until they have seven or more entries, which makes trees
of three levels split and merge.  Three transactions are the least with one that holds,
one that waits and one that comes behind, and two records may or may not be on one page.

**Views and symmetry.**  CPUs (`proc_kill`), processes (`inodes`), operations and blocks
(`log`, but for `INODESTART`), transactions (`database`) and the two processes that use
buffers or the console or spin (`kernel`) are interchangeable there and only safety is
checked; no run that checks liveness uses symmetry.  The views of `kernel`, `programs`
and `database` leave out pass values as such and the numbers of nodes and frames; no
property depends on them.

**Deadlock** is checked in `mlfq`, `proc_*`, `sync` (where the processes of a pipe stop
after they have closed it, and a semaphore that has refused a thread may come to a
standstill) and `log`.  In `proc_*` the kernel stands still after a `fault`.  In
`kernel`, `inodes`, `database` and `programs` the number of calls is bounded, and some
of them do end in a deadlock of the code (below), so that stopping is not an error by
itself.

### Fairness

* `Mlfq`: the loop of `scheduler()` never stops picking (strong fairness of
  `pickprocmlfq`, as other calls come between), and a boost, once due, runs to
  its end.  The boosts recur because picks do (`proc.c:526`).  `NoStarvation` is
  conditional: a boost that finds the top level full moves nothing, and with
  two entries of one index the top level can be full while a process waits
  below.
* `Proc`: every queued group is picked in the end (what `Mlfq` shows), a running
  process meets a clock tick, and one that gets the CPU again and again gets on
  with its call.  Who sleeps while it closes its files is woken in the end: the operations
of the file system, a pipe's other end and a disk request end.  Nothing is assumed of other
devices or programs.
* `Xem`: strong fairness, for each thread, of the steps that finish its call: it
  needs the spinlocks, which are free again and again.  `RWLock`: weak fairness
  of these steps suffices.  A thread outside need not come in, and one inside leaves.
* `Pipe`: a process that is not asleep goes on with its calls and closes its end in
  the end; nobody has to kill anybody.

### Violations and known defects

Two statements of the repository that the program does not keep:

* `lock_order`.  `scheduler()` takes `tickslock` with `ptable.lock` held (`proc.c:476`,
  `proc.c:490`), the timer interrupt calls `wakeup` with `tickslock` held
  (`trap.c:55`).  Interrupts that are off, which "avoid deadlock" (`spinlock.c:27`),
  help on one CPU only.
* `sbrk`.  `sys_sbrk` and `growproc` read and store the size of the process
  without a lock, and two threads are given the same addresses, while
  `test_thread2.c` expects each to own its piece.

Further workloads and instances violate a property; they are kept out of the runs
to keep these few.  With a configuration of the module named:

| Module, workload or instance | Property | What happens |
|---|---|---|
| `MCProc`, `MayForkInThread` | `ParentLive` | `exit` recognises the children of sibling threads by the pid of their parent after `clear_thread` has wiped these pids |
| `MCProc`, `MayExecInThread` | `NoLostRunnable` | after exec by a thread `scheduler()` tests `runblenum` of the old main thread and does not queue the process again |
| `MCProc`, `MayWaitThread` | `PageTableOwned` | the parent's `wait` takes an exited thread for a child and frees the page table its process runs on |
| `MCProc`, `MayKillZombie` | `KillEnds` | a zombie's ring leads into a reused slot and the walk of `kill` does not come back |
| `MCProc`, `MayKillFailed` | `KilledWasSignalled` | `kill` of a pid whose fork has failed marks a free slot, and the next process in it is born killed |
| `MCProc`, `MayKillReader` | `NoKilledSleeper` | `piperead` tests `killed`, a kill comes, and it sleeps all the same |
| `MCProc`, `MayFailTwo` | `RingIntact` | two threads of a process create threads, one fails: `CutOff` cuts the other one off |
| `MCProc`, `MayExitRunning`, 2 CPUs | `OneCpu` | `exit` frees threads that run on another CPU |
| `MCProc`, `MayThread` | `NoBreakdown` without its exception | no page for a kernel stack: `thread_create` uses a null pointer |
| `Xem`, `Threads = {2,3,4}`, `NTHREAD = 2` | `NoLostWakeup` without its exception | a thread whose idx equals the field read past the array is refused and sleeps unqueued |
| `Xem`, `ParentSpec` | `MutualExclusion` | the exit of a child wakes its parent, which takes that for the permit |
| `Log`, as in the run | `LogFits` | two operations pass the unlocked test of the log size together, and the last block goes over the first inode block; `param.h:11` has "max data blocks in on-disk log" for `LOGSIZE`, of which `mkfs` leaves one less |
| `Log`, as in the run | `Len(lh) < LOGSIZE - 1` at a `log_write` | the admitted operations need more blocks than the log on disk has, and `log_write` panics (`log.c:218`), though `begin_op` let them in |
| `Sched`, small `INT_MAX` | `NobodyAhead` | `mlfqpv` grows by about one per idle round and wraps |
| `Inodes` | `Reclaimed` | two `iput`s of the last two references look at the count before either lowers it: the inode is never freed |
| `Inodes` | `NoCircle` | `iunlockput` of a directory locks it again in `iput` while its entry is locked |
| `FileBlocks` | `WrittenThrough` | a write into a hole puts addresses into the inode and does not write it back |
| `FileBlocks`, as in the run | at most `MAXOPBLOCKS` blocks in an operation | a truncation or a write logs further blocks of the bitmap, of which the disk of 40000 blocks has ten, or one more indirect block in a file with a hole |
| `FileBlocks`, as in the run | no panic | a read of a hole calls `bmap`, whose `log_write` panics outside a transaction |
| `BufferPool`, as in the run | `~endless` | `db_find` and `db_update` never unpin their leaf: three finds pin all frames and the next search for one never ends |
| `Buffers`, `NBUF = 2` | no panic | with fewer buffers than processes and blocks in the log together, `bget` finds none; the constants of `param.h` (`NBUF` = `LOGSIZE` = 30) do not exclude it |
| `BPTree`, `project = 2` | `ValuesKept` | the merge of leaves copies a value from the page it copies to |

The passing runs leave these situations out by their workloads, which is why
the workloads are named after what they allow.  Others were seen while reading
the code for the models; each needs one sequence of calls and is left out of the
model or modelled without a property:

* Kernel: `dirlink` of a name that is its own directory locks it twice; `sbrk` down to
  zero frees the pages but returns -1 and keeps the size; `uva2ka` follows a null
  pointer when `kalloc` fails (`PagesExact` says where); `thread_join` writes past
  `stack[]` after `NTHREAD` threads; `thread_create` keeps the references it took when
  it fails; `mkfs` writes past `indirect[]` for a file of more than `NDIRECT +
  NINDIRECT` blocks and gives the root directory a size one block too large if its
  entries fill a block.
* Programs: of `a > x > y` the first file wins; `grep` drops a line longer than its
  buffer with all that follows, and a line from a pipe without its newline;
  `memmove` of `ulib.c` copies upwards whatever overlaps.
* Database: `trx_table_mutex` and `lock_table_mutex` are taken in both orders
  (`trx_manager.cc:40`, `lock_manager.cc:29`); on DEADLOCK `abort_trx` takes the mutex
  its caller has; a signal before `pthread_cond_wait` is lost; `detect_deadlock`
  calls itself with a mutex held; undoing counts down the wrong variable.  All are
  in `Trx`, whose transactions hang there.  `open_table` keeps the name of a table
  it could not open; `project1`'s `find_range` finds nothing when its start lies
  past the last key of a leaf.
* Data structures: `hw5_BST.c` loses a subtree when it deletes a root with one child
  or a left child with two; the search of the skip list goes below level 0 for an
  absent key; `hw7_dijkstra.c` reads `pos` before it is set when no vertex is left.
* Compiler: a function that has the name of a variable or of another function, or
  two parameters of one name, makes the analyser follow a null pointer
  (`AnalyzerExact` says that nothing else does).  LC-2K: `state.pc` is not set before
  it is used, and register 0 can be changed.

## 4. Properties worth a note

* `NobodyAhead` (Sched) is the promise of stride scheduling as an invariant:
  no pass value is ahead of the least one by more than a slice of its owner, or
  than that of the queues, at which a process that joins may start.  It needs the
  order of the heap, the base `minpv` that was read before the switch, and the
  rule for joining.
* `NoLostRunnable` and `RunnableCount` (Proc): a group is queued only when its
  count goes to exactly one, or when the scheduler that dispatched it finds the
  count positive.  One wrong count and the group is never queued again.
* `NoLostExit`, `NoKilledSleeper`, `SleepersHaveWaker`, `SleepersWaitForOthers`: the
  classical lost wakeups, over every interleaving.
* `ImplementsLifecycle`: pid by pid, orphans included, with slots reused.
* `NoLostWakeup` (Xem): who sleeps is in the queue, or a wakeup is on its way; only the
  index `NTHREAD` may be left out.  `CountIsBalance` counts what such a loss costs.
* `Reserved` (Log): the blocks logged and those that admitted operations may still add
  have entries in `lh.block`; block numbers may coincide at any time.  It does not say that
  they fit the log on disk, which has one block less: there `log_write` panics.  `OpFits`
  (FileBlocks) is the other half: what a write of `filewrite`, unaligned and across
  indirect blocks, or a truncation gives to the log is at most `MAXOPBLOCKS` blocks, plus
  the blocks of the bitmap after the first, plus one in a file with a hole.  The code
  reserves `MAXOPBLOCKS` for all of them; the excess is a defect, and the bound is reached.
* `FileExact`: a file reads as written, and panics only where it has a hole.
* `RingsSound`, `NobodyForgotten` end with a `fault`, of which the only one that may come is
  the null pointer of `thread_create`.
* `ImplementsAtomicDisk`: the state after a recovery that starts now is always
  one the blocks had when no operation was under way.
* `ReadsLatest`, `OneUser` (Buffers): a reader of a block sees what was written last,
  unless the disk may fail on the block, although buffers are recycled under another
  lock than the contents. `BufferFound` says how many buffers are enough, and is vacuous
  with fewer; the other parts of `BlocksCached` do not depend on it.
* `RefsCounted`, `LinksCounted` (Inodes): counts are compared with the pointers in
  calls at any point, open files and directories, not with a second counter.
* `FreeListsAgree`, `ImplementsPageStore` (BufferPool): the copy of the free list in
  the buffered header and the one in the file run in step, whatever is evicted.
* `CleanRead`, `NoLostUpdate`, `UndoExact` (Trx): pages are written back whole from
  copies, and yet no record is lost.
* `RunsSource` (LC2K): each machine step does what the source line says, as a
  refinement of an interpreter of the source.
* `AnalyzerExact`, `SyntaxExact`: the compiler against the language, with trees
  written out and read again, and typing by environments instead of tables.

## 5. Proofs

Each theorem holds for every value of the constants that the named assumptions
allow; TLC evaluates the assumptions in the runs, and has checked each inductive
invariant on the instance of its run before it was proved.

| Theorem | Says | Module |
|---|---|---|
| `TypeCorrect`, `DuplicatesOnlyThere`, `FifoRefinement` | `TypeOK`, `DuplicateOnlyAcrossWrap`, `ImplementsFifo` | `MlfqProofs` |
| `TableAlwaysSound`, `ExitsNeverLost`, `KillsAlwaysArrive`, `LifecycleRefinement` | `TableSound`, `NoLostExit`, `KillsArrive`, `ImplementsLifecycle`, all without threads | `ProcProofs` |
| `WriterAlone`, `CounterExact`, `LockRefinement` | `WriterExclusion`, `ReaderCount`, `ImplementsLock` | `SyncProofs` |
| `SemaphoreExact`, `WakeupsArrive`, `PipeKeepsBytes`, `SyncRefinement` | `OneHolder`, `NobodyLeftAsleep`, `PipeExact`, `ImplementLocks` | `SyncProofs` |
| `SpaceAlwaysKept`, `AlwaysDurable`, `LogRefinement` | `SpaceKept`, `Durable`, `ImplementsAtomicDisk` | `LogProofs` |
| `CacheCorrect` | `BlocksCached` | `BuffersProofs` |
| `LocksAlwaysGranted`, `RecordsAlwaysKept` | `LocksGranted`, `RecordsKept` | `TrxProofs` |
| `LocksAlwaysUsedRight` | `LocksUsedRight` | `SpinlocksProofs` |

**CircQueueProofs** has the lemmas about the circular queue that the ready queues
and the semaphore share, for every capacity.  They settle the arithmetic of the
cursors (`ModValue`), then what `Enqueue` and `Dequeue` do to the sequence `Contents`,
then that a refusal has a reason: the queue is full or the index is in it, although
the scan reads past the array.  `WellFormed` says that every slot between the
cursors holds an index, that a slot `head` has passed on this lap holds -1, and
where an index may be twice (`OnceEach`).

**MlfqProofs.**  For every `NPROC >= 1` with `MAXCAPACITY = NPROC + 1`.  Type
correctness is not enough for the refinement: the inductive invariant `Inv` adds
that the three queues are well formed, so that a dequeue returns an index, and a
duplicate can only be in slot 0 while `head` is on the last slot.  `StepFifo` maps each
action to `Append1`, `Refuse`, `Take`, `TakeNothing`, `Promote` or a stutter.

**ProcProofs.**  For any numbers of slots, CPUs and pids (`ProcAssumption`), and for
programs that create no threads: `Unthreaded` says that the workload `May` has no
`thread_create`, and leaves fork, exit, wait, kill, exec, reads of a device and forks
that find no memory, by any process in any order.  The workload of the run `proc_kill`
is one of them.  Without a restriction the theorems would be false: `ParentLive` and
`OneCpu`, two parts of `TableSound`, fail for workloads with threads (the table of known
defects).  What holds with threads, the ring and the count of the runnable ones, stays
with the run `proc_thread`. The inductive invariant `ProcInv` has three parts beside the
types.  A process is a ring of one thread (`Alone`), so that every walk along a ring
ends at once; pids are below `nextpid` and told apart, except in slots that are free
(`Numbered`).  Where a process is in its system call fits its state: who sleeps is in
`wait()` on its own slot, in a device or in `exit`, and a slot that a fork is filling
belongs to one fork (`PlaceAt`).  A parent is a process that has started, is another
one, and has not exited (`Parented`).  `NoLostExit` is itself a part: it holds because
the lock is kept from the scan of `wait()` to its sleep, and whoever exits or passes a
child to init wakes the parent, but for the proof one has to know that the parent is
asleep on its own slot. `KillsAlwaysArrive` needs `KillsInv` beside it and fewer
programs (`Plain`), and leaves out who sleeps while it closes its files, where a kill
only wakes it: with a sleep in a device or a fork that fails it is false, as the
workloads `MayKillReader` and `MayKillFailed` show. For the refinement, `LifeStep` says
what a step does to the processes with a pid, without their slots: each lemma `...Lives`
shows it for one kind of step on the table (`AllocStep`, `PublishStep`, `AbandonStep`,
`ReapStep`, `Exited`), and `LifeGoesOn` turns it into a step of `Lifecycle`, whose
variables are looked up by pid.

**SyncProofs, the lock.**  For every finite set of threads.  Exclusion is not
inductive: it rests on who holds which semaphore.  `IInv` adds that a thread is
in the queue of the semaphore it waits for and in no other (`QueuedAt`), that
each of `starvlock` and `racelock` has one holder or is free (`EachHolder`, `Free`),
that a reader between its update of the counter and `sharelock` is the only one
(`PendingAlone`), and that `sharelock` belongs to one writer or to the readers
together (`ShareOwner`).  `WaitEffect` and its like state once what a semaphore call
does.  The readers and writers of `SharedExclusive` are the threads that read and
write.

**SyncProofs, the semaphore and the pipe.**  About the specification of the run `sync`,
in which the lock, the semaphore and a pipe take their steps in any order.  The
invariant of the semaphore, `XInv`, has three parts: the line of waiters (the circular
queue, well formed) holds each waiter once (`LineOK`); where each thread is in its call
says which spinlocks it holds and whether it is in the line (`PlaceOK`); and the permit
is free exactly when nobody is inside, with nobody waiting for it (`PermitOK`).  A
waiter that is dequeued is asleep or has `ptable.lock` on its way there, as `lk` is held
from queueing up to then; this is why no wakeup is lost.  `SemaphoreAssumption` allows
at most `NTHREAD` threads (`param.h:16`, which `thread_create` does not enforce), with any
indexes.  The index `NTHREAD` is the one that the duplicate scan may meet in the
field after the array and refuse (the table above).  The invariant then says that nobody
else is ever refused, and that who is keeps its permit from the others (`PermitOK`), so
that the count is exact in either case.  The invariant of the pipe, `PInv`, says that the
difference of the counters, modulo `UINT`, is the number of bytes in flight, that these
are in the ring in order (`Ring`), and what a sleeper on either end waits for
(`ReaderOK`, `WriterOK`). `PipeAssumption` asks that the counters wrap at a multiple of
the ring's size, which 2^32 and 512 do.

**LogProofs.**  For any finite sets of operations and blocks, any `MAXOPBLOCKS` and any
`LOGSIZE` at least as large (`LogAssumption`), with a crash possible between any two
disk writes.  `IInv` says what each stage of `commit` and of recovery finds: the header
on disk is empty while the system is up (`StageInv`, `Headers`); the cache differs from
the home blocks only on blocks of the transaction (`DirtyOnly`); from the write of the
header to its erasure the log's blocks are what the cache holds (`Copied`), and each
turn of `install_trans` brings one more home block up to its copy (`Installed`).  What a
recovery that starts now would restore, which is the state of `AtomicDisk`, changes only
with the write of the header.  The space in the log is counted over the operations: what
is logged and what each may still add has entries in `lh.block`. `Durable` and the
refinement speak of the time before `overrun`: with the entry `LOGSIZE`, which only a
race of two `log_write`s can add, a home block is overwritten before the commit and
neither holds.

**BuffersProofs.**  For any finite set of processes and any numbers of blocks, buffers
and dirty buffers (`BuffersAssumption`).  `IInv` has thirteen parts.  A buffer in the
disk's queue is locked by a process that waits for it (`QueueHeld`) and is there once
(`QueueOnce`), so that its contents and its flags stay as they are until `ideintr`;
where a process stands determines the flags of the buffer it holds (`AllFlags`); a block
that differs from its copy on disk has a dirty buffer (`OnDisk`), which is not recycled
(for the blocks of `FAULTY` nothing is said about the contents read); a count is the
number of users (`Counted`).  For `BufferFound`: a buffer that is not free has a user or
is kept by the log, which keeps `MAXDIRTY` of them at most (`Room`), so that with `NBUF
>= Cardinality(Procs) + MAXDIRTY` a process that comes for a buffer finds one
(`FreeOne`).  The code does not guarantee the premise, which is why it stands in the
property and is not an assumption.

**TrxProofs.**  For any transactions, records, leaves and bound on the calls, with the
records on the leaves in any way; `TrxAssumption` only keeps the null pointer apart.
Two invariants, the second on top of the first.  `LocksInv` is about the list of locks
of each record and about where each thread is in `lock_record`, `lock_acquire` and
`lock_release`.  Of the list: a transaction has at most a granted shared lock and, behind it,
the exclusive one it asks for (`Pairs`), of two locks that conflict the later one waits
(`InOrder`), and a reader points to the last exclusive lock before it (`Behind`).
Of the threads: what one has found out about the list is still true when it acts on it
(`FoundAt`), because it has had `lock_table_mutex` since (`Sections`); a lock that waits
belongs to a thread that is asking for it (`WaitsAt`), so that a transaction that ends
or is aborted has none; who works on a record has its lock (`WorksAt`).  The delicate
step is the release: the lock that leaves the list was granted, so none before it
conflicts with it, and whoever is woken is the first of those that conflicted.
`RecordsInv` adds that a thread's copy agrees with the page while it has the latch
(`CopyAt`), that a value that is not committed belongs to the transaction with the
exclusive lock, which has logged it or is about to (`ValueOf`), and that a transaction
still has the exclusive lock of whatever it has logged (`LogOf`); an abort can hence undo in
the order of its log without meeting a later value of another.

**SpinlocksProofs.**  For any CPUs and processes that are told apart (`Distinct`: a CPU is
neither a process nor the null CPU), and whichever CPU counts the ticks.  That
interrupts are off is not inductive: the state
that matters is spread over the CPU (`ncli`, `intena`), `sched()`'s local variable and the
path that each kernel thread still has to go.  `SpinInv` reads the locks of a thread off
that path: those it will release before it takes them again (`Locked`).  `Path` says that
every path fits: no lock is taken twice, threads are switched and processes picked
with `ptable.lock` and nothing else, handlers do not nest and return without a lock.  A
CPU has exactly the locks of the thread it runs, and `ncli` counts them
(`Agrees`); a thread that was switched out has `ptable.lock` in its path, which its CPU
keeps for the next thread (`Parked`); within a handler `intena` is off,
or `sched()` has saved that it was, whatever CPU the thread comes back on.
Lemmas about paths (`Walk`, `Cons`, `Concat`) say what a step and a handler in front
do to the locks; `Starts`, `Rounds`, `Handlers` and `Forked` show that every path
of the module is one.  What is not true is the
absence of deadlock: the run `lock_order` has the two CPUs that wait for each other.

**Only model-checked:** liveness (`NoStarvation`, `EveryoneServed`, `KilledDies`), since
fairness and `ENABLED` are out of the prover's reach; recursive functions over data,
as in the heap of `Sched`, `BPTree`, the compiler and all of `MCPrograms`, for which an
induction theorem with an operator as parameter would be needed; and the
state machines without a proof: `Proc` with threads (`NobodyForgotten`, `RingsSound`, and the
properties above where threads are created), `Sched` (`SharesKept`, `NobodyAhead`),
`Inodes` (`CountsExact`, `NothingLost`), `Console` (`LinesKept`), `Descriptors`
(`DescriptorsCounted`) and `BufferPool` (`PagesKept`).  The first invariants of these
need the sum of a set of counts or a walk along a list of pointers, which the modules
write with folds; what a fold computes is again an induction over data.

## 6. Not modelled

* Boot, trap entry, page-table hardware, the drivers of the timer, interrupt
  controllers, UART and screen: no control beyond what `Spinlocks`, `Buffers` and
  `Console` have.  Output to the console is not modelled.
* `procdump`, the loading of segments in `exec`, and the shell's `cd` and prompt.
* `kill(1)` and `kill` of the pid 0 of free slots: the first panics the kernel by
  design (`init exiting`), the second only touches free slots.
* A null `parent` is read by `exit` (`p->parent->pid`); in the model a null
  parent has no pid.  The address is mapped in xv6 and holds no pid that is used.
* `thread_create` without a free slot goes on with a null pointer, as it does without a page
  for a kernel stack, which is modelled; the bound on thread ids keeps the runs away from it.
* Several CPUs in `Sched`: `passti` is shared between CPUs and `pbcount` is not.
* The contents of user memory while threads of a process run in parallel.
* The crash of `kill(2)`'s target in the middle of a file-system call: `Inodes` has
  the failures of the calls themselves only.
* The tests of xv6 (`usertests.c` and the project's own): programs that call the
  kernel, whose results the kernel's models decide.
* The parser of TINY in `1_Scanner` (its tree type is not the one the generator there
  reads) and the copies of generator and machine in the later compilers.  None of
  the three builds includes the generator (`NO_PARSE`, `NO_ANALYZE` and `NO_CODE` in
  their `main.c`); `TinyCompiler` takes the files of `1_Scanner` as they stand.
* `project2` to `project4` of the database: earlier states of `project5`, of which
  `BPTree` keeps one, the redistribution of `project2`.
* Java and graphics assignments: user interfaces and drawing.

## 7. Plan

1. Proofs: the ring of `Console` for every size; `QueuedOnce` of `Sched`; the refinement of
   `PageStore`; the invariants of `Proc` with threads, part by part.
2. `Sched` on several CPUs, with the shared `passti`.
3. The contents of user memory under threads, with `Memory` and `Sbrk` in one
   state machine.
4. `Inodes` on top of `Log` and `FileBlocks`, so that a crash comes between the
   calls.
