# A TLA+ model of the xv6 of this repository

The repository holds three copies of the teaching kernel xv6 (x86) and the
experiments made with them:

- `src/xv6-public-master`: the kernel as published, with a round robin scheduler;
- `src/xv6-funciona_sem_metrica`: the same kernel, with programs that compute and
  that do input/output, started in 30 rounds and not yet measured;
- `src/xv6-add_FAIRNESS`: the last version, with the priority scheduler, the
  programs that load the machine and the four metrics printed at the end
  (throughput, CPU fairness, file system efficiency, memory overhead).

The modules here are translated from `src/xv6-add_FAIRNESS` unless they say
otherwise; file names below are relative to it.

## 1. Inventory

### Components, their state and their operations

| component | state | operations | what makes it correct |
|---|---|---|---|
| process table, scheduler (`proc.c`, `trap.c`) | `ptable.proc[NPROC]` (state, pid, parent, chan, killed, priority), `nextpid`, `cpu.proc`, `ptable.lock` | fork, exit, wait, sleep, wakeup, kill, yield, sched, scheduler with its aging loop | no process on two CPUs, no stack freed in use, no lost exit or wakeup, no orphan, the life cycle of a slot, priorities in range; a RUNNABLE process gets the CPU |
| redo log (`log.c`) | `log.lh`, `outstanding`, `committing`; on disk the header, the log blocks, the homes | begin_op, log_write, end_op, commit, recover_from_log | calls are atomic across crashes and durable when the last end_op returns; the log never overflows; nobody sleeps for ever in begin_op |
| buffer cache (`bio.c`) | the LRU list of `buf`, refcnt, B_VALID, B_DIRTY, a sleep lock each | bget, bread, bwrite, brelse | one buffer per block; no update lost when a buffer is recycled |
| disk driver (`ide.c`, `memide.c`) | `idequeue` | iderw, idestart, ideintr | each request served once, in order, its process woken |
| locks (`spinlock.c`, `sleeplock.c`) | locked, cpu, pid; `ncli`, `intena` | acquire, release, pushcli, popcli, acquiresleep, releasesleep | mutual exclusion, no lost wakeup, interrupts restored |
| inodes (`fs.c`) | `icache.inode[NINODE]` (ref, valid, nlink), bitmap, inode blocks | ialloc, iget, iput, ilock, itrunc, dirlookup, dirlink, namex | an inode freed only when unlinked and unreferenced |
| files, system calls (`file.c`, `sysfile.c`, `exec.c`) | `ftable.file[NFILE]`, `ofile` | filealloc, filedup, fileclose, read, write, open, link, unlink, mkdir | reference counts; link counts match entries; no lock order cycle |
| pipes (`pipe.c`) | `nread`, `nwrite` (32 bits), `readopen`, `writeopen` | pipewrite, piperead, pipeclose | bytes in order, none lost; a closed end wakes the other |
| console (`console.c`, `kbd.c`, `uart.c`) | the input ring (r, w, e) | consoleintr, consoleread, panic | lines delivered once |
| time (`trap.c`, `sysproc.c`) | `ticks` (32 bits) | timer interrupt, sys_sleep, sys_uptime | a sleeper wakes after n ticks or when killed |
| memory (`kalloc.c`, `vm.c`) | the free list, page tables | kalloc, kfree, allocuvm, copyuvm | a page belongs to one owner |
| experiment (`user/run_experiment.c`, `cpu_bound.c`, `io_bound.c`, `utils.c`) | arrays of times, per round | start and reap 20 processes, print the metrics | every process reaped; metrics within the range of their definition |
| user allocator (`umalloc.c`) | the circular free list | malloc, free | blocks disjoint |
| load of the experiment (`user/cpu_bound.c`) | the matrix of a random graph, `dist`, `visited` | draw a graph, Dijkstra's algorithm | the distances are those of shortest paths |
| descriptors (`file.c`, `sysfile.c`) | `ftable.file[NFILE]` (ref, type, pipe), `ofile` of each process | filealloc, filedup, fileclose, pipe, open, dup, close, fork, exit | as many references as descriptors, whatever fails |
| mkfs (`mkfs.c`) | the image, `freeinode`, `freeblock` | ialloc, iappend, balloc | an image that the kernel may start from |
| shell, init (`sh.c`, `init.c`) | the line, the tree of the command, descriptors of the processes | gets, parsecmd, runcmd, the loop of init | lines mean what the grammar says; a pipeline ends |
| boot, assembly, `usertests` | - | - | not modelled |

### How they interact

- `trap()` calls `yield()` on a timer interrupt and `exit()` for a killed
  process; the interrupt handlers of disk, keyboard and timer call `wakeup()`.
- Everything that waits does so through `sleep(chan, lk)`, which exchanges `lk`
  for `ptable.lock`, and everything that wakes calls `wakeup(chan)`.
- `ptable.lock` is held across `swtch()`: taken by the process that gives up the
  CPU, released by the scheduler, and the other way round.
- A file system call runs between `begin_op()` and `end_op()`, takes buffers from
  `bio.c` (which takes them from `ide.c`), and hands changed ones to
  `log_write()`, which pins them in the cache with B_DIRTY until commit.
- `forkret()` of the first process runs recovery before any call.

### What is hard here

Sections that look atomic and are cut by a context switch (`sched()`); accesses
without the lock (the aging loop, `allocproc()` after its release, the test at
the head of `log_write()`); interrupts that take the locks of what they interrupt;
crashes between any two disk writes; reservation of log space by calls instead of
by blocks; the starvation a priority scheduler invites; slots, buffers and inodes
that are reused while somebody still refers to them; error paths that must give back
what they hold; directories locked in an order that the tree does not fix; counters
that wrap. The file `PROJECT.json` lists these hazards line by line, with the property
that covers each, or the reason why none does.

## 2. The modules

| module | what it models | abstract specification | proofs |
|---|---|---|---|
| `Proc` | process table, priority scheduler, `ptable.lock` | the life cycle of a slot (`LegalTransitions`) | `ProcProofs` |
| `RoundRobin` | the scheduler it replaced; extends `Proc` | | |
| `Spinlock` | spin locks, `pushcli()`, interrupts, `intena` across `sched()` | | `ServiceProofs` |
| `SleepLock` | sleep locks over `sleep()` and `wakeup()` | `Mutex` | `ServiceProofs` |
| `Ticks` | the clock and `sys_sleep()` | | `ServiceProofs` |
| `Log` | the redo log, with crashes | `AtomicStore` | `LogProofs` |
| `Bcache` | buffer cache and disk driver | `BlockStore` | `StorageProofs` |
| `FileData` | bitmap, block maps, `writei()`, `filewrite()` | | `StorageProofs` |
| `FileSys` | names, links, the inode cache and its locks | | `NameProofs` |
| `Pipe` | pipes and the references to their ends | `ByteStream` | `PipeProofs`, `Rings` |
| `Console` | the line editor and its readers | `LineBuffer` | `FileProofs`, `Rings` |
| `Memory` | pages and address spaces | | `ServiceProofs` |
| `Umalloc` | the allocator of user programs | | |
| `Experiment` | `run_experiment()` and its metrics | | |
| `CpuBound` | the graph and its shortest paths | | `ServiceProofs` |
| `Descriptors` | `ftable`, descriptors, calls that run out of either | | `FileProofs` |
| `Mkfs` | the image that the kernel starts from | | |
| `ShParser` | the line and its parser | the grammar, split at operators | |
| `Shell` | `runcmd()`, init, the processes of a command; extends `ShParser` | | |

They are layers of one kernel, and each stands on what the one below it promises: `FileSys` and
`FileData` take a system call's blocks to change at once, which is what `AtomicStore` says of
`Log`; `Log` takes a block to have one buffer, which is `BlockStore`; `Bcache` takes sleep locks to
be a `Mutex`; `SleepLock` takes `ptable.lock` to exclude, which is `StackSafe` and
`OneCpuPerProc` of `Proc`; and `Proc` takes sections under a spin lock to be atomic on
their CPU, which is `NoSelfDeadlock` of `Spinlock`.

The modules whose names begin with `MC` give the constants small values. `MCKernel`, `MCLog`, `MCSched`,
`MCStorage` and `MCFiles` each put several modules side by side: the modules share no variable, `part` says
which one moves, and the others do not, so that the states are the sum of
those of the modules and not the product. A property of a module says there exactly what it says
of the module alone.

## 3. `Proc`: the process table and the scheduler

**State.** The fields of `struct proc` are functions over `Slots = 1..NPROC`;
`pc[p]` says where the process in a slot stands between two actions; `np` is
`fork()`'s local of that name; `cpuProc[c]` is `c->proc`; `plock` is the CPU that
holds `ptable.lock`. The context of a CPU is not a variable: `cpuProc[c]`,
`state` and `plock` determine who executes on it.

**Actions.** A section from `acquire(&ptable.lock)` to `release` is one action.
Where the section crosses `swtch()` it is cut:

| code | actions |
|---|---|
| `fork()`, `allocproc()` | `ForkAlloc`, `ForkNoSlot` (locked), `ForkNoMemory`, `ForkCopy` (unlocked), `ForkDone` (locked) |
| `exit()` | `ExitCall` (files, `init exiting`), `ExitDone` (wakeups, reparenting, ZOMBIE, into `sched()`) |
| `wait()` | `WaitCall`, then with the lock held `WaitReap`, `WaitFail` or `WaitSleep` |
| `sleep()`, `wakeup()`, `kill()` | `SleepOn`, `WakeUp`, `Kill` |
| `trap()` | `EnterKernel`, `LeaveKernel`, `Yield` |
| `scheduler()` | `Pick` (scan and `swtch`), `Resume` (the process releases), `SchedReturn` |
| the aging loop | `AgeState`, `AgeLoad`, `AgeStore`: one access to memory each |

`p->priority--` in the aging loop is a load and a store of the register less one,
which is what gcc -O2 makes of it: the test `> 0` and the decrement use one load.
Other accesses without the lock are aligned words, atomic on x86.

**Abstractions.** Memory is the choice between `ForkNoMemory` and `ForkCopy`;
what a process does in user mode or in a system call is reduced to the calls that
reach the process table; `exec`, files and page tables do not appear; `wakeup()`
may come at any time (an interrupt, another process). `setpriority()` has no
caller and no system call number, and is left out, with `procdump()`; `growproc()` is in `Memory`. Memory is sequentially consistent (x86 with `xchg` locks; the
unlocked stores are to words nobody else writes, but for the priorities, whose
races the three actions of the aging loop show).

**Bounds.** Up to four slots, one or two CPUs, `nextpid` up to `MaxPid + 1` (a real system would go
on to 2^31; pids beyond initproc's let a slot be freed and used again), initial priority
1 (10 in the code: what matters is equal, above zero, and zero). Three slots are a parent, a child and a
grandchild to be passed to initproc; the wakeup of initproc in `exit()` matters only with a fourth, which
`kernel` has; two CPUs are enough for each pair of sections to race, and one of them runs the
aging loop. The free interleaving of `sleep()` and `wakeup()` on channels other than a parent's is
left to `sched` (one channel).

**Fairness.** `WF(CpuStep(c))`: a CPU that can execute does. `SF(Yield(c, p))`: the
timer interrupt stays pending while interrupts are off and is delivered when they
are on again, so that a process that runs with interrupts on again and again is
interrupted. For the run that shows starvation, `BestCaseSpec` adds that system calls
end (`KernelFinishes`), so that the counterexample owes nothing to a stuck call.

| run | what is asked | result |
|---|---|---|
| `kernel` | `TableInv`: the inductive invariant `IInv` (with `TypeOK`, `OneCpuPerProc` and `ParentAlive`), `StackSafe`, and `PInv`, the priorities while the aging loop races with yields; `NoMissedChild`, `LegalTransitions` | holds, 1 087 000 states with the services of section 7 |
| `sched` | `TopPriorityRuns` | holds |
| `proc_starve` | `NoStarvation` | violated: see findings |
| `proc_born_killed` | `NewProcessNotKilled` | violated |

### `RoundRobin`: the scheduler that was replaced

`RoundRobin` extends `Proc` with the scheduler of `src/xv6-public-master/proc.c`:
`fork`, `exit`, `wait`, `sleep`, `wakeup` and `kill` are the same lines there, and
its instances set `InitPriority` to 0 and run no aging loop, which leaves the priorities
out. The one new variable, `scan[c]`, is the loop variable `p` of a CPU's scheduler. A
round is `RRPick` (the next RUNNABLE slot after `scan`), `RRReturn` (the process comes back and
the loop goes on behind its slot, *with* `ptable.lock`) and `RRLoopEnd` (release).

In `sched` it has `NoStarvation`, the property that `proc_starve` refutes, with one CPU and three slots.
`RRFairSpec` assumes the fairness of `FairSpec` and not that system calls end, so that the pair
isolates the scheduler: the published one starves nobody, the
modified one does, under stronger assumptions. `NoStarvation` is checked on one CPU only: with two,
it would need a fair spin lock, which `xchg` is not.

## 4. `Log` and `AtomicStore`: the redo log

**State.** The disk is `home`, `logData` and `head`; the memory is the cache
(`cache`, `cached`, `dirty`), `log.lh` (`lh`), `outstanding` and `committing`; `phase`
and `tail` are the program counter of `commit()` or of recovery, of which one runs
at a time. `wset` is the set of blocks a call has logged, `hold` the buffer it has
locked.

**Actions.** `BeginOp`/`BeginSleep` are the loop of `begin_op()`; `Modify` is
`bread()` and the caller's change under the buffer's lock; `log_write()` is cut in
two, `LogCheck` (its tests, made before `log.lock` is taken) and `LogAppend`;
`EndOp`, `EndOpLast`, `EndCommit` are `end_op()`; `WriteLog`, `WriteHead`, `Install`,
`ClearHead` are one `bwrite()` each; `ReadHead` and `BootDone` with `Install` and
`ClearHead` are recovery. `Evict` is `bget()` taking a clean buffer, and `Crash` may
come between any two steps, also in recovery. A block is written to the disk in
one step, which is what the log relies on. A panic stops all calls until a crash.

**The abstract store.** `AtomicStore` has no log: calls write to a `view`; in one step,
when no call is under way, the view becomes `durable`; the last `end_op()` returns
only after that; a crash takes the view back to `durable`. `Log` implements it under
the mapping `durable <- Replay`, the disk as recovery would leave it: this is what
`CrashAtomic` checks.

**Bounds.** Two processes and two blocks of two contents, so that a group can hold two calls, one
call two blocks, and a crash can leave any mixture; a log of four blocks of which each call reserves
two, so that a call that begins again before its group has committed finds no room
(30 and 10 in the code).

**Fairness.** A process that has changed a buffer goes on to log it; a file system call
makes finitely many writes, so that it ends if it can again and again; the disk
answers. Nothing is assumed of `Crash` or `BeginOp`.

| run | what is asked | result |
|---|---|---|
| `log` | the inductive invariant `IInv` (with `TypeOK`, `NoLostUpdate`, `NoLostWakeup`, and what `CommitAlone` says), `CrashAtomic`; `SleeperWoken` | holds, 356 000 states with the console and the memory of section 7 |

*The size of the log.* `begin_op()` hands out `LOGSIZE` blocks, and the log that `mkfs` makes holds
`LOGSIZE - 1` besides its header; `log_write()` has a test for that, made before it takes
`log.lock`. With calls that use all of their reservation two of them can pass the test for
the last block together. The system calls of this kernel do not use all of it (`TransactionFits` has the
largest), so that this stays a remark: `IInv` says that the group never grows past `lh.block` in memory,
which `GroupFits` proves without the help of that test.

## 5. `Pipe` and `ByteStream`

**State.** `data`, `nread`, `nwrite`, `open` (`readopen`, `writeopen`) and `lock` are `struct pipe`;
`holders[e]` are the processes with a descriptor of an end, whose number is `f->ref` of its `struct
file`; `rem[p]` are the bytes that the loop of `pipewrite()` has still to copy; `freed` counts
calls of `kfree()`, `ret` is what the latest call to end has returned.

**Actions.** A stretch with `p->lock` held that does not sleep is one action: `WriteAll`, `WriteFail`,
`ReadBytes`, `ReadFail`, `PipeClose`. Where a call goes to sleep it is cut between the test of
`killed` (`WriteFull`, `ReadEmpty`, which leave the lock with the process) and `sleep()`
(`SleepOn`), since `kill()` needs `ptable.lock` only. `FileClose` is `fileclose()` up to the
release of `ftable.lock`; the last reference goes on to `PipeClose`. `exit()` closes
the two ends in either order, as `dup()` can have arranged them.

**The stream.** `ByteStream` is one bounded queue: a write that succeeds has put in all of its bytes,
a read takes a prefix and finds the end only when the queue is empty and no writer is left.
`IsStream` checks that `Pipe` implements it, with the queue read off the ring.

**Left out.** `pipealloc()` and `sys_pipe()` that fail (`Descriptors` has them); reads of no bytes (they wait like others);
a copy to or from user memory cannot fail here, `argptr()` has checked the address.

**Bounds.** Two bytes of ring and counters modulo four, the least with a ring that wraps and
counters that wrap elsewhere than at each turn of it; messages of three bytes, so that a write
sleeps half way; three processes, so that two can sleep at one end (they are alike: `SYMMETRY`).
`sched` and `pipe_kill` have two processes and one byte of ring.

**Fairness.** A process in the kernel goes on, and one that has been killed takes a trap (`FairSpec`);
spin locks may be unfair. `pipe_kill` refutes `KilledExits` even for fair ones (`BestCaseSpec`).

| run | what is asked | result |
|---|---|---|
| `pipe_stream` | `NoLostWakeup`, `FreedLast`, `IsStream` | holds, 1 224 608 states |
| `sched` | `EofReached` | holds |
| `pipe_kill` | `KilledExits` | violated |

## 6. Storage: `Bcache` with `BlockStore`, `FileData`, `FileSys`

### `Bcache` and `BlockStore`: the buffer cache and the disk driver

**State.** `lru` is the list that `bcache.head` starts, first buffer first; `block`, `valid`, `dirty`,
`data`, `refcnt` are the fields of `struct buf`, `lock` its sleep lock; `idequeue` is the queue of
requests and `drive` what `idestart()` has told the drive; `cur[p]` is the buffer that the call of a process
is about.

**Actions.** `BgetHit`, `BgetMiss`, `BgetPanic` are the section of `bget()` under `bcache.lock`; `Lock` is
`acquiresleep()`, and the rest of `bread()` up to the sleep in `iderw()`; `LogWrite` and `Bwrite` are what the
log and the file system do with a buffer they hold; `Unlock` and `Release` are the two
halves of `brelse()`, which has no lock in between; `IdeIntr` is the drive's answer with `ideintr()`, `IoTest` the
loop of `iderw()`, and `Kill` the wakeup that `kill()` gives a process which sleeps there before the drive has answered: it finds its
request not served (`Undone`) and sleeps again. The client follows the rules of `log.c` and `fs.c`: at most two buffers at a time,
in the order of their numbers.

**The store.** `BlockStore` is one copy of each block, one owner at a time, and a disk that gets a block only from
its owner. `IsStore` says that `Bcache` implements it: the recycling of buffers, the queue and the
races in `bget()` and `brelse()` do not show.

**Left out.** A read error: `ideintr()` then sets B_VALID on a buffer it has not filled
(`Outcomes = {TRUE}` in the run and in the theorem about the store; with `FALSE` among the outcomes
`IsStore` fails at once, and nothing in the source says what should happen).

**Bounds.** Two processes, two buffers, three blocks of two contents and one pinned block: a block always has
to displace another, `bget()` can run out of buffers, and both processes can wait for the
same buffer.

**Fairness.** The drive answers a request that it has been given, and a process that has been woken runs.

### `FileData`: blocks, maps and the contents of files

**State.** `bitmap` is the set of blocks in use, `words` what blocks hold, `addrs` and `size` the inode in memory, `dinode`
the one on disk, `ilk` who holds its sleep lock, `off` the offset of the open file of each inode, `op[p]` the locals of `filewrite()` and the set of blocks that its
transaction has logged.

**Actions.** `Write`, `Chunk`, `Bmap`, `Copy`, `EndChunk` are `filewrite()` with `writei()`: one transaction of at most
`Max` bytes, one block allocated and one block copied at a time; `Read` is `fileread()`, `Reopen` a close and an
open, `Itrunc` what `iput()` does to a file without names (one step: the inode is locked and nobody else refers to it). A block holds `BSIZE` words, and a word is a
block number or a datum: that is what makes `bzero()` matter in `BlocksOwned`, the first part of `FilesSound`: the bitmap marks
exactly the blocks that some file reaches, and none is reached twice. A write writes at each offset the
one word that belongs there, so that `ContentKept`, the second, can say what a file has to contain without
a second copy of it.

**Bounds.** Two processes, two files, blocks of two words, one direct and two indirect blocks, a bitmap block for
each block (the worst case for the size of a transaction; `mkfs` makes a single one for the whole disk),
`MAXOPBLOCKS` 6 (10 in the code: `Max` becomes one block, where it is three), writes of three words, so that every write
is cut and unaligned. `Reserve` keeps as many blocks free as the writes under way may need: `balloc()`
panics on a full disk.

### `FileSys`: names, links and the inode cache

**State.** `disk` and `ents` are inodes and directories on the disk; `ref`, `valid`, `mem`, `lock` the inode cache;
`todo[p]` is the list of steps that the call of a process has still to take, each with the inode it is
about: the stack and the program counter in one. A process has one descriptor and one current
directory.

**Actions.** A step that needs the sleep lock of an inode waits for it, and what follows up to the release, or to the
next lock it needs while it keeps the first, is one action. `WalkStep` is a turn of the loop of `namex()`.
`iput()` is `PutTest`, `PutFree` and `PutDrop`: it gives up `icache.lock` in between. `create()` is cut
where it locks the new inode with the parent locked (`CreateAlloc`, `Fill`), `unlink()` likewise (`Unlink`, `EraseName`, `DropName`), and
`link()` between the count, the lookup of the new parent and the entry (`Link`, `LinkAdd`, or `Undo`).
`Panic` is the panic of `ilock()`, `ialloc()` or `unlink()`.

**Left out.** The contents of files (`FileData`), device nodes, `fstat()`; crashes, which the log reduces to whole
calls; the panic of `iget()` when all `NINODE` (50) entries are in use: the cache has an entry for each inode. `ialloc()` and the `iget()`
that it ends with are one step.

**Bounds.** Two processes, three inodes and two names; the calls of `Shallow` let one process make, link and remove
a file, and the other make, enter and remove the directory for the link. `MaxLinks` stops `link()` from
counting on for ever into a directory that has been removed: `create()` and `link()` do not look whether the
directory they have locked still has a name, so that what they make there is never freed.

| run | what is asked | result |
|---|---|---|
| `storage` | `IsStore`, `PanicOnlyWhenFull`, `IoCompletes` of `Bcache`; `FilesSound`, `TransactionFits` of `FileData`; `ImageSound` of `Mkfs` (section 7) | holds, 413 000 states |
| `files` | of `FileSys` `FsInv` (the inductive invariant of section 9, with `NothingLeaked`: references counted, locks released), `InodesSound` (cache coherent with the disk, enough links), `NoPanic`, `LockOrder`; `FtableInv` of `Descriptors`, `ShellSound` and `NoHang` of `Shell` (section 7) | holds, 582 000 states |
| `files_deadlock` | `NoCircularWait` | violated |
| `files_dotdot` | `EntriesAllocated` | violated |

`storage` and `files` are run with CHECK_DEADLOCK FALSE: `bget()` and `ialloc()` may panic, after which the machine
stops, and the circle of `NoCircularWait` stops both processes.

## 7. The services around them

`MCKernel` puts `Spinlock`, `Umalloc`, `Experiment`, `CpuBound` and `ShParser` next to `Proc` (run `kernel`), `MCLog` the
console and the memory next to the log (run `log`), `MCSched` `SleepLock` and `Ticks` next to both schedulers and the pipe (run `sched`),
`MCStorage` `Mkfs` next to the buffer cache (run `storage`), and `MCFiles` `Descriptors` and `Shell` next to
the names (run `files`).

### `Spinlock`: spin locks and interrupts

**State.** For each CPU `ncli`, `intena`, the interrupt flag, the thread that runs and the lock it spins for; `holder` of each
lock; `saved`, the local variable `intena` of each thread in `sched()`; `inIntr`, the contexts that are in an
interrupt handler.

**Actions.** `Acquire` is `pushcli()`, the test of `holding()` and the first `xchg()`, `Xchg` the one that gets the lock; `Release`
has `popcli()` in it; `Intr` and `Iret` are the interrupt gate and its way back; `Sched`, `Exit` and `Switch` are the
switches between a thread and the scheduler, with `ptable.lock` held. Handlers and threads take any lock in the order in which the
code nests them, which is a guard of `Acquire` and takes the place of the panic about a lock that the CPU has already: that code
asks for no such lock is assumed, that a handler does not ask for one on the CPU that it interrupted is what is shown.

`NoSelfDeadlock` says that no CPU spins for a lock that it has itself, nor is interrupted while it has one, and that `ncli` counts
its locks; `InterruptsRestored` that a thread without locks has interrupts on again, on whichever CPU it is, and whoever
was switched away from there. Two threads, two CPUs, two locks, one of them `ptable.lock`.

### `Console` and `LineBuffer`

`Console` is `consoleintr()` one character at a time against `consoleread()`, with the three indices of the ring
counted modulo `Wrap`, ^U, backspace, ^D and `kill()`. `LineBuffer` is what readers are promised: the
characters of the lines, as edited, in order, each to one reader. `IsLineBuffer` is the refinement;
`ConsInv` is the inductive invariant, in which `InputWakes` says that nobody sleeps on input. Two readers, a ring of two characters and indices
modulo four (128 and 2^32 in the code).
As in a pipe, a `kill()` between the test of `killed` and `sleep()` wakes nobody. A ^D that a read puts
back for the next may be taken by the read of another process, as the abstract specification allows.

### `Memory`: pages and address spaces

**State.** The free list as a set, and `page`, the page at each of the places (`Place`) from which the kernel can reach one: the kernel
stack of a process, each part of its address space (the directory and the tables of the kernel half, tables and pages of the user
half), each part of the address space that its call is building, and the page that `allocuvm()` or `copyuvm()` has in hand; size and
state of each process; and `kcall`, the call under way with its loop variables.

**Actions.** One page at a time, so that memory may run out at each, and so that calls interleave: `Fork`, `Kstack`, `Setupkvm`, `KvmReady`,
`AllocPage`, `MapPage`, `Forked`; `Exec`, `Segment`, `SegmentDone`, `Stack`, `Bad`, `Commit`; `Grow`, `GrowDone`, `Shrink`; `ExitProc`, `Wait`.
`Fails` is the way out of a call that ends without effect, `GivenBack` what it gives back. What `fork()` does to the process table is `Proc`'s.
Of `MemorySound`, `PagesPartitioned` says that every page is in exactly one place, whatever fails; `SizeMapped` that size and page
table agree.
Two processes, eleven pages of two bytes, page tables of two entries, user memory of four
pages, `sbrk(3)` and `sbrk(-3)`, so that sizes are no multiples of a page. `growproc()` with the negated size
frees everything and returns -1 with `sz` unchanged (`deallocuvm()` returns 0, which is taken for a failure): the process can only fault then, and `SizeMapped`
excepts it.

### `Umalloc`: the user allocator

`malloc()`, `free()`, `morecore()` on the circular list, in units of a header, in a heap in which the program takes space with
`sbrk()` too. `HeapTiled` is that blocks are apart and large enough, that the list goes once around the free
blocks in the order of their addresses, and that no two of them touch. A heap of 13 headers, requests of one to five headers. For a request within
one header of 2^32 bytes the computation of `nunits` overflows; the model's requests are below that.

### `Experiment`: the experiment and its metrics

`run_experiment()` with its forks, pauses, waits and arrays (`Start`, `Continue`, `Wait`), the children's ends (`Exit`), the clock (`Tick`), and the computation of
the metrics in words of `Wrap` (`Metrics`), repeated (`Again`). Of `MetricsSound`, `TimesRecorded` says that each child's time is recorded under its own
slot whatever the order of the ends and whichever forks fail, and covers its life (`fork()` and the `uptime()` behind it are one step); `JainFair` that `J_cpu` is a fairness
index as long as nothing overflows, `EqualTimesFair` (run `experiment`) that it is one at all.
In `kernel` one program of each kind, two rounds, a clock of two ticks, `SCALE_FACTOR` 10 and `Wrap` 256; in `experiment` two CPU-bound
programs and one that does I/O, one round and `Wrap` 64 (20 programs, 30 rounds, 10^6
and 2^32 in the code; TLC's numbers end at 2^31, and what matters is that the product of the scale and
the square of a sum passes `Wrap`).

Read off the code while translating it, and denied by no comment: a child that ends while its parent still forks is timed when
`wait()` returns it, after the last fork, and so is charged for the pauses; the normalised
throughput is 0 in the best round and 1 in the worst; a metric that cannot be computed keeps the value of the round before;
a metric that is exactly 1 is printed as "0.000000", since the integer part is always the character 0 and the rest is taken modulo
`SCALE_FACTOR`. `S_perform`, the mean of the four metrics, is left out: it is computed only when none of
them is 0, and so not in the best round.

### `CpuBound`: the load of the experiment

A random graph is drawn edge by edge (`Draw`), and `dijkstra()` is its call and the turns of its outer loop (`Dijkstra`, `Visit`): `min_distance()`
takes the *last* of the nearest vertices, one without a path included, and the loop leaves one vertex out.
`ShortestPaths` compares the array with the lengths of all walks. `Certificate` says the same without walks, and only at the end:
no edge leads to a shorter path than the one found, and each distance is explained by a vertex before it. It follows from the
inductive invariant `GraphInv`, which the run checks, and is proved for every graph (section 9); the run has `ShortestPaths` in its place. Four vertices, three edges of two weights, which leave some vertices without a path.
`malloc()` is not tested there (line 77): a process without memory would fault.

### `Descriptors`: the table of open files

`ftable.lock` is held for one step: `filealloc()`, `filedup()`, `fileclose()`. `pipe()` is `PipeFiles` (two calls of `filealloc()`), `NoPage` or
`PipeMade`, `PipeFds`; `open()` `OpenFile` and `OpenFd`; `dup()` has its descriptor (`Dup`) before its reference (`DupRef`); `fork()` counts one descriptor after another
(`ForkFd`); `exit()` closes one after another (`ExitFd`). What a call has still to pass to `fileclose()` is in `drop`, a `pipeclose()` that it is about to make
in `ends`. `FilesCounted` says that an entry has as many references as there are descriptors, locals and files to be closed, and that a pipe is freed once,
with its last end; `fpanic` is the panic of `filedup()` or `fileclose()`, or a pipe that is freed a second time. The run checks it
with the inductive invariant `FtableInv` that it is proved from (section 9). Two processes, two files, two descriptors each and memory for one pipe, so that each of them runs out.

### `Mkfs`: the disk image

The root directory, one inode and one entry for each file (`NextFile`), `iappend()` a block at a time with what a `read()` has given, which may be
less than a block, and the end with the rounded size of the root and the bitmap. `ImageSound` is what the kernel takes for granted when it starts: the bitmap
marks the blocks before the data and exactly those that an inode names, each named once; the contents are those of the files; the root has
an entry for itself twice and one for each file, and zeroes behind. Blocks of two words, one direct and two indirect blocks, files of 0, 1, 3, 6 and 7
words, of which the last is too long (`assert(fbn < (`assert(fbn < MAXFILE)`). The image has room for all of them: a `freeblock` that passes `FSSIZE` (the `exit(1)` of `rsect()`) is left out. A root directory that fills its blocks exactly is given the size of one
block more (lines 158 to 161), a block that it does not have; `ImageSound` allows it. The first to read to the end of the directory
gets that block from `bmap()`: a lookup of a new name does so inside the transaction of its call, whereas `ls` reads the directory outside of any, and when
no lookup has been there before, the `log_write()` in `balloc()` panics ("log_write outside of trans"). The image of the `Makefile` has 19 files, 21 entries
in a block for 32, and does not meet this.

### `ShParser` and `Shell`: the command line

`ShParser` is `gets()`, `gettoken()` and the recursive descent of `parsecmd()`, over indices into the line. `ParsesAsGrammar` compares the
tree with that of a grammar which is not a descent: it splits the line at the operators outside of parentheses; and it says that `nulterminate()` ends
each word where it ended in the line. Every line of up to five characters of nine. `a & b` is a syntax error (nothing may follow `&` but another list after
`;`); of two redirections the first one in the line wins; of a line longer than the buffer the rest is run as the next command.

`Shell` runs the trees: `runcmd()` with `fork1()`, `pipe()`, `close()` and `dup()`, `wait()` of the shell and of init, and programs that copy their input to
their output as `cat.c` does or end earlier. `ShellSound`: a program has the descriptors that its line says, and no other end of a pipe, which
would keep its reader from the end of file; the commands of a list run one after another. `NoHang`: while the shell waits, somebody of the
command can go on, also where a `fork()` in the middle of it has failed. When the second `fork()` of a pipeline fails, its first part is left to init;
when init itself cannot fork, it exits, and `exit()` panics. Two lines typed, of a pipeline of two and three programs, a background
command with a list, a redirection; five processes, so that a `fork()` can fail.

### `SleepLock` and `Mutex`

`acquiresleep()` and `releasesleep()` at the grain of the two spin locks they nest, `lk->lk` and `ptable.lock`, with `sleep()`, `wakeup1()`,
`kill()` and the scheduler's `swtch()` as separate steps: between any two, another CPU may come. `Mutex` has one
variable, the owner. `IsMutex` is the refinement; `SleeperWoken` says that a process asleep on a lock does not stay asleep,
if each process in the kernel goes on, the holder into its release included: weak fairness of `Kernel(p)`, all that a process does in
`acquiresleep()` and `releasesleep()`. It does not say that a process wins a contended spin lock, nor that one that was woken gets
the sleep lock. Three processes, two of which may sleep.

### `Ticks`: the clock and `sys_sleep()`

The timer interrupt, `sys_sleep()` with its unsigned difference, and `kill()`. `SleepsEnough`: a call that
returns 0 has slept `n` ticks, also where the counter wraps. `SleepEnds`: a call ends, and a process
that was killed leaves it. The constant `Lag` bounds how many ticks a process that was woken waits for a CPU: a
delay within `Lag` of 2^32 can be missed altogether. A negative argument is a delay of nearly 2^32. Counters modulo three,
delays 1 and 2, `Lag` 2. The timer and the processes are fair, and everybody gets `tickslock` in the end.

| run | what is asked | result |
|---|---|---|
| `kernel` | of `Spinlock` `NoSelfDeadlock`, `InterruptsRestored`; of `Umalloc` `HeapTiled`; of `Experiment` `MetricsSound`; of `CpuBound` `ShortestPaths`; of `ShParser` `ParsesAsGrammar`; the types of the first four, and the invariant `GraphInv` (`ServicesTypeOK`) | holds |
| `log` | of `Console` `ConsInv`, `IsLineBuffer`; of `Memory` `MemorySound` | holds |
| `storage`, `files` | of `Mkfs` `ImageSound`; of `Descriptors` `FtableInv`; of `Shell` `ShellSound`, `NoHang` | holds |
| `sched` | of `SleepLock` `IsMutex`, `SleeperWoken`; of `Ticks` `SleepsEnough`, `SleepEnds` | holds, 58 000 states |
| `experiment` | `EqualTimesFair` | violated |

## 8. Findings

1. *Starvation* (`proc_starve`). The aging loop stands before the `for(;;)` of
   `scheduler()` and runs once per CPU, as a rule on a table with only initproc in
   it. `yield()` makes the process that gives up the CPU more urgent, not less. A
   process in a loop in user mode goes to value 0 and is picked for ever, unless a
   lower slot is at 0 too; `TopPriorityRuns` is all that is left.
2. *Born killed* (`proc_born_killed`). `kill()` looks for the pid in all slots, free ones
   (pid 0) included, and `allocproc()` does not clear `killed`. The published kernel has the same
   lines.
3. *Killed and asleep* (`pipe_kill`). `kill()` takes `ptable.lock` only, and the process it kills
   may be between its test of `killed`, under the lock of the pipe, and `sleep()`: it is not
   woken then and sleeps until the other end of the pipe moves. `consoleread()` is the same; in `sys_sleep()` the
   next tick ends it (`SleepEnds`).
4. *Parent and child* (`files_deadlock`). Parents are locked before their children, but `iput()` takes the sleep lock of what it
   puts, and `create()` puts the parent with the new inode locked (`unlink()` likewise). One process in
   `create()` and another in `unlink()` of the same name then wait for each other. `usertests` has a test "to look for deadlocks" of
   exactly these calls; it takes a switch in a few instructions to meet this one. `LockOrder` says that it takes an `iput()`: the other
   acquisitions keep their order.
5. *The parent of a removed directory* (`files_dotdot`). A directory that is somebody's current directory can be removed, which
   takes its ".." out of the parent's count; then the parent can be removed and freed, and its inode can become another file, while the entry
   ".." in the directory still leads there. With `chdir("..")` among the calls of `Nested` the next step is a
   panic of `ilock()` ("no type"), and with a disk of four inodes a `link()` through such a ".." can find an inode that `create()` has
   allocated and not yet locked, and its count is lost: `NoPanic` and `LinksSuffice` hold in `files`, where the parent is the root,
   which is never freed.
6. *The fairness index overflows* (`experiment`). `J_cpu` multiplies the square of the sum of the times by
   10^6 in 32 bits: from a sum of 66 ticks on, which is less than a second for 20 processes, the product wraps. The
   value recorded in `src/valores_metricas/otimized.txt:4`, 0.000058, is below 1/20, the least
   an index of 20 processes can be. `JainFair` is what holds for sums that do not overflow.

What the models show and no comment of the source denies: the store of the aging loop
can undo the decrement of a `yield()` on another CPU (the values stay in range: `PriorityBound`);
`pipewrite()` that gives up because its process was killed does not wake the readers for
the bytes it has already put into the pipe, so that a reader can sleep on a pipe that is not
empty (the exception in `NoLostWakeup` of `Pipe`); and the remarks on read errors, removed directories, `growproc()`,
the put-back ^D and the metrics in sections 6 and 7.

## 9. What is proved

`ProcProofs` (checked by TLAPS for any number of slots, CPUs, channels, any initial
priority and bound on pids, from the named assumptions of `Proc`):

| theorem | statement |
|---|---|
| `TypeCorrect` | `Spec => []TypeOK` |
| `Invariance` | `Spec => []IInv` |
| `NeverOnTwoCpus`, `StacksSafe`, `WaitMissesNothing`, `ParentsAlive` | the safety invariants of the process table |
| `LifecycleFollowed` | `Spec => LegalTransitions` |
| `AgingInvariance`, `PrioritiesBounded` | `Spec => []PInv`, `Spec => []PriorityBound` |
| `TableInvariance` | `Spec => []TableInv`, both together, as `kernel` checks them |

*The argument.* None of the safety properties is inductive. `StackSafe` needs to know
who holds the lock: `OnCpuInv` and `LockInv` say that the lock, between two actions, is held
for the process on that CPU, and that a process on a CPU that is not RUNNING has the
lock. With it `Pick` (which needs the lock free) can only choose a process on no CPU,
hence `OneCpuPerProc`. `NoMissedChild` needs the tree: `ParentInv` says that parents
are live and that free slots are nobody's child, `ForkInv` and `EmbryoInv` that a slot
being made belongs to exactly one `fork()`, which has set its parent exactly when it
has reached `copied`. `WaitInv` is then kept because the children of a sleeping parent change
only in `ExitDone`, which wakes it, and a process asleep in `wait()` makes no child. The
proof has one lemma per action (`...Safe`) that shows `IInv'`, and one theorem that puts them
together. `PriorityBound` has an invariant of its own, `PInv`, which adds what the
aging loop may hold in its register (`AgeInv`): it does not depend on the rest, nor
on any lock.

`LogProofs` (for any set of blocks and contents, any finite set of
processes, any sizes with `OpBlocks <= MAXOPBLOCKS <= LOGSIZE`, and any `NLOG`):

| theorem | statement |
|---|---|
| `LogTypeCorrect` | `Spec => []TypeOK` |
| `GroupFits`, `CommitsAlone`, `NoWakeupLost`, `UpdatesKept` | `LogFits`, `CommitAlone`, `NoLostWakeup`, `NoLostUpdate` in every reachable state |
| `DiskInvariance` | `Spec => []IInv` |
| `LogImplementsStore` | `Spec => CrashAtomic`: the log implements `AtomicStore` |

*The argument.* That the group never overflows is a matter of counting. `Reserved` is a set with one
element for each block that a call under way may still log; `SpaceInv` says that it and the
group together fit in `LOGSIZE`. `begin_op()` tests exactly what is needed to let a call
add its share (`CountInv` ties `outstanding` to the calls under way); `log_write()`
takes one element out when the group grows, and `CallInv` says that there is one to take; `end_op()`
returns the rest. `ModeInv` says that commits, calls and recovery exclude
each other, and `EmptyInv` that a group nobody adds to or commits is empty, from which a call that finds no
room finds also somebody to wait for.
For the refinement, `HeadInv` says when the header on disk is that of the group, `CopyInv` how far
the loops of `write_log()` and `install_trans()` have come, `DirtyInv` and `NoLostUpdate` where
an update is that is not on its home block yet. Then `WriteHead` alone changes what recovery
would leave, and changes it to what the calls see; `Install` and `ClearHead` leave it alone,
also when recovery repeats them. There is one lemma per action that keeps the
invariant and one that names the step of the store.

`PipeProofs` (for any set of processes, bytes, messages and sizes of reads, any `PIPESIZE` and any multiple
`Wrap` of it above it; in the code 512 and 2^32):

| theorem | statement |
|---|---|
| `PipeTypeCorrect` | `Spec => []TypeOK`: among other things the ring is never overfull |
| `PipeInvariance` | `Spec => []IInv` |
| `SleepersHaveToWait` | `Spec => []NoLostWakeup` |
| `FreedOnceAndLast` | `Spec => []FreedLast` |
| `PipeImplementsStream` | `Spec => IsStream`: the pipe implements `ByteStream` |

*The argument.* `NoLostWakeup` is not inductive: a process decides to sleep in one step and sleeps in
the next. `SleepInv` says that what it has seen still holds in between, and `LockInv` why: between
two actions the lock of the pipe is kept by such a process and by nobody else, so that
none but `kill()` and the counting of references, which do not need the lock, can come between.
`FreedLast` needs `EndInv`, that an end is open as long as somebody has it or is about to close
it, that no two processes are, and that nobody has it any more then; with `HoldInv`, that
who is in a call has the descriptor, this makes the `open` that a call relies on the same as the
references of `file.c`. Where `nread` and `nwrite` wrap is treated once, in lemmas about
the remainder (`AheadWrite`, `AheadRead`): `Count` grows and shrinks by the bytes that are copied as long
as it stays below `Wrap`.

`StorageProofs`, of `Bcache` (for any number of buffers, any set of blocks, contents and processes, any `MaxHeld` and `MaxPinned`, and a drive that answers
without errors, `Outcomes = {TRUE}`):

| theorem | statement |
|---|---|
| `Invariant` | `Spec => []IInv` |
| `PanicIsFull` | `Spec => []PanicOnlyWhenFull` |
| `ImplementsStore` | `Spec => IsStore`: cache and driver implement `BlockStore` |

*The argument.* The races are in the gaps between the locks: `bget()` has a reference and not yet the sleep lock, `brelse()` has given
up the lock and not yet the reference. `RefsCounted` closes both: `refcnt` is the number of processes in
those gaps or with the lock, so that a buffer with `refcnt` 0 can be recycled under nobody. `QueueInv` ties each request to the one process that
sleeps for it, `DriveInv` says that the drive works on the head of the queue with the data that the buffer still has, and
`CleanCoherent` that a valid buffer that is not dirty is what the disk has, which is what makes recycling invisible.
`kill()` may wake a process whose request is still in the queue, so that to wait (`Waiting`) is to be in `iderw()` with a buffer not yet served, asleep or not. `IdeIntr` is
the hard case: it completes a request and wakes, and starts the next, which must be the head of what remains.

`StorageProofs`, of `FileData` (for any processes, files and blocks, any size of a block, any number of direct blocks and of bits in a
bitmap block, any `MAXOPBLOCKS` of at least 6, below which `Max` is 0 and `filewrite()` does not terminate, any lengths of
reads and writes and any `Reserve`):

| theorem | statement |
|---|---|
| `FileSafety` | `FileSpec => []FileInv` |
| `FilesKept` | `FileSpec => []FilesSound` |
| `WritesFit` | `FileSpec => []TransactionFits` |

*The argument.* A block that `balloc()` returns is no one's, by `BlocksOwned`; with `bzero()` it refers to nothing. So when `bmap()`
takes it, one place of one file changes, and no word of a file does. A copy changes one block, which by `BlocksOwned`
is a block of the writer's file and no indirect block of any; that the file is the writer's alone is `OpInv`: who writes has the lock of the inode.
`DataInv` is `ContentKept` in the middle of a write: what the loop of `writei()` has copied is there already, and an inode in memory that
has got new blocks will be written at the end, since `bmap()` gets a block only at or beyond the size (`InodeKept`); were it
not so, `iupdate()`, which `writei()` calls only when the file grows, would be missing.
`LogInv` counts what a transaction has logged: two for each block that it has begun, the block and its bitmap block, one for the block that
its first word shares with the words before, and the indirect block, its bitmap block and the inode. A write of `k` blocks that is not aligned
begins at most `k` and shares one, so that it logs at most `2k + 4`, and `Max` is the largest `k` with `2k + 4 <= MAXOPBLOCKS`.
The count is in step with the loop only at the ends of blocks; `NextBlock` accounts for the block that `bmap()` has got and nothing is copied to yet.

`ServiceProofs`, of `SleepLock`, `Spinlock` and `Ticks` (for any set of processes; for `Spinlock` any CPUs, threads and locks, of which `PTABLE` is one; for `Ticks` any `Wrap`, any `Delays`
below it and any `Lag`):

| theorem | statement |
|---|---|
| `SleepLockInvariant` | `Spec => []IInv`, of `SleepLock` |
| `NoWakeupIsLost` | nobody sleeps on a free lock, unless a process is about to wake it |
| `ImplementsMutex` | `Spec => IsMutex` |
| `SpinInvariance` | `SpinSpec => []SpinInv`, of `Spinlock` |
| `NoCpuWaitsForItself` | `SpinSpec => []NoSelfDeadlock` |
| `InterruptsComeBack` | `SpinSpec => []InterruptsRestored` |
| `NobodySleepsLess` | `TicksSpec => []SleepsEnough`, of `Ticks` |

*The argument.* `LockInv` says who has each of the two spin locks from where the processes stand. A process that has found the lock taken
gives up `lk->lk` only after it has `ptable.lock`, and `wakeup()` needs `ptable.lock`: so between the test and the sleep a release can
clear `locked`, but not yet look for sleepers, and that is the disjunct of `NoLostWakeup` that makes it inductive.
For spin locks, `ncli` of a CPU is the number of locks that are held there, a number that `Release` counts down to the moment when interrupts
come back. `IntrInv` says what `intena` is worth in between, also after a switch: the thread that comes back from `sched()` brings its own
value along in `saved`, as it may be on another CPU. The counting is about finite sets of locks that grow and shrink by one.
`sys_sleep()` compares the difference of two counts that wrap, `ticks - ticks0`, with `n`: while a process is in the call, that difference modulo `Wrap` is
the number of ticks that have passed, as long as these stay below `Wrap` (`Counted`), and when they do not the process has slept long enough anyway.

`FileProofs`, of `Descriptors` (for any finite set of processes, any `NFILE`, `NOFILE` and number of pages):

| theorem | statement |
|---|---|
| `FilesInvariant` | `FtableSpec => []FtableInv` |
| `ReferencesCounted` | `FtableSpec => []FilesCounted` |
| `NeverDangling` | `FtableSpec => []NothingDangles`: what a descriptor names has a reference, and the end of a pipe that a file stands for is open |

*The argument.* `Counted` is an equation between cardinalities, and each step moves one element: from the locals of a call to its descriptors (`FdGiven`), from
a descriptor to what is to be closed (`DropFdSafe`), from there to nowhere (`ToCloseTaken`). Three things are needed besides. `dup()` is ahead of its
reference: for a moment an entry has a descriptor more than references, so that the count alone would let another process close the file under it.
But both descriptors of that `dup()` are its own, and nobody else can close them: `LocalsFit` says that there are two, so that the entries that are `Owed`
a reference have at least one left (`HasRef`), and `filedup()` and `fileclose()` do not panic. A file that `pipe()` or `open()` has taken has no descriptor yet and is
known to that call alone (`Fresh`), so that giving it a type changes nobody's file, and the end of a pipe has one file (`EndCounted`). And `fork()` fills in
the table of a child that no other `fork()` fills in (`TablesFit`), so that it overwrites no descriptor. With `EntryFits`, that an entry without references has
no type, the next call that gets it cannot close the pipe of the last.

`NameProofs`, of `FileSys` (for any finite set of processes, any inodes and names, and any calls with any paths, "." and ".." among
their elements; any `MaxLinks`):

| theorem | statement |
|---|---|
| `NamesInvariant` | `Spec => []FsInv` |
| `CallsGiveBack` | `Spec => []NothingLeaked`: references counted, locks released |
| `CacheIsDisk` | `Spec => []CacheCoherent` |
| `ParentsFirst` | `Spec => []LockOrder`: only an `iput()` can close a circle of processes that wait |

*The argument.* Each step replaces the first step of its call by others (`Then`), and what it has to account for is the difference: `LocksKept` for the locks, `RefsKept`
for the references, where `Weight` counts how often a list of steps refers to an inode, and lists that are joined add up (`WeightAdds`). `TodoFits` has it that
whatever a call does in the end is its last step, so that nothing but `iput()` and the release of a parent can come before it.
That an inode which a call has found to be a directory, or a file to be linked, stays what it is (`TypesKept`) is the race of `iput()`: who frees an inode
has found under its lock that the reference is the last (`Alone`), and whoever has found the inode has another.
`LockOrder` needs more than an order of steps: a call that has one inode locked and waits for another waits for what has a name in the first, or is
about to get one (`HeldAbove`; `EntsFit` keeps the name in `unlink()`, while `create()` has it in its steps). In a circle of waiting processes, then, each inode would be under the next;
and `NoLoop` says that names form no circle. It holds because `create()` is the only call that makes a name for a directory, and that directory is empty;
`link()` refuses directories, and neither "." nor ".." counts as a name. Without that refusal `ln d d/x` would be enough for a circle.

`FileProofs`, of `Console` (for any readers, characters and sizes, any `INPUT_BUF` and any multiple `Wrap` of it above it; in the code 128 and 2^32):

| theorem | statement |
|---|---|
| `ConsInvariance` | `ConsSpec => []ConsInv` |
| `ConsoleIsLineBuffer` | `ConsSpec => IsLineBuffer`: the console implements `LineBuffer` |

`Rings` has what `PipeProofs` and `FileProofs` need of a ring: bytes `i .. i + n - 1`, counted modulo `Wrap`, at their remainders modulo the size.

*The argument.* The slots of as many consecutive bytes as the ring has places are distinct, also where the count wraps, since the wrap is a whole number
of rounds. So one more byte appends to the sequence that the ring holds (`RingSeqGrows`), a byte that is read is its head (`RingSeqRest`), and a byte that is
erased its last (`RingSeqFront`). With these a step of the ring is a step of a queue. What the console adds is that `r`, `w` and `e` keep their order:
`RingInv` says so in terms of distances from `r`, the only ones that do not wrap; a ring that is full commits the line, so that the
editor cannot wait for a line that has no room. `ReadInv` and `LockInv` say that a reader keeps `cons.lock` from its test to its sleep, from which `InputWakes` follows.

`ServiceProofs`, of `Memory` (for any processes, any number of pages, of entries of a page table and of tables of the kernel half, any size of a page
of which `KERNBASE` is a multiple, any segments and any arguments of `sbrk()`):

| theorem | statement |
|---|---|
| `MemSafety` | `MemSpec => []MemInv` |
| `PagesSound` | `MemSpec => []MemorySound` |

*The argument.* `PagesPartitioned` is a statement about one function from places to pages (`Owned`), and every step does one of three things to that function: a place
that had no page takes one that was free (`OwnedTake`), some places give their pages back (`OwnedGive`), or places exchange their pages
(`OwnedSwap`: `mappages()` with the page in hand, the end of `fork()` and of `exec()` with the new address space).
What has to be known is which places are empty at each point of a call, or a page would be overwritten and lost: that is `Vacant`, and `ChildInv`
has it that the slot in which `fork()` makes a child is that of no other call. `Mapped` says how far a loop has come: the pages mapped are those below its
variable, so that an address is not mapped twice, that the loop ends with the pages of the new size, and that a call of `sbrk()` that fails gives back just the pages
that it has added. `Rounding` and `ProductLess` are the arithmetic of sizes and pages that these need, with a product of two constants in it.
All other processes stay as they are, since no place belongs to two (`OwnApart`, `OthersSafe`).

Of `CpuBound` (for any number of vertices, any weights and number of edges):

| theorem | statement |
|---|---|
| `Invariance` | `GraphSpec => []GraphInv` |
| `DistancesCertified` | `GraphSpec => []Certificate` |

*The argument.* Dijkstra's: what has been visited is at least as near as what has not, so that a vertex that is visited now cannot be improved by those
visited later. The loop ends one turn early; the vertex left out is the farthest of all, and its edges improve nothing. `Seen` counts the
turns, from which at the end exactly one vertex is left.

*Only model-checked.* Liveness (`TopPriorityRuns`, `NoStarvation` for `RoundRobin`, `SleeperWoken` of `Log` and `SleepLock`, `SleepEnds`, `EofReached`,
`IoCompletes`), as TLAPS has no rule here for fairness and ENABLED. `ShortestPaths`, `HeapTiled`, `MetricsSound`, `ImageSound` and `ParsesAsGrammar`, which are about
walks, sums and recursive descents, for which the provers installed have no
induction (`Certificate`, which no run lists, is the part of `ShortestPaths` that needs none). Further `LinksSuffice` and `NoPanic` of `FileSys`, which hold of the calls of the run and not of all
(point 5 of section 8: a ".." may lead to an inode that has been freed), the safety properties of `Shell`, and those of
`Bcache` for a drive that reports errors.

The theorems that no run lists (`TypeCorrect`, `NeverOnTwoCpus`, `ParentsAlive`, `AgingInvariance`, `CommitsAlone`, `GroupFits`, `NoWakeupLost`, `UpdatesKept` and the
invariants of `Pipe`, `Bcache`, `FileData`, `Memory`, `SleepLock` and `Log`) are stronger than their instances on small constants, which TLC has confirmed.

## 10. Not modelled

- *Boot code, assembly, interrupt controllers* (`bootasm.S`, `entry.S`, `main.c`, `mp.c`, `lapic.c`, `ioapic.c`): runs before there is anything to
  interleave with, or writes to ports.
- *Console output, `uart.c`, `kbd.c`*: device I/O; scan codes are a table.
- *`memide.c`*: another disk driver, not linked.
- *`mknod()`, `fstat()`* and the copying of arguments from user space: no state of their own.
- *`setpriority()`*, which nothing calls, and `procdump()`.
- *The other programs, `usertests.c` and `forktest.c` first*: they use the kernel and are not part of it. They are
  the larger part of the lines of `src`, three times over: the three copies of the kernel differ in few lines
  (the scheduler, `RoundRobin`), and each is modelled once.
- *The built-in `cd` of the shell*, and that the prompt comes back (liveness; `NoHang` is its safe half).
- *What `io_bound` computes*, the statistics files of the experiment, `S_perform` and all formatting.
- *The contents of pages and page protection*, which are data to `Memory`.
- *`src/Freitas`* and the programs of `src/xv6-funciona_sem_metrica`: superseded by those of `xv6-add_FAIRNESS/user`.
