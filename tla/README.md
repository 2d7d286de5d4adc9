# A verification of the OS-Fall-2023 repository

The repository is one student's operating systems course: several copies of the
xv6 teaching kernel with changes (a lottery scheduler, larger files, a memory
disk), two solutions of a tutoring centre with threads and semaphores, file
system checkers, a shell and a tokenizer. This directory holds TLA+ modules of
its concurrent core and its file systems, the TLC configurations that check them
on small instances, and proofs of the main theorems for every value of the
constants.

Paths below are relative to `src/`. `PROJECT.json` maps every definition to the
lines it stands for.

## 1. Inventory

### Kernel `xv6/` (final lottery scheduler, several CPUs, no log)

| part | state | operations | what is hard |
|---|---|---|---|
| processes (`kernel/proc.c`, `sysproc.c`) | `ptable`: state, pid, parent, chan, killed, tickets, ticks, inuse, kstack; `ticks` | fork, exit, wait, kill, sleep, wakeup, scheduler, sched, yield, settickets, getpinfo | `ptable.lock` is handed over across `swtch`; wakeups; unlocked writes of fork |
| traps (`kernel/trap.c`) | trap frame | system call, timer, fault | where a killed process exits |
| spinlocks (`kernel/spinlock.c`) | locked, cpu, ncli, intena | acquire, release, pushcli, popcli | interrupts while spinning |
| lottery numbers (`kernel/random_num.h`) | Mersenne twister | genrand, random_at_most | bins at the edges |
| pipes (`kernel/pipe.c`) | ring buffer, two counters, two open flags | alloc, read, write, close | lost wakeups, freeing, wrap of the counters |
| file table (`kernel/file.c`, `sysfile.c`) | `ftable`, `proc->ofile` | dup, close, read, write, open, link ... | reference counts against calls in progress |
| buffer cache, disk (`kernel/bio.c`, `ide.c`) | buffers, LRU list, `idequeue` | bread, bwrite, brelse, iderw, ideintr | sleepers on recycled buffers, interrupt order, spurious interrupts |
| inodes (`kernel/fs.c`) | `icache`, bitmap, inodes on disk | iget, ilock, iput, balloc, bmap, itrunc, dirlink, namei | the last iput, locks of two inodes, removed directories, a crash between two writes |
| memory (`kernel/kalloc.c`, `vm.c`) | free list, page tables | kalloc, kfree, copyuvm ... | failure paths |
| devices (`console.c`, `uart.c`, `kbd.c`, `lapic.c`, ...) | line buffer, controller registers | interrupts, consoleread | free-running indices |
| boot, exec, dispatch (`main.c`, `exec.c`, `syscall.c`) | - | start of CPUs, ELF loading | sequential |
| user programs (`user/`) | free list of `umalloc.c` | init, sh, tests | sequential |
| `tools/mkfs.c` | disk image, `freeblock`, `freeinode` | mkfs, ialloc, iappend, add_dir, balloc | what it hands out against what it counts |

System calls and interrupts enter through `trap.c`; everything that waits calls
`sleep(chan, lock)` of `proc.c` and is woken by `wakeup(chan)`; pipes, the disk
and the console share the process table's lock through these two calls.

### Other trees

* `xv62/xv6/` is an earlier attempt at the lottery scheduler; its `wakeup1()`
  (`kernel/proc.c:508-516`) and `kill()` (542-548) make slots RUNNABLE that are
  not asleep, because braces are missing. `xv62/testcases/` are its tests.
* `ex4/xv6/` is a newer xv6 with a write-ahead log (`log.c`), sleep locks, a
  cache with reference counts, a memory disk and doubly indirect blocks;
  `xv62/xv6ex4/xv6/` is the same without the doubly indirect blocks. `log.c` is
  identical in both.
* `csmc.c` is the final tutoring centre: students, tutors and a coordinator as
  threads, mutexes, two counting semaphores, and some unlocked reads.
  `project3/csmc.c` is an earlier solution with data races.
* `fcheck.c`, `Project4/P4/fcheck.c`, `temp.c` check a file system image.
* `project1.c`, `project1_demo.c` are a shell; `Assignment2` counts tokens.

### What makes each part correct

* **Processes.** A process is on one CPU at most; nobody executes on a freed
  stack; every process has a parent that can wait for it; no wakeup of `wait()`
  is lost; a killed process exits; a sleep ends; the lottery draws a winner.
* **Tutoring centre.** A student is in one place; chairs and totals are counted
  right; nobody is forgotten; everyone is helped exactly `help_num` times; all
  threads end.
* **Log.** A crash returns the disk to a moment when no call was in progress;
  what is committed stays; the log never overflows; sleepers are woken.
* **Pipes.** Bytes come out first in, first out; nobody sleeps for what is
  there; the page is freed last; the end of file is reported only at the end.
* **Buffer cache, disk.** No sector is in two buffers; a process has a sector to
  itself from `bread` to `brelse`; every transfer ends.
* **Inodes and names.** Names on the disk lead to allocated inodes with a high
  enough link count, at every step; references balance; nothing is lost; two
  locks never deadlock.
* **Blocks.** A block is in one place of one file and marked; none leaks.
* **Checkers and mkfs.** What mkfs makes is good; a checker should accept the
  good images and no others. None of the three does: section 10 says exactly
  what `temp.c` accepts, the other two accept nothing.

## 2. Plan

Each family has the specification, its properties with the inductive invariant
where there is a proof, and the proofs in modules of their own, so that what TLC
checks and what is proved is the same text. No module uses RECURSIVE.

| | modules | state |
|---|---|---|
| 1 | `Proc`: processes, scheduler, timer | checked, proved |
| 2 | `Csmc`, implementing `TutoringCenter` | checked, proved |
| 3 | `Log`, implementing `TxDisk` | checked, proved |
| 4 | `Pipe`, implementing `Channel` | checked, proved |
| 5 | `Disk`: two `bio.c` over `ide.c` or `memide.c`, implementing `BlockStore` | checked, proved |
| 6 | `Inode`: inode cache, directories, paths, the calls on names | checked, proved |
| 7 | `Blocks`: bitmap, `bmap`, `itrunc`, `writei` of two kernels | checked, proved |
| 8 | `Fcheckers`: three checkers, composed with `Mkfs` | checked, proved |

How they fit: `Disk` gives `Inode` and `Blocks` what both take for granted, that
a process has a sector to itself from `bread` to `brelse` and that `bwrite` has
reached the disk when it returns; this is `BlockStore`. `Inode` leaves blocks to
`Blocks`, whose processes hold the inode they work on, as `Inode` shows they do.
`Log` takes the place of direct writes in ex4. `Mkfs` makes images for the
checkers.

Next, in this order: `project3/csmc.c` with its races; the console's line
buffer.

## 3. Processes and the lottery: `Proc`, `ProcInv`, `ProcProofs`, `MCProc`

**Shape.** A CPU is a thread of control: `spc[c]` says where it stands in
`scheduler()` (`idle`, `pick`, `proc`, `back`, or `halted` by a panic) and
`cur[c]` is `cpu->proc`. `pc[s]` says where the kernel thread of slot `s` stands.
A critical section under one spinlock is one step, enabled when the lock is
free; the lock variables `lock` (`ptable.lock`) and `tlock` (`tickslock`) are
explicit where a lock survives a step: between the two loops of `scheduler()`,
across `swtch` in both directions, and in `sys_sleep`. What the code writes
without a lock is a step of its own: fork's failure path (`ForkUndo`), the
publication of the child (`ForkPublish`), `settickets`. A timer interrupt can
come at any point where interrupts are on (`OpenPC`).

**Abstractions.** `left[s]` stands for `n - (ticks - ticks0)` in `sys_sleep`;
`ran[c]` for `ticks - start_bit` in the scheduler. A negative `sleep(n)` is
`Forever`, for the comparison is unsigned. `random_at_most(total)` is any number
in `0..total`, as long as that is at most `RAND_MAX` (`random_num.h:106`); from
there on its loop rejects every random number and the CPU stays where it is,
with `ptable.lock` (`RandomAtMost` is empty). The sums of tickets in both loops
are taken modulo `UINT`, which is 2^32 in the code. Memory and files are left
out; `kalloc` and `copyuvm` may fail. `ExitPanic` halts the CPU on which `init` exits, and only that one.

**Worth knowing from the model.** `getpinfo` reports `inuse = 0` for a process
until it first runs, since only `scheduler()` sets it.

| run | instance | shows |
|---|---|---|
| `proc_two_cpu` | 2 CPUs, 3 slots, pids to 3, 1 or 3 tickets each, `UINT` 8, sleeps that only a kill ends | `OneCPUEach`, `StackLive`, `NoLostWakeup`, `ParentAlive`, `TypeOK`, and `RoundPicks`: a round that draws a winner and runs nobody found nobody runnable, even when fork publishes a child between the loops or a sum has wrapped |
| `proc_live` | 2 CPUs, 2 slots, 1 ticket each, naps of 1 tick, fair | `KilledExits`, `NapEnds` |
| `proc_born_alive` | 1 CPU, 2 slots | violation, see section 11 |

**Bounds.** Three slots are `init`, a parent and a child, so that a process is
orphaned, passed to `init` and reaped, while a slot is reused. Chains of four
generations, where `init` must be woken for a zombie that exited long ago, do
not fit; `WaitNeverMisses` covers them by proof. `MaxTicks = 0` switches the
accounting off where no property is about it. With `UINT = 8` the largest int is
3: one process with 3 tickets is as much as `random_at_most` takes, two with 3
are more and stop the CPU that draws, and three make 9, which is 1 again.
`CHECK_DEADLOCK FALSE` in both: `sleep(-1)` by everyone, a panic, and a draw that
never ends may stop the system. `KilledExits` and `NapEnds` promise nothing once a
CPU has stopped (`Halted`); in `proc_live` only the panic of `init` stops one.

**Fairness** (`FairSpec`). Per CPU, strong fairness of the scheduler's own steps
and of the pending timer interrupt: a spinning CPU gets a lock that is free
again and again (`xchg` in a loop), and the timer fires for ever. Per slot,
strong fairness of being picked: the lottery does not lose for ever, for every
process has a ticket (`settickets` refuses less than one) and the draw is random. And a process that is in the kernel on a
CPU again and again goes on: `acquire()` disables interrupts before it spins
(`spinlock.c:26`), so a spinner is not preempted.

**Proved** (for any number of CPUs, slots, pids, tickets). `IInv` of `ProcInv`
is inductive. Its core is who holds `ptable.lock`: `LockInv` says a CPU holds it
exactly between an acquire and the release on the other side of `swtch`;
`OnInv` and `SlotInv` tie the state of a slot to where its thread stands, so a
slot that can be picked stands inside `sched()` and has a stack; `ForkInv` says
the slot a fork fills is owned by it alone, though its last steps hold no lock.
`OneCPUEach` is inductive only together with these, since a slot becomes
RUNNABLE while a CPU is still on its stack and only the lock keeps the others
away. Theorems: `TypeCorrect`, `RunsOnOneCPU`, `StackNeverFreedInUse`,
`WaitNeverMisses`, `NeverOrphaned`, `OnlyInitPanics` (proved, in no run).

**Only checked.** `RoundPicks` (a sum over the table), `KilledExits`, `NapEnds`.

## 4. Tutoring centre: `Csmc`, `CsmcInv`, `CsmcProofs`, `TutoringCenter`, `MCCsmc`

**Shape.** One program counter per thread. The code between a lock and its unlock
is one step; every `sem_post`, `sem_wait` and unlocked read is one of its own.
The student's spin `while(tutorFinishedQueue[..]==-1);` re-reads memory each
time, as in the shipped unoptimised binary. Sleeping and printing are left out.
The loop of `tutor_thread` over `priorityQueue` is the fold `Scanned`, with the
comparison as it stands in line 228.

**Abstract specification.** `TutoringCenter` knows only who waits, whom each tutor
is with, and how often each student was helped. `ImplementsCenter` maps
`TakeSeat` to `Sit`, `Pick` to `Call`, `Tell` to `Finish`; every other step
stutters: coordinator, locks, semaphores and queues cannot be seen from outside.

| run | instance | shows |
|---|---|---|
| `csmc` | 3 students, 2 tutors, 1 chair, help 2, fair | `OnePlace`, `NobodyForgotten`, `ExactHelp`, `ImplementsCenter`, `Termination` |
| `csmc_priority` | 3 students, 1 tutor, 3 chairs, help 2 | violation, see section 11 |

**Bounds.** More students than chairs and students that come back: the seat is
contended, two sessions overlap, an answer of the last visit could be mistaken
for the next one. Deadlock is checked: `Joined` is the only way to stand still,
with all threads gone.

**Fairness.** Weak fairness per thread: the threads are scheduled by the host.
A semaphore or a chair another thread takes first may disable a step, which is
why `Termination` has to be checked and not assumed.

**Proved** (any number of students, tutors, chairs, sessions). `IInv` joins the
properties with `Counters`: what `tutoringNow` and `done` count. `OnePlace` is
nearly inductive by itself; the cardinalities in `SeatCount` and
`BooksBalance` move together with it. Theorems: `TypeCorrect`, `OnePlaceOnly`,
`SeatsCounted`, `TotalsAgree`, `NobodyIsForgotten`, `HelpIsExact` and
`CsmcImplementsCenter`; of these `TypeCorrect`, `SeatsCounted` and `TotalsAgree`
are proved and in no run. **Only checked:** `Termination`.

## 5. Write-ahead log: `Log`, `LogInv`, `LogProofs`, `TxDisk`, `MCLog`

**Shape.** Processes make file system calls: `begin_op`, any reads,
modifications and `log_write`s, `end_op`; the last call out commits. The
buffer cache appears as far as the log relies on it: a block has a valid buffer
or not, `B_DIRTY` keeps a buffer, a clean unlocked one may be recycled
(`Evict`), a read of a block without a buffer goes to disk. The content of a
block is the set of writes it holds, so a lost or resurrected write is seen. A write of one block to disk is atomic, as `log.c` assumes. `log_write`
tests for panics before it takes `log.lock`, so test and append are two steps.
A crash may come between any two steps, recovery included; memory is lost and
recovery starts over.

**Assumption.** A call writes at most `MAXOPBLOCKS` distinct blocks: the guard of
`Modify`. `fs.c` has to keep to it; whether `filewrite()` with doubly indirect
blocks does is not shown here.

**Abstract specification.** `TxDisk` is a disk on which the writes of calls become
durable all at once when no call is in progress, and to which a crash returns.
`CrashAtomic` maps the header write of a commit to `MakeDurable`, `Crash` to
`Lose`; copying, installing, erasing and recovering stutter. What is durable is
the block in the log if the header on disk names it, else the block at home.

| run | instance | shows |
|---|---|---|
| `log_crash` | 2 processes, 2 blocks, calls of 2 blocks, 4 writes, 2 crashes, fair | `CrashAtomic`, `DurableWhenQuiet`, `Quiesced`, `SleepersWake`, `TypeOK` |
| `log_area` | 2 processes, 2 blocks, `NLog = LOGSIZE` as `mkfs.c` makes it | violation, see section 11 |

**Bounds.** Two crashes, so that the second can hit the recovery from the first;
two processes, so that a commit holds two calls and one can be late; two blocks
per call, so that half a call would show. `MaxWrites` limits the length of a
behaviour only. `CHECK_DEADLOCK FALSE`: the writes are used up, and a panic
stops the process that meets it.

**Fairness** (`LiveSpec`). A process inside the log goes on, a process in
`user` need not make a call. `begin_op` wakes in a crowd (`wakeup(&log)` wakes
all), which is why `SleepersWake` only promises the wakeup, not the space.

**Proved** (any number of processes, blocks, writes and crashes). `IInv` has five
parts besides types. `Phases`: `outstanding` counts the calls, a commit is
alone. `Locks`: which buffer a call holds. `Budget`: entries logged plus blocks
that calls in progress may still log fit into `LOGSIZE`; this is the argument
behind `begin_op`'s reservation and the reason why absorption is safe. `Headers`
ties the header in memory to the one on disk per phase. `Data` says where the
current content of a block can be found at each point of a commit. Theorems:
`TypeCorrect`, `LogNeverOverflows`, `CommitsAlone`, `QuietIsDurable` and
`LogImplementsTxDisk`; `LogNeverOverflows` is proved and in no run. **Only
checked:** `SleepersWake`.

## 6. Pipes: `Pipe`, `PipeInv`, `PipeProofs`, `Channel`, `MCPipe`

**Shape.** One pipe, its two entries of the file table and the processes that
share them by `fork()`. `plock` is `p->lock`: it is held across several steps
because `kill()` does not take it, so a kill can fall between the test of
`proc->killed` and `sleep()`. Read and write move one byte per step. `ref` and
`ofile` are changed by fork, close and exit as in `file.c`; `fileclose` and
`pipeclose` are two steps, for `ftable.lock` is released between them. A
process holds at most one descriptor per end (`dup` is left out), a call moves
at least one byte, and `pipealloc` is the initial state.

**Abstract specification.** `Channel` is a bounded queue with two ends that close.
`FifoQueue` maps the ring buffer between `nread` and `nwrite`, computed modulo
`CounterMod`, to the queue; the copy of a byte is `Put` or `Take`, closing the
last descriptor of an end closes that end.

| run | instance | shows |
|---|---|---|
| `pipe` | 2 processes, 2 bytes of room, counters modulo 4, calls of 1 or 3 bytes, fair | `NoLostWakeup`, `FreedLast`, `EofOnlyAtEnd`, `FifoQueue`, `HangUp` |

**Bounds.** `PIPESIZE = 2` and `CounterMod = 4` keep what matters of 512 and
2^32: the modulus is a multiple of the size and larger than it, the counters
wrap within a few calls, a call of three bytes fills the pipe and blocks with a
byte to go, and two values of a byte tell the order. Two processes that both hold both ends can be
two readers of which one takes the bytes the other was woken for.
`CHECK_DEADLOCK FALSE`: all processes may have exited, or a lone process may
wait for itself.

**Fairness.** Whoever holds `p->lock` goes on, and `acquire()` gets a lock that is
free again and again. User programs promise nothing. `HangUp` says that closing
one end ends every call on the other end under just that.

A kill that falls between test and sleep is lost until the other side acts: the
model contains it and no property excludes it.

**What it found.** A writer with more bytes than fit that finds itself killed
beside a full pipe returns -1 at `pipe.c:83-86` without the `wakeup(&p->nread)`
that the loop's other way out, line 92, has. If it filled the pipe in the same
round, the readers asleep stay asleep beside a full pipe until somebody writes,
reads or closes. `PipeInv` marks them with a history variable, `stranded`
(`Strand`, in `HSpec`); `NoLostWakeup` says that nobody else sleeps for
something that is there, and `HangUp` holds all the same, because closing wakes
everybody. With calls no longer than the pipe is large nothing of this happens.

**Proved** (any number of processes, any size of pipe, counters that wrap at a
multiple of it, calls of any length). `IInv` has these parts. `LockInv`: who
holds `p->lock` is where it is held. `RefInv`: the references of an end are the
descriptors for it and the `fileclose()` calls still to give theirs back.
`OpenInv`: an end is open while it has a reference or the `pipeclose()` of its
last one is under way, of which there is one; from the two follows that no call
is left when the page is freed. `SleepInv`: a reader asleep beside bytes is
stranded, or a writer is still in its loop and will wake it. `RoomInv`: `nwrite`
is at most `PIPESIZE` ahead of `nread`, the wrap undone. `EofInv` is for the
reader that lost its bytes to another one. Theorems: `TypeCorrect`,
`WakesInTime`, `FreedAtTheEnd`, `EndOnlyAtEnd`, `PipeImplementsChannel`. **Only
checked:** `HangUp`.

## 7. Buffer cache and disk: `Disk`, `DiskInv`, `DiskProofs`, `BlockStore`, `MCDisk`

**Shape.** `kernel` is `"xv6"`, where a buffer is owned by `B_BUSY`, `"ex4"`, where it
has a count of references and a sleep lock (`ex4/xv6/bio.c`, `sleeplock.c`; the
driver is the same), or `"mem"`, the cache of ex4 over the disk in memory of
`memide.c`. Processes `bread`, `bwrite` and `brelse` sectors. What `bio.c` does
under `bcache.lock` and `ide.c` under `idelock` is one step; a process sleeps in
`bget()` for a busy buffer and in `iderw()` for its transfer, in xv6 on the same
channel, and tests again when it is woken. In ex4 the reference, the sleep lock,
its release and the return of the reference are steps of their own. The drive is
an actor of its own: it finishes a command, may fail it, and raises an
interrupt, which `ideintr()` takes later.
`mru` is the list of `bcache.head`, `idequeue` the queue of `ide.c`.

**Abstract specification.** `BlockStore` lends each sector to one process at a
time. `AtomicSectors` maps the content of a sector to what the disk will hold
once the drive has done what it was told, and a lease to a busy buffer whose
owner has what it asked for. Recycling, queueing, interrupts and the order of
the queue stutter. After a failed transfer nothing is promised, since
`ideintr()` marks the buffer valid all the same (section 11).

| run | instance | shows |
|---|---|---|
| `disk` | 3 kernels, 2 processes, 2 buffers, 3 sectors of which 1 is written, 1 failed transfer or spurious interrupt, fair | `OneCopy`, `NoLostWakeup`, `AtomicSectors`, `IoEnds` |

**Bounds.** More sectors than buffers, so that buffers are recycled while somebody
sleeps for them; both processes may wait at once, so that the queue has two
entries; one fault of either kind can hit any step. `MaxHeld = 1`: with two
buffers that two processes could keep, `bget()` may panic for want of one, and
`OneCopy` says that it does not below that. In the model a process may hold up to
`MaxHeld` buffers, any sectors in any order but not the same one twice, and the
theorems are about that. Deadlock is checked.

**Fairness.** Weak for the drive, its interrupt and a woken process; strong for
the step of `iderw()` that takes `idelock`: `acquire()` tries again and again
with a lock that is free again and again. No fairness is assumed of `bget()`: a
process may be overtaken there for ever.

**Proved** (any finite number of processes and buffers, any sectors, all three
kernels). `IInv` ties four things together. Who has what: `HoldInv` says that
busy buffers are in the hands of one process each and that a buffer is dirty, or
not yet valid, only while its owner is in `iderw()` for it; `RefInv` that the
references of ex4 count those who hold, wait for or are about to give back a
buffer. What is cached: `CacheInv`, one buffer for a sector. Who waits:
`QueueInv` and `QueuedInv` say that the queue of `ide.c` holds just the buffers of
those asleep in `iderw()`, `SleepInv` that who sleeps in `bget()` sleeps for a
busy buffer. What the disk has: `DriveInv` relates the command the drive was
given last to the head of the queue, a late write after a spurious interrupt
included, and `CleanInv` a clean buffer to its sector. Theorems: `Invariance`,
`TypeCorrect`, `OneBuffer`, `WakesInTime` and `DiskImplementsBlockStore`, the
last step by step: recycling, queueing and the order of the queue stutter, and a
lease begins and ends where `BlockStore` says. That `bget()` does not panic is
a pigeonhole argument: each process has at most `MaxHeld` buffers (`HeldInv`),
and one that asks has fewer. **Only checked:** `IoEnds`.

## 8. Inodes and names: `Inode`, `InodeInv`, `InodeProofs`, `MCInode`

**Shape.** `open`, `O_CREATE`, `mkdir`, `mknod`, `link`, `unlink`, `chdir`,
`close` and the use of an open file, over `namex`, `create`, `dirlookup`,
`dirlink`, `ialloc`, `iget`, `ilock`, `iunlock`, `iput` and `iupdate`. A process
is at a point of its call and has micro-steps before it, each of which takes
`icache.lock` once or writes one sector; between them the others run. `disk` and
`ent` are what is on the disk: this kernel has no log, so a crash leaves just
the state it meets, and `NamesCovered` is asserted in every state. `strays` is
bookkeeping for the properties: what was named in, or kept by, a directory that
had lost its own name, and what was linked before `create()` had given it its
first link. `Astray` is what paths lead to from there. A path may have no names, like `/`:
`nameiparent()` of it gives the inode back and fails (`CallNowhere`,
`LinkNowhere`). Three panics are predicates on states in which the call cannot
go on: `UnlinkPanic`, `DotsPanic`, `IPutBusy`.

**Initial states.** The image of mkfs with directories made by `mkdir` below the
root, one in the other, the last of which may be a file instead. Some processes
may have gone to the last directory, and that may have been removed since, and
then its parent as well, which nobody kept. Earlier calls can bring about all of
these.

| run | instance | shows |
|---|---|---|
| `inode` | 2 processes, 4 inodes, 2 names, 6 paths (3 of them for the new name of `link`), up to 2 calls from each initial state | `NamesCovered`, `CacheBalanced`, `NothingLost`, `PanicOnlyDotDot`, `NoDeadlock`, `TypeOK` |

**Bounds.** Two calls in progress at once are what the hazards need: one removes or
links what the other walks through, or the same file: `link()` has raised the
count and unlocked the inode when `unlink()` comes to it, also when the new name
is then refused. Paths are absolute and relative, of no, one and two names, with
`..` first and last. What takes longer chains is in the initial states.
`CHECK_DEADLOCK FALSE`, because the calls are used up and a panic stops the
kernel; `NoDeadlock` says that processes inside calls never all wait. The two
processes are symmetric.

**What it found.** A process may stay in a directory that was removed, and its
`..` still names the parent when that has been removed and freed as well. If the
inode is free, `ilock()` panics with "no type": the exception in
`PanicOnlyDotDot`. If `ialloc()` has handed it out again, the process may lock it
before its creator does, and make a directory or a link there; `create()` then
sets the link count to 1 (`sysfile.c:240`), and what was counted is forgotten.
From there on the count is too low: a later `rmdir` frees a directory that is
still named, or `unlink` panics with "nlink < 1". Or the process makes a
directory with the name `..` there, by `mkdir("../..")`, before the creator has
entered its own `..`, and the creator panics with "create dots" (246-247). So `NamesCovered`,
`NothingLost`, `PanicOnlyDotDot` and `NoDeadlock` speak of what is not astray,
and hold there. `NothingLost` excludes what is created in a removed directory:
nothing frees it.

**Proved** (any number of processes, inodes, names, paths and calls). A reference
count is a sum over all processes, and what a call holds changes from point to
point, so `CacheBalanced` alone is far from inductive. `IInv` says what
each call has, step by step: what it keeps at its point (`Keeps`), what the
micro-steps before that point give back, which together are what it owns
(`Owns`), and which inodes it has locked, read off the next micro-step about the
lock, or off the point if none is left (`HeldFrom`, `Holds`). `Refs` says that
`ref` counts exactly what the processes own, `Locks` that each lock has one
holder, `Cached` that the cache differs from the disk only where an `iupdate` or
the end of an `iput` is still to come. `StepRight` and `PointRight` make this
inductive: a micro-step that writes or unlocks comes while the lock is held,
whoever unlocks still has a reference, and a point's `ip` and `other` are inodes
that the call holds. Hence `iput()` cannot find the last reference to a locked
inode: who holds the lock owns a reference besides the one given back. A call
whose two inodes are one and the same waits for itself; it holds the lock for
ever (`Twice`). After a panic nothing moves, and only the types remain
(`Stopped`). Theorems: `Invariance`, `TypeCorrect`, `CacheIsBalanced`.
`NamesCovered`, `NothingLost`, `PanicOnlyDotDot` and `NoDeadlock` speak of what
paths reach and stay with TLC (section 12).

## 9. Blocks of files: `Blocks`, `BlocksInv`, `BlocksProofs`, `MCBlocks`

**Shape.** Processes write to the end of a file and remove files. `kernel` is
`"xv6"` (indirect blocks, each write on the disk at once, `bfree()` zeroes) or
`"ex4"` (doubly indirect blocks as well, `balloc()` zeroes, writes grouped by the
log). One step is one block looked up, allocated, zeroed, entered, written or
freed. `content` holds addresses or data, so that a stale block read as an
indirect one is seen. `lost` collects what nothing will free.

| run | instance | shows |
|---|---|---|
| `blocks` | both kernels, 2 processes, 2 files, 8 blocks, 9 bits, `NDIRECT = 1`, `NINDIRECT = 3`, calls of 1 or 5 blocks, 4 calls | `DiskSafe`, `FreeIsZero`, `NothingLeaks` |

**The full disk.** `balloc()` of ex4 looks at the bits below `sb.size` and panics
when they are all set (`ex4/xv6/fs.c:65`); the process stays where it is. That of
`xv6/kernel` looks at every bit of the bitmap block (`fs.c:63`), and those past
the end of the disk are zero: it goes on with blocks that the disk does not have
and panics only after the last bit. The drive refuses such a block and
`ideintr()` leaves the buffer as it is (`ide.c:108`), so what is read there later
is whatever the buffer held (`Recycled`). `overrun` says that this has happened.
All three properties end there, and so do the theorems but `TypeCorrect`: nothing
can be promised of files whose addresses are words of other files.

**Bounds.** Five blocks reach the doubly indirect block of ex4 and exceed the
largest file of xv6, whose `writei()` cuts them off at `MAXFILE`, where that of
ex4 refuses a call that would end beyond it; one block at a time grows a
file of xv6 into its indirect block; blocks of a removed file are taken by the
other while the disk still names them; two files of the largest size fill the
disk of either kernel, and xv6 then takes the one bit that has no block.
`CHECK_DEADLOCK FALSE`: calls are used up, or `balloc()` panics.

**What it found.** `NothingLeaks` counts the blocks that `itrunc()` of ex4 forgets:
all doubly indirect ones (section 11). `FreeIsZero` is why xv6's `bmap()` may
use a block from `balloc()` for addresses without clearing it, as long as the
disk is not full. `itrunc()` writes the inode without its addresses (`Truncated`)
before `iput()` writes it as free (`Removed`); in between it is an empty file. The
proof found an error of the model: a write of xv6 that starts at the end of a file
of the largest size writes nothing and still goes on to the size of the inode.

**Proved** (any number of blocks, addresses per block, files and processes, both
kernels; but for the types, until `overrun`). `IInv` gives each block one owner: the file in whose tree it is
(`Tree`), the process that has just allocated it or is about to free it
(`Hand`), or nobody who would ever free it (`lost`); `Owners` says that these are
disjoint and are together what the bitmap marks. It is needed because no
two of the disk's words agree while a call is in progress: the inode of a file
being removed still has its addresses, so its tree is what `itrunc()` leaves
alone (`Stump`), and the rest is in the process's list (`Truncating`, which also
says where in the list it is and that nothing is there twice). `DiskSafe` has the
part of this that a crash would show: what a process has still to free, or has
just been given, is in no file on the disk. `Once` says that a
tree has no block in two places, `Behind` how far the inode on the disk may lag
behind the one in memory, `Full` that no block below the size is missing, and
`Writing` that `writei()` has all blocks before the one it is at, from which
`Full` follows when the size is raised. `Fresh` and `FreeZero` are about content:
the new block is empty, so that `bmap()` adds one place to the tree and no more.
The length of the proof is in the trees: what one new address does to the set
of places, at each of the four levels at which `bmap()` may enter it. Theorems:
`Invariance`, `TypeCorrect` (without exception), `DiskIsSafe`, `FreeAreZero`,
`NothingIsLeaked`; all properties of the run are proved.

## 10. Checkers and mkfs: `Image`, `Fcheck`, `FcheckPasses`, `Mkfs`, `Fcheckers`, `FcheckersInv`, `FcheckersProofs`

**Shape.** `Image` is an image as the checkers read it and what makes it good.
`Fcheck` is `temp.c`: one pass over the inodes that clears what it meets from
copies of the bitmaps, then a look at what is left. `FcheckPasses` has
`Project4/P4/fcheck.c` and `fcheck.c`, which go over the image once for each
requirement. `Mkfs` is `tools/mkfs.c`, which copies a tree depth first. It looks
at the size of neither the disk nor the inode table: a block past the end of the
image cannot be read and stops it, an inode past the table is written over what
follows (`AddPast`, which ends as "overran": what mkfs makes of such a tree, a bad
image or a failure, is not followed up).
`Fcheckers` runs each checker on every image of a set and on every image that
`Mkfs` completes.

| run | instance | shows |
|---|---|---|
| `checkers` | 3 inodes, `NDIRECT = 1`, `NINDIRECT = 2`, 8 data blocks, 2 entries in a block; 27 000 images and the trees of up to 3 inodes | `JudgesRight`, `NothingAccepted`, `BitmapExact`, `MkfsMakesGood` |

**Bounds.** Images vary either in their directories (every way to name three
inodes, wrong dots, types and counts) or in addresses and bitmap (out of range,
doubled, unmarked, directly and indirectly): the checkers look at the two apart
from each other. For mkfs eight data blocks are enough for a file of the largest
size in a directory that needs a second block, and few enough to run out.
`CHECK_DEADLOCK FALSE`: programs end.

**What it found.** `temp.c` accepts exactly the images that have what it makes sure
of (`Checked`: types, root, dots, addresses, bitmap, allocated names, link counts,
files referred to) and in which it meets no directory again (`MetAgain`). A good
image has more (`FilesFound`, `DirsFound`, `ParentsMatch`), so `JudgesRight`
amounts to this list of wrong verdicts:

* it accepts a directory that no directory names: line 235 looks for the bits of
  inodes not met, but the directory's own `.` has cleared its bit (88);
* it accepts a `..` that does not name the parent: nothing looks at it;
* it accepts a file without a name whose number stands in some `..` entry, which
  clears its bit like a name;
* it accepts an indirect address equal to `sb->size` (195), if the bit of that
  number, past the end, is set;
* it rejects a good image in which a directory has a smaller number than the one
  it is in: its own `.` was met before its name, which is "directory appears more
  than once".

The two others never accept an image (`NothingAccepted`): requirements 7 and 8
look for the bits that requirement 5 has cleared, and what comes after them is
never executed. `MkfsMakesGood` is about trees with no more files and directories
than there are inodes.

**Proved** (any number of inodes, direct and indirect addresses, blocks, names
and entries per block, any set of images). `MkfsInv` says how far `mkfs` has
come: the blocks before `freeblock` have been handed out, each to one place
(`EachOnce`), an inode fills its addresses in order (`InOrder`), the directories
being added lie each in the one before, with larger numbers (`Stack`), and
everything taken has one name but what is still open (`Given`), until an inode
past the table is needed. The proof
shows that `iappend()` keeps this in each of its cases, and that the image of
`balloc()` is good. `FcheckInv` says what `temp.c` knows when it comes to an
inode: its copies of the bitmaps are what the inodes before have left, and these
have passed (`Passed`, `PassedDir`, in terms of the image alone); `WhyExit`
gives each verdict its reason. The proof of `VerdictsRight` then compares what
has passed with `Checked`, both ways, and for good images `MetAgain` with the order
of the numbers; that the first fault found stands for
all of them needs the least element of a set of numbers. `P4Inv` has the two
facts that make `NothingAccepted` true of every image: the root has a block, and
requirement 5 has found it marked and cleared it. Theorems: `Invariance`,
`VerdictsRight`, `AlwaysRejects`, `ExactByThen`, `MkfsAccepted`; all properties
of the run are proved.

## 11. Where code and comments disagree

Shown by a run that expects a violation:

* `proc_born_alive`: `kill(0)` marks a free slot, and the pid a failed fork
  leaves in a slot still matches; `allocproc()` does not clear `killed`, so the
  next process born there dies unkilled (`xv6/kernel/proc.c:483`).
* `csmc_priority`: the scan requires fewer sessions *and* an earlier arrival than
  the best entry so far, so a student tutored less often that came later is
  passed over (`csmc.c:228`); comments at 200 and 225 promise priority.
* `log_area`: `mkfs.c:25` gives the log `LOGSIZE` blocks, header included, and
  `param.h:11` calls `LOGSIZE` the maximum of data blocks; two calls that pass
  the unlocked test of `log_write` (`log.c:218`) log one block more than fits,
  and the commit writes over the first inode block. With that size a call that
  `begin_op` admitted may also panic with "too big a transaction". The passing
  runs use `NLog = LOGSIZE + 1`; the model gives the log `LOGSIZE` data blocks
  of its own, so the theorems speak of disks on which that is true.

Part of what a passing run states:

* A failed read is taken for a good one: `ideintr()` sets `B_VALID` whatever the
  drive says (`xv6/kernel/ide.c:109`); `AtomicSectors` promises nothing after it.
* `itrunc()` of ex4 frees no doubly indirect block (`ex4/xv6/fs.c:437-464`):
  `NothingLeaks`.
* The verdicts of the checkers: `JudgesRight`, `NothingAccepted`. `temp.c:239`
  says "not found in a directory" of inodes whose bit is left, but `checkdir()`
  clears the bits of `.` and `..` as well (88). `Project4/P4/README` lists an inode
  in use that no directory has (line 20) and a `..` that is not the parent (line
  22) as errors; `temp.c` finds the first only of files, the second never.
* `balloc()` of `xv6/kernel` panics with "balloc: out of blocks" after the last bit
  of the bitmap (`fs.c:72`) and not at the end of the disk, as that of ex4 does
  (`ex4/xv6/fs.c:65`): `overrun`, which ends what `Blocks` claims.
* `mkfs.c:299` does not compare `freeinode` with `sb.ninodes`: the inodes of a
  tree with more files are written over what follows the table (`AddPast`).
* `random_at_most` "Assumes 0 <= max <= RAND_MAX" (`random_num.h:106`), and
  `scheduler()` passes it any sum of tickets: two processes with 2^30 each make
  it loop for ever with `ptable.lock` held (`RandomAtMost`, `Halted`).
* `create()` sets `nlink` to 1 after it has locked the new inode
  (`xv6/kernel/sysfile.c:240`), as if nobody could have come to it before; a
  process in a removed directory can, through `..` (`fs.c:588`): `Astray`.
* A writer killed beside a full pipe leaves without waking the readers
  (`xv6/kernel/pipe.c:83-86`): `stranded` in `NoLostWakeup`.
* A kill that falls between the test of `proc->killed` and `sleep()` in a pipe
  waits for the other side to act.

Met while reading, with no run:

* A slot's `ticks` survive its process (`xv6/kernel/proc.c:42`), so `getpinfo`
  reports another process's ticks, against `pstat.h:8`.
* `MAXFILE` of ex4 is a sum without parentheses (`ex4/xv6/fs.h:27`), so
  `MAXFILE*BSIZE` in `writei()` (`fs.c:524`) multiplies its last term only:
  a file ends `NDIRECT + NINDIRECT` blocks before its largest size, and
  `usertests.c:200`, which writes `MAXFILE` blocks, cannot succeed. `Blocks` has
  the limit as compiled.
* `mkfs.c:304` gives every directory a link count of 1, while `create()` and
  `unlink()` count the `..` of each subdirectory (`sysfile.c:243`, 202). Removing
  a directory that lies in a directory made by mkfs brings the count of the
  outer one to 0 with its name still there.
* `mkfs.c:191` rounds the size of a directory up to one block more than it has
  when the entries fill their blocks; the kernel's `dirlookup()` then makes
  `bmap()` allocate a block in the middle of a lookup.

## 12. Not modelled

* User memory, page tables, `exec`, boot, interrupt controllers: sequential, or
  words and ports without a protocol between actors.
* The Mersenne twister and the bins of `random_at_most`: 624 words of state and
  arithmetic; the scheduler model takes any draw in `0..max`, and none for a `max`
  above `RAND_MAX`.
* In the modelled components: `NINODE`, the number of cached inodes; working
  directories through fork and exit; `readi`, offsets, the chunks of
  `filewrite()`; `dup` on pipes; requirements 9 to 12 of the two checkers (8 to
  12 of `fcheck.c`), which no image reaches; host errors in mkfs, and what it does
  after the inodes are used up.
* `ex4`: its inode cache, `filewrite()`'s bound on a transaction, a cache with
  fewer buffers than a transaction needs, and the kernel the exercises leave
  alone.
* `project3/csmc.c`, an earlier solution; `xv62/xv6`, an earlier scheduler, whose
  `wakeup1()` is a mutant of `OneCPUEach`; the console's line buffer; `umalloc`.
* Shell, tokenizer, test programs: sequential programs over text or scripts of
  system calls.

Out of reach of the proofs: liveness under fairness, and statements that need
induction over data (what the tutor's scan returns, sums of tickets, what a
path reaches: `NamesCovered`, `NothingLost`, `PanicOnlyDotDot` and `NoDeadlock` of
`Inode` speak of it). They are checked by TLC only.

## 13. Running it

    tlc -workers 2 -config ProcTwoCPU.cfg MCProc
    tlapm ProcProofs.tla

`MC*.tla` go with the `.cfg` files of their family (`Proc*`, `Csmc*`, `Log*`,
`Pipe`, `Disk`, `Inode`, `Blocks`, `Fcheckers`). Each run takes under three minutes
on two cores, each proof module up to ten.
