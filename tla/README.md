# A TLA+ verification of this xv6 kernel

The program is an xv6-riscv kernel with per-priority process lists added to
`kernel/proc.c`, and its user programs.  This directory holds TLA+ modules
translated from the source, the TLC configurations that check them on small
instances, and TLAPS proofs of what holds for every instance.

## 1. The system

| part | source | state | operations |
|---|---|---|---|
| priority lists | `kernel/proc.c`, `proc.h` | `p_control.head_priority`, `present`, `next_p_priority`, `priority_lock` | `add_process_priority`, `free_process_priority` |
| process table | `kernel/proc.c` | `proc[]`: state, pid, killed, parent, chan; `wait_lock` | `allocproc`, `freeproc`, `fork`, `exit`, `wait`, `kill`, `reparent` |
| spinlocks | `kernel/spinlock.c` | `locked`, `cpu`; per CPU `noff`, `intena` | `acquire`, `release`, `holding`, `push_off`, `pop_off` |
| scheduler | `kernel/proc.c`, `swtch.S`, `trap.c` | per CPU `proc`, `context` | `scheduler`, `sched`, `yield`, `sleep`, `wakeup`, `forkret` |
| sleep locks, buffer cache | `kernel/sleeplock.c`, `bio.c` | LRU list, `refcnt`, `valid`, locks | `bread`, `bwrite`, `brelse`, `bpin`, `bunpin` |
| disk driver | `kernel/virtio_disk.c` | descriptors, available and used rings | `virtio_disk_rw`, `virtio_disk_intr` |
| log | `kernel/log.c` | `outstanding`, `committing`, `lh` | `begin_op`, `log_write`, `end_op`, `commit`, recovery |
| pipes | `kernel/pipe.c` | `data`, `nread`, `nwrite`, `readopen`, `writeopen` | `pipewrite`, `piperead`, `pipeclose` |
| console and UART | `kernel/console.c`, `uart.c` | input buffer with `r`, `w`, `e`; transmit ring | `consoleread`, `consolewrite`, `consoleintr`, `uartputc`, `uartstart`, `uartintr` |
| inodes, directories, files | `kernel/fs.c`, `file.c`, `sysfile.c` | inode table, disk inodes, `ftable`, descriptors | `iget`, `iput`, `ilock`, `namex`, `fileclose`, `sys_open`, `sys_link`, `sys_unlink`, `sys_pipe`, ... |
| blocks of files | `kernel/fs.c`, `file.c`, `mkfs/mkfs.c` | bitmap, `addrs`, indirect blocks | `balloc`, `bfree`, `bmap`, `itrunc`, `readi`, `writei`, `filewrite` |
| memory | `kernel/kalloc.c`, `vm.c`, `exec.c` | free list, page tables | `uvmalloc`, `uvmcopy`, `uvmunmap`, `copyin`, `fork`, `exec`, `sbrk` |
| clock | `kernel/trap.c`, `sysproc.c` | `ticks` | `clockintr`, `sys_sleep` |
| user programs | `user/` | heap; a shell's processes; buffers | `malloc`, `free`; `parsecmd`, `runcmd`; `grep`, `wc`, `xargs`, `printf`, `ulib` |

Processes enter the kernel through system calls and traps, take spinlocks, sleep
on channels and are switched by the per-CPU schedulers.  The file system calls
run inside log operations, the log and the inode layer use the buffer cache, and
the buffer cache uses the disk driver, whose interrupt wakes the waiting process.
Pipes, the console and the file table are reached through descriptors.
`PROJECT.json` lists every part with its status, and for every definition the
lines of the source it stands for.

## 2. The modules

A step of a module is one critical section, or less where something can come
between: a scan that takes the locks one at a time, a loop whose end is in
question, a write to the disk, a load or store that another CPU can see.

| module | models | state | actions |
|---|---|---|---|
| `PriorityList` | the lists of `p_control` | its fields, `next_p_priority`, the cursor of a walk; `before` is a history of who was appended before whom, `failed` of a `fork()` that failed | `userinit`, `fork`, `add_process_priority`, `add_walk`, `fork_done`, `fork_failed`, `exit`, `free_process_priority`, `free_walk`, `wait` |
| `Proc` | the life of a process | the fields of `struct proc`, `nextpid`, `wait_lock`; `held` is the set of processes whose `p->lock` is held across `swtch()` | `fork` to `fork_run`, `exit`, `exit_zombie`, the steps of `wait`, `kill`, `setkilled`, `scheduler`, `yield`, `swtch` |
| `SpinLock` | `spinlock.c` by loads and stores, with interrupts | `locked`, `cpu`, `noff`, `intena`, the interrupt bit, a `pc` for the task and the handler of each CPU | the instructions of the five functions; `interrupt`, `kerneltrap_return`, the task's own `intr_set` |
| `Sched` | `scheduler`, `sched`, `yield`, `forkret`, `sleep`, `wakeup` | process states, holders of `p->lock`, the per-CPU `proc`, `noff`, `intena`, the interrupt bit | those functions split at the locks and at `swtch`, timer and device interrupts |
| `Virtio` | the driver and the device | descriptors and chains, `info`, available and used rings with their indices, the interrupt | `virtio_disk_rw` up to the notification, its end, `virtio_disk_intr` one entry at a time, `device_complete` in any order |
| `BufCache` | `bio.c` and sleep locks over `Virtio` | `refcnt`, `valid`, block number and contents of buffers, the LRU list, sleep locks, pins | `bget`, `bread`, `bwrite`, the two critical sections of `brelse`, `log_write`'s pin, `bunpin` |
| `Log` | `log.c`, with the part of `bio.c` it relies on | the disk, the log blocks and header, the cache and its pins, `lh`, `outstanding`, `committing` | `begin_op`, `log_write`, `end_op`, each disk write of `commit`, recovery, crashes, eviction |
| `AtomicDisk` | nothing: what the log promises | current and durable contents, active operations | begin, write, end, commit, crash |
| `Pipe` | `pipe.c` and `fileclose` of a pipe end | `struct pipe`, `pi->lock`, descriptors, `killed` | one turn of each loop of `pipewrite`, `piperead`, `pipeclose`, `kill` |
| `ByteStream` | nothing: what a pipe promises | the bytes under way | put, take |
| `Uart`, `Console` | `uart.c` and, over it, `console.c` | transmit ring and `THR`, the receiver; the input ring and its cursors | `uartputc`, `uartputc_sync` of the echo, `uartstart` split between test and write, `uartintr`; `consoleread`, `consolewrite`, `consoleintr` with its editing keys |
| `Terminal` | nothing: what the console promises | the line being edited, what can be read, what is to be sent | type, erase, read, put, send |
| `Files` | inodes in memory and on disk, directories, file table, descriptors, current directories | `ref`, `nlink`, locks; the variables of a call in progress | the calls of `sysfile.c` split where they lock or give up an inode, `iput` in three steps, `namex` element by element, `pipe` with the files and descriptors it takes and gives back, `fork`, `exit` |
| `Blocks` | the blocks of files | bitmap, `addrs`, indirect blocks, in the cache and on disk; `want` is what was written | `open` (with truncation), `fileread`, `sys_write`, one transaction of `filewrite`, eviction of a buffer |
| `Memory` | physical pages and page tables | the number of free pages, page tables as sets of pages and of table pages | `fork`, `exit`, `sys_sbrk`, `exec` in its parts, with `kalloc()` failing when memory is out |
| `Umalloc` | `umalloc.c` | header words of the heap | `malloc`, `free`, `sbrk` by the program |
| `Shell` | `sh.c` | a line of tokens; the shell's processes, descriptors and pipes | the parser as functions; the cases of `runcmd` |
| `Text` | `grep.c`, `wc.c`, `xargs.c`, `find.c`'s matcher, `printf.c`, `ulib.c`, `string.c` | the input not yet read, a program's buffer | functions; the read loop of each program, `read()` cutting the input anywhere |
| `Clock` | `clockintr`, `sys_sleep` | `ticks`, the sleepers | the tick, the parts of `sys_sleep`, `kill` |

`MCFiles` gives the calls that processes make.  `MCParts` puts the modules that no
other part interferes with (`SpinLock`, `Memory`, `Blocks`, `Umalloc`, `Shell`,
`Text`, `Clock`) in one specification, in which `part` says which of them is at
work.  The other modules are checked as they are.  The proofs about a module `M` are in
`M_proof`.

Composed formally are `BufCache` over `Virtio`, and `Console` over `Uart`: one
specification, with the upper layer's calls taking the steps of the lower one.
`AtomicDisk`, `ByteStream` and `Terminal` are implemented by refinement mappings.
The other layers are argued.  `Sched` takes `acquire()` as one step, which
`SpinLock` justifies; every module above takes `sleep()` and `wakeup()` as `Sched`
shows them to be.  `Log` relies on a buffer that keeps its contents while it is
pinned, which `CacheCoherent` of `BufCache` says; `Files` relies on transactions
being atomic, which is `AtomicCommit`.  `PriorityList`, `Proc` and `Memory` see the
same `fork()` and `exit()` from three sides: the lists under `priority_lock`,
the states under `p->lock` and `wait_lock`, and the pages.

## 3. What the runs show

| run | instance | properties |
|---|---|---|
| `priority_lists` | 3 slots, 2 priorities, `uvmcopy()` may fail in `fork()` | until the first failed `fork()` the lists are the live processes of each priority in fork order, without stale pointers (`ListsExact`), and walks end (`WalksEndUntilFailure`); after it `exit()` still finds its own node while one priority is in use (`ExitFindsItself`) |
| `priority_lists_endless_walk` | 2 slots | **violated**: `WalksEnd`, section 6 |
| `process_life` | 3 slots, 2 CPUs, 3 pids, kills of pids 1 and 2 | no exit is missed by `wait()`, orphans get a live parent (`ProcInv`), a slot is one process or clean (`SlotsSound`), no kernel stack is reused while in use (`StackNotReused`), what `init` inherits is reaped (`OrphansReaped`) |
| `kill_zero` | 3 slots, 1 CPU, `kill(0)` | **violated**: `FreeSlotClean`, section 6 |
| `log` | 2 operations of one block, 3 blocks, a log of 4 in which an operation may have to wait for space | the log implements `AtomicDisk` with crashes anywhere, recovery included (`AtomicCommit`); the log's blocks, header, pins and cache agree and a quiescent state is durable (`LogInv`); `log_write()` never panics (`NoLogPanic`); sleepers in `begin_op()` are woken (`SleepersWoken`) |
| `pipe` | 2 writers, 1 reader, 2 bytes of buffer, counters modulo 4, kills | a pipe implements `ByteStream` (`IsByteStream`); counters, ends and the life of the page agree (`PipeInv`); nobody sleeps through data or space (`SleepsForAReason`); every call returns (`CallsReturn`) |
| `scheduler` | 2 threads, 2 CPUs | a thread is on one CPU at a time, `intena` belongs to the thread, `sched()` never panics (`ThreadsSafe`); no wakeup is lost between the test of a condition and `sleep()` (`NoMissedWakeup`); a sleeper whose condition holds does not stay asleep (`SleepersWake`) |
| `disk` | 2 processes, 2 buffers, 3 blocks, 5 or 6 descriptors | `DriverInv`, `CacheCoherent`, `NoForgottenSleeper`, `TransfersEnd`: descriptors are in one chain or free, processes see one disk, no completion and no wakeup is lost, transfers end |
| `console` | a reader alone with 3 keys typed; two of 2 writers and a reader with 1 key; rings of 2 bytes | the console implements `Terminal` (`IsTerminal`): lines are edited and read in order, and every byte accepted by `uartputc()` is on the line in that order; cursors stay in order, a full buffer can be read, the 16 bytes of the transmitter's FIFO are enough although the echo takes no lock (`ConsoleInv`); a full transmit buffer drains (`OutputDrains`) |
| `files` | 2 processes, 3 inodes, 3 files, 2 descriptors, 3 calls of 13 kinds | reference counts and locks are exact, no pointer leads to a freed inode (`FilesInv`); `nlink` is the number of names (`LinksExact`); no two calls wait for each other (`CallsReturn`) |
| `inode_lost` | the same with 1 file | **violated**: `UnusedIsFree`, section 6 |
| `parts` | see below | `LocksSafe`, `NoSelfDeadlock`, `PushPopMatched`; `MemoryInv`; `BlocksInv`, `ReadsBack`; `HeapInv`; `ParsesAsGrammar`, `ShellReturns`; `FunctionsAgree`, `StreamsAgree`; `SleepsInTime` |

The instances of `parts`: two CPUs with a task and a handler each and two locks;
13, 17 or 22 physical pages of 2 bytes for two processes and page tables of
fan-out 2, so that every `kalloc()` of `fork()`, `exec()` and `sbrk()` fails in
some behaviour; 6 disk blocks of 2 bytes with 2 direct blocks, two files, two
descriptors, 3 calls; a heap of 8 units; all lines of up to 4 tokens and nine
longer ones, on a table of 5 processes; all short expressions and texts, 8-bit
numbers, and inputs of up to 5 characters read in every possible way into a
buffer of 4; two sleepers on a clock that wraps around at 5.

**Bounds.**  Three slots are `init`, a parent and its child; a slot is used again
before `MaxPid` stops the forks.  An exiting parent with an exiting child and a
further child needs four: this case is beyond the liveness check of `process_life`,
and `ProcInv` covers it by proof.  Counters of pipes, of the console and of the UART
are taken modulo twice the buffer, so they wrap in every long behaviour.  `LOGSIZE`
and `MAXOPBLOCKS` are scaled down such that two operations fit and, once a block is
logged, the second must wait.  Five descriptors hold one request of three and leave
a second short; six hold two.  Three inodes are the root and two that are freed and
used again.  Three files are enough for a file and a pipe, and too few for two
pipes; two descriptors are too few for a file and a pipe.  Two bytes in the transmit
buffer, of different writers, can be told apart and could be exchanged.  `MaxBusy`
lets two processes use the console at a time.  Two CPUs and two locks give nesting,
a handler and a competitor.  `MaxCalls`, `MaxTyped`, `MaxCount`, `MaxLate` and
`MaxPid` end behaviours, `HeapLimit` and `MaxPages` the growth of memory.  No
symmetry is used.

**Fairness.**  Code in a critical section has interrupts off and goes on: weak
fairness of the steps of a walk, a commit, a pipe call, a file call or a CPU.
Where a spinlock or a CPU comes and goes, strong fairness: of `scheduler` and of
the kernel steps of a process in `Proc` (every CPU scans the whole table again and
again), of the end of a transfer in `BufCache`, of the handler, the readers and the
writers in `Console`.  That a spinlock which keeps being released is obtained in
the end is an assumption on the machine, as `spinlock.c` has no queue.  The disk
answers every request and the transmitter sends every byte.  `OrphansReaped`
assumes that `user/init.c` comes back to `wait()`, as its loop does; `CallsReturn` of
`Pipe` that no program goes on for ever without closing its descriptor.  `Sched`
assumes that a pending device interrupt is taken by some CPU that keeps enabling
interrupts.  The programs a shell starts terminate.

**Deadlock** is checked but where the system may really stop: in `PriorityList` after
a `panic`, in `Pipe` when all descriptors are closed, in `Console` and `Files`
when the bounded input is used up, in `parts` when a program has ended.

## 4. What is proved

The proofs hold for every value of the constants that the named assumptions
allow; TLC evaluates the assumptions in the runs.

| assumption | what it says beyond types | from the code |
|---|---|---|
| `PriorityListAssumption`, `ProcAssumption`, `SpinAssumption`, `SchedAssumption` | `NULL` is not a process or CPU; `init` is a process | `0` as a pointer; `userinit()` |
| `PipeAssumption` | `PIPESIZE` divides the number of counter values and is less than it | 512 and 2^32 |
| `LogAssumption` | one operation fits in an empty log; finitely many processes | `LOGSIZE` is `3 * MAXOPBLOCKS` |
| `SizeAssumption` | the log has `LOGSIZE` blocks, the header one of them; an operation writes fewer than `MAXOPBLOCKS` blocks | `nlog` of `mkfs.c`; see section 6 for `filewrite()` |
| `VirtioAssumption` | at least three descriptors; finitely many processes and buffers | `NUM` is 8 |

In each case the invariant that the run checks is not inductive as it stands,
or is only part of what is.  What had to be added is the argument:

* **`PriorityList_proof!ListsCorrect`**: until a `fork()` fails after
  `allocproc()`, the lists are the live processes of each priority in fork
  order, free slots hold no stale pointer, `present[]` is accurate and `exit()`
  never follows `NULL`.  "The list holds these processes in this order" is not
  inductive as a statement about paths, so `ListInv` says it locally: `before` is
  a total order of the listed processes, the head is its least element and
  `next` its successor relation.  `WalkOK` adds where the cursor of a walk may
  stand: on a listed process of the same list that, for `exit()`, comes before
  the one to remove.
* **`Proc_proof!WaitSeesExit`**: nobody sleeps in `wait()` with an exited child,
  and every process past `fork()` but init has a parent that is alive.
  `NoLostWakeup` needs two facts in `ProcInv` about the windows in which it is
  about to be broken: a process that has decided to sleep (`wait_sleep`) has no
  zombie, and the parent of a process about to become a zombie (`exit_zombie`)
  is awake.  Both steps happen with `wait_lock` held, and `ThreadOK` says who
  holds it.
* **`Proc_proof!StackSafe`**: no slot is freed or reused while its thread is in
  `swtch()`, an action property that follows from the same invariant.
* **`Proc_proof!SlotsAreSound`**: a pid names one process and a free slot is
  clean, provided that 0 is not among the pids given to `kill()`; with it the
  statement is false (`kill_zero`, section 6).
* **`SpinLock_proof`**: `LocksExclude` (mutual exclusion, and no panic),
  `HandlersSafe`, `InterruptsRestored`.  `SpinInv` relates `locked` and `cpu` to
  the code that owns the lock at each instruction (`LockOK`), makes `noff` the
  number of locks of the code that runs plus the one being taken or released
  (`CodeOK`), and says what the interrupt bits are worth on each level
  (`CpuOK`): a handler runs only where the task has no lock and wanted
  interrupts.
* **`Sched_proof!ThreadsKept`**, **`WakeupsArrive`**: a thread is on one CPU at a
  time and `sched()` never panics; no wakeup is missed.  `SchedInv` ties the
  three views of a running thread together: the CPU's `proc`, the holder of
  `p->lock`, and the place in the code, which fixes `noff` (`CpuOK`, `ThreadOK`).
  With it `NoMissedWakeup` is inductive: `sleep()` has `p->lock` before it lets go
  of the condition's lock, and `wakeup()` has to take `p->lock` to look at the
  process.
* **`Pipe_proof!PipeKept`**, **`SleepersHaveReason`**, **`PipeIsAStream`**: the
  counters never differ by more than `PIPESIZE`, also after they have wrapped;
  the page is freed under nobody; sleepers have a reason; and a pipe implements
  `ByteStream`.  The mapping reads `contents` off the ring between `nread` and
  `nwrite`; that a put appends to it and a take removes its head needs
  `(n + 1) % Modulus % PIPESIZE` to be the next place in the ring, which is where
  `PIPESIZE` has to divide `Modulus`.
* **`Log_proof!LogKept`**: at every point of a commit, of a crash and of a recovery,
  the transaction in memory, the log blocks, the header, the pins, the cache and the
  home blocks agree (`LogOK`), so that what finished operations wrote is durable when
  nothing is in progress.  `CommitOK` and `BootOK` say which blocks are already
  in the log or at home for each value of the loop counter `tail`, and `PinOK` that
  an unpinned block is in the cache as it is on disk.
* **`Log_proof!LogIsAtomic`**: the log implements `AtomicDisk`.  `durable` maps to
  what recovery would make of the disk as it is (`Recovered`).  Every step leaves
  that alone, among them each write of a block home and a crash in the middle of
  a recovery, except the write of the header, which makes it what the operations
  see; no operation is inside then (`OpsOK`).
* **`Log_proof!LogNeverPanics`**: `log_write()` always finds room.  `Reserved` counts:
  the blocks in the log and `MAXOPBLOCKS` for each operation inside are at most
  `LOGSIZE` plus what these operations have written, each counted for every
  operation.  A `log_write()` adds one to both sides, or only to the right when the
  block was absorbed; an `end_op()` takes `MAXOPBLOCKS` off the left and no more off
  the right.  As an operation writes fewer than `MAXOPBLOCKS` blocks, room is left for
  each one inside.  The bound on what several operations wrote comes from an
  injection into pairs of an operation and a number.
* **`BufCache_proof!DriverAgrees`**, **`CacheIsCoherent`**, **`SleepersRemembered`**:
  the descriptors are in one chain or free and no completion is lost; processes see one
  disk; nobody sleeps for what is there.  None of the three is inductive without
  the others (`BufOK` is all of them): the driver relies on the sleep lock, since one
  holder per buffer and one buffer per block make the requests under way
  differ in buffer and block (`Apart`), which keeps their chains apart and makes a
  completion wake the one process it is for; the cache relies on the driver,
  since what a transfer left in buffer and block is not overtaken by another.
  `Virtio_proof` has the steps of the driver, the handler and the device,
  `BufCache_proof` those of the cache and the theorems.  That three free descriptors
  are found when `Cardinality(free) >= 3`, that the victim of `bget()` has no user, and
  that reference counts follow the users are lemmas on finite sets.

Each step lemma treats one action and, inside it, the parts of the invariant that
the action can disturb; frame lemmas (`OnlyBy...`, `...Kept`, `...Same`) cover the rest.

## 5. What is only model-checked

* Liveness (`ExitFindsItself`, `WalksEndUntilFailure`, `OrphansReaped`,
  `SleepersWoken`, `CallsReturn`, `SleepersWake`, `TransfersEnd`, `OutputDrains`,
  `ShellReturns`), since the prover has no fairness.
* `Files` (`FilesInv`, `LinksExact`).  Reference counts are sums over the file table and the
  calls in progress, which the model writes as folds; what a fold computes is an
  induction over data that the prover cannot make.  Besides, that no pointer leads to
  a freed inode depends on the calls of `MCFiles` (see `fs.c:315` in section 6), so
  it is not true of every value of the constants.
* `Console` (`ConsoleInv`, `IsTerminal`).  Its cursors wrap around as the counters of a
  pipe do, so the argument of `Pipe_proof` should carry over to them; this has not been
  done.
* The parts of `parts` other than `SpinLock`.  `Shell`, `Text`, `Umalloc`, `Blocks` and
  `Memory` have recursive operators or sums over tables, and are checked against
  their reference definitions on bounded inputs; `Clock` is within TLC's reach.

## 6. Findings

* `priority_lists_endless_walk`: `fork()` whose `uvmcopy()` fails calls
  `freeproc()`, which leaves the slot on its priority list.  The next `fork()`
  that gets the slot appends it again; the list becomes a cycle and the
  following `add_process_priority()` never ends, with `priority_lock` held.
  `user/forktest.c` says that fork fails gracefully.
* `kill_zero`: a free slot has pid 0, so `kill(0)` succeeds on a slot without a
  process and leaves `p->killed` set; `allocproc()` does not clear it, so the
  next process in that slot is killed.
* `inode_lost`: an `iput()` that has freed its inode gives up the inode's lock before
  it takes `itable.lock` again to drop `ref`.  If the inode is allocated, given up
  again and put in between, that second `iput()` sees `ref == 2` and does not free it,
  and the first one drops `ref` to 0 without looking: the inode keeps its type
  with no name and no reference.  The comment of `iput()` says that the last
  reference frees it.

Seen while modelling, and outside what the runs state:

* `kill()` between `killed(p)` in `wait()` and `sleep()` wakes nobody; the victim
  sleeps until a child of it exits (`proc.c:444`).
* The `..` of a removed directory is not counted in its parent's `nlink`.  A process
  whose current directory it still is may find a freed inode there once the parent is
  removed too (`fs.c:315`).  A name created in a removed directory is lost with it
  while its inode keeps `nlink` 1 (`sysfile.c:282`).  The calls of `MCFiles` keep
  directories in the root; `orphaned` excludes the second case from `LinksExact`.
* `log.size` counts the header block, so `begin_op()` reserves one block more than
  the log has.  No operation writes as many blocks as it reserves, but
  `filewrite()` would exceed its share by one if each of its blocks had a bitmap
  block of its own.
* A writer of a pipe that is killed with bytes written does not wake the reader;
  `SleepsForAReason` makes this exception, and the reader is woken by the next write
  that completes or by the close of the last write end.
* After a `copyin()` that fails inside `writei()` the buffer has changed without being
  logged (`fs.c:520`); `ReadsBack` allows either contents there.
* `NBUF` equals `LOGSIZE`: how many buffers the calls of a full log hold at once, and
  whether `bget()` can then panic (`bio.c:88`), is beyond the bounds of `disk`.
* `mkfs` rounds the size of the root directory up by a whole block when it is a
  multiple of `BSIZE` already, which 62 files would make it (`mkfs.c:168`).
* `grep` ends at the first line that does not fit in its buffer, and ignores a last line
  without newline; `StreamsAgree` says so.
* `morecore()` gives `sbrk()`, which takes an `int`, the bytes of `nu` units
  (`umalloc.c:54`).  From 2^31 bytes on that `int` is negative or too small, so
  the heap does not grow by what the new header says.  `Umalloc` has requests below
  that.
* `buf[16]` of the kernel's `printint()` is too short for a 64-bit number in base 10.
* `scheduler()` prints the name behind `next_p_priority` without `priority_lock`
  (`proc.c:481`); nothing else depends on it.

## 7. What is not modelled

* Boot, trap entry and exit, page table hardware: assembly and privileged
  registers.  `Init` of each module is the state that `main()`'s initialisations
  leave behind.
* The weak memory order of RISC-V: `SpinLock` takes loads and stores as sequentially
  consistent, which the fences in `acquire()` and `release()` are there for.
* The fetching of system call arguments and the dispatch table; formats of `printf`.
* `growproc()` and `procdump()` of `Proc`; the page side of `growproc()` is in `Memory`.
  `set_priority()` has no caller, and `scheduler()` does not choose by priority, so
  the lists have no influence on `Sched`.
* The contents of memory: `Memory` keeps which pages are mapped, with which rights.
  The kernel's own page table is built once.
* The `cd` built-in and the reading of a line in the shell's `main()`, which start no
  process; how directory entries lie in blocks.
* The other user programs: a few calls each.  `find` and `ls` walk directories for
  output; `primes` reads an `int` into one byte, which has no defined behaviour to
  model.  `usertests` and the other tests are tests of the kernel.

`PROJECT.json` gives the reason for each part.
