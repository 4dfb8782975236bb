# A verification project for CODE_OS

CODE_OS is the course repository of an operating systems student: the kernel
files of the xv6 labs as the student changed them, the user programs of Lab 1,
process and thread programs for the exercises of two textbooks, and notes. This
directory holds TLA+ models of its programs, the TLC runs that check them, and
TLAPS proofs about the kernel (its process table, memory, clock and system calls), the
thread programs, and the sieve, the shell, xargs and find.

`PROJECT.json` has the same facts for a tool: components, runs, the map from
each definition to the lines it models, hazards, findings and theorems.

`Lab1` stands for `xv6-labs/Lab1-util/codes`, `Lab2` for
`xv6-labs/Lab2-syscall/codes`; the programs with chapter numbers are in
`操作系统概念/`.

## 1. Inventory

### The system's parts

| Part | Source | State | Operations | What makes it correct |
|---|---|---|---|---|
| Process life cycle and scheduler | `Lab2/proc.c`, `proc.h` | `proc[NPROC]` (state, parent, chan, killed, pid, lock), `nextpid`, `cpus[]` | fork, exit, wait, kill, yield, sched, scheduler, forkret, reparent, wakeup1, allocproc, freeproc | one hart per kernel stack, no panic, no lost child, no circle of locks, a tree rooted in init |
| Memory of processes | `Lab2/proc.c`, `sysproc.c` | per slot: trapframe, page table, user pages, `p->sz` | allocproc, proc_pagetable, fork, growproc, sbrk, freeproc | no page is lost or freed twice, whatever allocation fails |
| Page allocator | `Lab2/kalloc.c` | `kmem.freelist`, a list inside of the free pages | kalloc, kfree, free_mem | a page has one owner, the list is the free pages, the count is true |
| Sleep, wakeup and the clock | `Lab2/proc.c`, `sysproc.c` | `ticks`, `tickslock`, p->chan | sleep, wakeup, sys_sleep, kill | no lost wakeup, no early or late return, also over the wrap of `ticks` |
| System calls, trace, sysinfo | `Lab2/syscall.c`, `syscall.h`, `usys.pl`, `sysproc.c` | p->mask, the table of calls | syscall, sys_trace, sys_sysinfo, count_proc | the mask stays in the family, the count is of processes that exist |
| Sieve | `Lab1/primes.c` | descriptors, pipes, children | pipe, fork, read, write, close, wait | the primes in order, descriptors fit, every pipe ends for its reader |
| Programs with one child | `Lab1/pingpong.c`, `第三章CODE/3-12, 3-14, 3-15, 3-19, 3-20`, `WHUOS/homework_2/code.c` | pipes, shared memory, a thread | the same, mmap, create, join | what is exchanged is right, nobody reads its own bytes |
| xargs | `Lab1/xargs.c` | one array of arguments for all lines | readline, fork, exec, wait | one command per line, with the words of this line |
| find | `Lab1/find.c` | open directories, the path | my_find (calls itself) | every file of the name, or an error with a reason |
| Shell | `第三章CODE/project1.c` | history ring, background children | read, history, fork, execvp, wait | the history is the last commands, one child is taken for each command in the foreground |
| Bounded buffer | `第六章CODE/project3.c` | ring of slots, two semaphores, a mutex | insert_item, remove_item | a FIFO queue, nobody starves |
| Sleeping teaching assistant | `第六章CODE/project1.c` | free chairs, semaphore `ta` | consumer, producer | everybody is taught, all threads end |
| Dining philosophers | `第六章CODE/project2.c` | forks, one condition variable per fork | pickup_forks, return_forks | a fork has one user, everybody eats |
| Condition variable example | `第六章CODE/temp.c` | x, a mutex, a condition | wait, signal | the waiter ends |
| Pid map | `第六章CODE/6-30.c` | a bit set | allocate_pid, release_pid | pids differ, no allocation fails |
| Sorting threads | `6-34.c`, `第四章CODE/projects2.c` | a shared array without lock | sort, barrier, merge, join | rows in order, no number lost |
| Counters | `6-31.c`, `6-33.c`, `第四章CODE/4-17.c` | a count under a semaphore, or one per thread | producer, consumer, count, join | nothing is lost between the threads |
| Readers of common data | `第四章CODE/4-16.c`, `projects1.c` | the results of three threads | max, min, avg, row, col, sub | main() prints what the data are |
| Bridge, banker | `第七章.md` (programs in the notes) | semaphores; available and allocated resources | acquire, pass, release; request, release | one direction at a time; the books balance |
| Notes, reports, images | `ostep读书笔记`, `xv6-book`, `WHUOS`, `Lab3`, `res` | - | - | - |

The rest of the kernel (`trap.c`, `vm.c`, `spinlock.c`, `pipe.c`, the file system) is
not in the repository.

### How the parts interact

* The harts share `proc[]`. Every field is guarded by the `p->lock` of its slot,
  except `parent`, which exit(), reparent() and wait() read without it.
* scheduler() takes `p->lock` and switches into the process, which releases it;
  sched() is entered with the lock and the scheduler releases it. The lock thus
  passes from one thread to another.
* A waiting parent sleeps on its own address under its own lock. exit() takes
  the parent's lock and then its own, reparent() a child's as a third one.
* sys_sleep() hands `tickslock` to sleep(), which trades it for `p->lock`; the
  clock interrupt calls wakeup() under `tickslock`.
* fork(), sbrk() and freeproc() take pages from kalloc() and give them back to
  kfree(), one at a time; sys_sysinfo() calls free_mem() and then count_proc().
* A system call goes from its stub through `syscalls[]` to its handler; the mask
  by which syscall() prints is written by trace() and copied by fork().
* The Lab 1 and chapter 3 programs interact through pipes whose ends fork() copies
  and through wait(); the thread programs through mutexes, semaphores, condition
  variables, a barrier and join.

### What is hard here

Interleavings of harts between two locks; values copied under a lock and used
after it (`original_parent`, the child found by wait()); a wakeup given too
early; a state that says "not running" while the stack is still in use; a child
that runs before its mask is copied; a fork that fails half way; lists kept
inside of the memory they manage; unsigned time that wraps; a scan of a table
that changes; pipe ends that somebody else still holds; descriptors that nobody
closes; a wait() that takes any child; one signal for several waiters; barriers and
joins that are one short. `PROJECT.json` lists each at its line with the
properties that would catch it.

## 2. The modules

| Module | Models | Composed from |
|---|---|---|
| `Proc` | proc.c at the grain of `p->lock` | refines `ProcTree` |
| `ProcTree` | abstract: what fork, exit and wait promise of the family | |
| `ProcProofs` | theorems about `Proc`: locks and stacks, then the family and its refinement | extends `Proc` |
| `Kalloc` | kalloc.c at the grain of `kmem.lock` and of the memset()s | refines `PagePool` |
| `PagePool` | abstract: a set of pages with atomic operations | |
| `Memory` | what fork(), sbrk() and freeproc() take and give back | pages as `PagePool` gives them; extends `Tally` |
| `MemoryProofs` | theorems about `Memory` | extends `Memory`, `TallyProofs` |
| `Sleep` | sleep, wakeup, kill and the clock, as sys_sleep() uses them | |
| `Syscalls` | the table, trace and sysinfo over processes that come and go | the actions of `ProcTree` |
| `MCKernel` | one state space for the kernel beside the process table | extends `Kalloc`, `Memory`, `Syscalls`; an instance of `Sleep` |
| `KernelProofs` | theorems about `Kalloc`, `Syscalls`, `Sleep`, and the run of `MCKernel` | extends `MCKernel`, `MemoryProofs` |
| `Primes` | primes.c, a chain of processes and pipes | |
| `ForkPrograms` | seven programs with one child, run by one interpreter | |
| `MachineInt` | the int of the user programs: its range, and the wrap of a sum | extended by `ForkPrograms`, `SharedCount`, `Readers` |
| `Xargs`, `Find`, `Shell` | xargs.c, find.c, the shell of chapter 3 | |
| `MCProcesses` | one state space for the programs of several processes | instances of the five above |
| `ForkProofs` | theorems about `ForkPrograms`, as `MCProcesses` runs it | extends `MCProcesses` |
| `ProcessesProofs` | theorems about `Primes`, `Shell`, `Find` and `Xargs`, as `MCProcesses` composes them, and its types | extends `MCProcesses`, `ForkProofs`, `TallyProofs` |
| `MCFind` | trees with many directories | extends `Find` |
| `DirectoryTrees` | the trees that the runs of find walk | extended by `Find`, `MCProcesses` |
| `BoundedBuffer` | project3.c | refines `BoundedFifo` |
| `BoundedFifo` | abstract: a queue with a capacity | |
| `SleepingTA`, `Philosophers`, `CondSignal`, `PidMap` | project1.c, project2.c, temp.c, 6-30.c | |
| `SegmentSort` | sort() of 6-34.c and projects2.c | |
| `BarrierSort`, `MergeSort` | main() of 6-34.c; main() and merge() of projects2.c | extend `SegmentSort` |
| `SharedCount`, `Readers` | 6-31.c, 6-33.c, 4-17.c; 4-16.c, projects1.c | |
| `Bridge`, `Banker` | the two programs of `第七章.md` | `Banker` extends `Tally` |
| `Tally`, `TallyProofs` | a sum of natural numbers as a cardinality; its laws, and those of division, least numbers and induction that the proofs need | |
| `MCPrograms` | one state space for the thread programs | extends `Bridge`; instances of the others but `CondSignal` |
| `ResultProofs` | theorems about the programs that print a result: the sorters, `SharedCount`, `Readers` | extends `MCPrograms`, `TallyProofs` |
| `ProgramsProofs` | theorems about `BoundedBuffer`, `PidMap`, `SleepingTA`, `Philosophers`, `Bridge`, `Banker`, and the run of `MCPrograms` | extends `ResultProofs` |
| `MCProc` | instances: symmetry, arguments, a constraint | extends `Proc` |

### How state and actions correspond to the code

**Proc.** The fields of `struct proc` are functions of the slot. `lock[p]` is the
hart that holds `p->lock`, `cproc[c]` the process on hart c. `pc[p]` is the
point at which the kernel thread of slot p is, `idx`, `orig`, `havekids` and
`target` are the locals of the system call it is in. A section that takes one
lock and touches only what it protects is one action; unlocked reads
(`reparent`, `WaitScan`) and second locks (`ExitLock`, `Adopt`, `WaitZombie`)
are steps of their own. A timer interrupt (`Yield`) can come wherever no lock is
held. fork() may fail at both of its points (`ForkNoTrapframe`, which leaves a
stale pid, and `ForkNoMemory`). init does not exit: it would be a panic on
purpose.

**Kalloc.** `word[p]` is the first word of page p: the link while the page is
free, junk afterwards. kalloc() reads the head and replaces it in two steps under
the lock and fills the page after it; kfree() fills before. `held` are the pages
in use.

**Memory.** A slot owns a trapframe, page-table pages and user pages; `top` is what
is mapped above user memory, `image` the user pages that are mapped, `sz` is
`p->sz`. Every page taken is a step that may find none, so that processes
interleave between any two of them; every error path gives back what the code
gives back (`GivesUp`, `NoPage`, `Undo`), and freeproc() goes by `p->sz`. Its
callees in `vm.c` are modelled from their use: how many page-table pages a mapping
takes, and that they panic when a table is freed with something mapped in it. The
new size of growproc() wraps at `SizeWrap` pages.

**Sleep.** `ticks` wraps at `Wrap`. The sections of sys_sleep(),
sleep() and wakeup() are actions; `tickslock` is explicit, `p->lock` is held by a
process only from `SleepLock` to `SleepSched`. `elapsed` and `lag` are history.

**Syscalls.** A process puts any number into a7. Numbers in the table run their handler,
others print a line. fork() creates the child under the child's lock and copies the mask
in a second step; fork() and wait() may also return -1 (`Fails`); the processes themselves
are those of `ProcTree`, so that slots are reused with the mask of the dead process still
in them. count_proc() takes one slot per step. `asked`, `always` and `ever` are history.

**Primes.** `fds[k]` are the pipe ends process k has open, `buf[k]` what is in
pipe k. read() returns EOF when the pipe is empty and nobody has its write end.
Every system call of the program is one action; fork() may fail.

**ForkPrograms.** Each process of a program is a sequence of calls, in the order
of the source; `Step` interprets them. Pipes know who wrote what (`heard`). A
fork may fail, a process dies where the code exits with an error, and the child may
be killed at any point. Numbers are ints: `3 * n + 1` wraps (`Successor`). 3-15.c checks
neither its ten bytes for one number nor its 4096 for all: past these limits the child
may go on or be ended (`Overruns`).

**Xargs, Find, Shell.** In `Xargs`, `arg` is the one array of pointers with its `MaxArg`
places, `Split` the second loop of readline(). A line whose words and null pointer have no
place in it overruns it (`Overruns`); the model ends there. In `Find`, `stack` are the
calls of my_find(), `open` the descriptors, and another process may unlink an entry
between two steps. In `Shell`, a process whose execvp() fails is a shell of its own;
`read` and `started` are history.

**BoundedBuffer, SleepingTA, PidMap, CondSignal, Philosophers.** A section under a
mutex is one action, except where two threads could be inside of it if the mutex
were missing (`BoundedBuffer`, with `Store` and `MoveFast`). A wait on a
condition variable is two: going to sleep and being woken.

**SegmentSort.** A comparison is one step, an exchange two stores. The array has
no lock: that the segments have no cell in common is what its results depend on.

**SharedCount, Readers.** `Lock` takes the semaphore and reads, `Update` writes and
releases; an addition wraps past `MaxInt`. The sum of main() in 4-17.c and that of
my_avg() wrap, too, and a list that is longer than num is not followed (`Overrun`). The
threads of `Readers` share nothing they write: a turn of a loop of 4-16.c is a step,
row(), col() and sub() are one each.

**Bridge, Banker.** The sections under a lock and what follows them are separate
steps, because the locks are held across a wait (`Bridge`) and the books are kept
in two places (`Banker`).

**MCKernel, MCProcesses, MCPrograms.** The parts put side by side do not interact
with each other, or only by what one promises the other (`Memory` relies on
`PagePool`, `Syscalls` on `ProcTree`; `Kalloc` and `Proc` are shown to implement
these). A behaviour chooses one part at the start and leaves the variables of the
others as they are; its fairness is that of the chosen part. The assumptions of the
parts are operators (`MemoryAssumption` and so on), and one ASSUME states them all.

Modules have definitions introduced as "Mistakes": plausible wrong versions of one
definition each. The specification does not use them. Put in the place of the right
definition they make a property fail. `PROJECT.json` names one for each property
of each passing run; the others break the remaining conjuncts of the properties
that have several parts (`PrintsRight`, `NoSignalLost`, `ShellKeepsUp`,
`ThreadsFinish`, ...).

## 3. The runs

| Run | Bounds | States | What it shows |
|---|---|---|---|
| `proc3` | 3 slots, 3 harts, pids to 4, kill(2) | 706,349 | type, panics, kernel stacks, unlocked reads of `parent`, child exits, pids, kill, how the system comes to rest; `Proc` implements `ProcTree` |
| `proc4` | 4 slots, 2 harts, a pid more than slots, at most one process preempted | 1,699,740 | no circle of locks without a reused parent slot, wait() and the tree with three generations below init |
| `kernel` | 3 pages on 3 harts; memory of 25 pages for 3 slots; 2 sleepers on a clock of 2 bits; 3 slots, 8 call numbers, 2 masks | 350,830 | owners of pages, refinement of the pool; no page lost and nothing freed that is not mapped; sleeps neither early nor late nor endless; traces stay in the family; counts between what was always and what was ever there |
| `processes` | sieve to 19, 12 descriptors; ints of 6 bits; xargs of 2 lines of up to 5 characters and 5 places; trees of 5 entries, 6 descriptors; a history of 3, 3 processes, 5 commands | 218,292 | output, descriptors and order of ends of the sieve; the exchanges of the seven programs; xargs, find and shell; all of them end |
| `programs` | as in `Programs.cfg` | 139,279 | FIFO queue, distinct pids, no lost signal, right output, one-way bridge, books of the bank; all threads end |
| `proc_cycle`, `proc_missed`, `proc_newborn`, `cond_signal`, `phil_share`, `phil_hang`, `find_all` | as in the cfg | | findings (section 6) |

The states are distinct states; with two workers the runs take up to four minutes.

**What the properties of `kernel` say.** `OneOwner`, `ImplementsPool`: a page is free,
in the hands of one hart, or in use, and kalloc(), kfree() and free_mem() are atomic
operations on a set. `NoLeak`: free and owned pages add up, and a free slot that
nobody fills owns none. `FreesWhatIsMapped`: what freeproc() frees by `p->sz` is
what is mapped, and no table is freed with something in it, in a fork undone half way
as in a dead process. `NotEarly`, `NotLate`, `SleepersLeave`: sys_sleep(). `TraceInFamily`:
a call is printed if and only if the process, or its ancestors before its birth,
asked for it, whoever had the slot before. `CountBracket`: count_proc() never counts
more than the processes that were there at some time of the scan, nor fewer than those
that were there all the time. It is not a snapshot: the number may be one that the
table never had, although Lab 2's report presents it as the number of processes in use.

**What the properties of `processes` say.** `PrintsPrimes`, `EndsInOrder`,
`DescriptorsFit`: the sieve. `ExchangesRight`: each program prints what it is to, in every
interleaving (the sequence 3n + 1 as far as an int holds the next number); a read never
gets what the same process wrote, unless the child is killed (pingpong's one pipe serves
both directions); the parent ends last. `XargsRuns`: the commands that are run are those
of the lines up to the first that is empty, too long for buf, or of too many words for
arg, each with the words of its line; `Words` defines these without the loop. The array is
overrun at a line of the last kind and nowhere else. A blank line ends the program,
although it is not the end of the input. `FindsOrFails`: each file once, in the order of
the walk, all of them if it ends well, and an error only for a reason. `ShellKeepsUp`:
"history" lists the last commands across the end of the ring. A shell does come back to
its prompt while a command in the foreground runs, because wait(NULL) takes any child: the
property says that this happens only for a command in the background that has been taken
instead, one for one. An ended child of the background stays until a wait() takes it.
`ProcessesEnd`: every wait ends.

**What the properties of `programs` say.** `ImplementsFifo`: project3.c. `PidsDistinct`:
6-30.c, with no failure in the tightest map. `NoSignalLost`: the assistant does not sleep
while a student who has posted waits; a fork that is waited for is still to be returned.
`PrintsRight`: sorted rows and arrays with all their numbers, the balance of the resource
at every state, counts equal to hits (both reduced to an int), maximum, minimum and, if an
int holds the sum, average, and a sudoku that is right only if it is one. `OneWay`,
`BankConserves`: 第七章.md. `ThreadsFinish`: all threads end and are joined, with three
exceptions it names: the philosophers (`phil_hang`), the customers of the bank, who may
guess badly for ever, and consumers of 6-31.c after an overflow (`Starved`).

**Why the bounds are enough.** The interesting cases of `Proc` need a process, its child
and its grandchild beside init, a slot that is used twice, and two harts inside of exit()
or wait(): three slots with four pids on three harts reuse a slot, four slots give the
third generation, and a fifth pid lets a grandchild get the slot of a dead parent
(`proc4`, with at most one process away after a timer interrupt, which keeps the run
within minutes). With these three together a circle of locks is reachable: `proc_cycle`
shows one, and `NoLockCycle` is not a theorem. `LockCycleNeedsReuse` is: in every circle a
hart is in exit() or reparent() with the lock of a parent slot whose process is younger
than its child. For `Kalloc`, three pages and three harts let all pages be in hands or in
use, so that the list is empty, has one page, and is popped and pushed at the same time;
the proofs cover every size. `Memory` has pages for two forks that just fit, or one and
two sbrk(1), so that every allocation is met by an empty allocator, also while another
process holds what it will give back; 2 is more than the size of a process, so that
sbrk(-2) wraps. `Sleep` lets the clock wrap with every argument in flight: with 2 bits, -1
is a sleep of 3 ticks, the longest there is. In `Syscalls`, three slots are init, a child
and a grandchild or a second child, with reuse; the numbers have every handler that does
something, one that does not, 0, and one past the table. For `Primes`, 19 is the eighth
prime: seven pipes are created by processes that hold 3 + k + 2 descriptors, the last of
which just fits in 12; with the real 35 there are eleven primes, the tenth process needs
15 of 16. `Xargs` has every pair of lines of up to five characters, with room for two
words beside the command and its option, and lines of three: blanks at the start, in the
middle and at the end, the second line shorter than the first, a line that is too long,
input without a last newline. `Find` has every tree of one and of five entries: with six
descriptors, three of them standard, both a fourth directory and a path of four names have
no room. The ring of `Shell` wraps with five commands, and a shell is forked from a shell.
`PidMap` has no pid to spare; the ring of `BoundedBuffer` wraps and gets full with more
producers than slots. The resource of `SharedCount` goes up to 7 (`MaxInt`) and overflows
in three rounds, and `Starved` is reached. The lists of `Readers` have sums above 7 and
below -8, and one has more numbers than `SIZE`. In `ForkPrograms` (`MaxInt` 31) the
sequences from 3 and 6 pass what fits into str, that from 6 also `Room`, and the one from
7 wraps. `Readers` is given the sudoku of projects1.c with any two rows or columns
exchanged within and across squares, and with any number in a cell of a diagonal. Three
cars from the left and two from the right make a first, a middle and a last one. Where the
system may stop (all threads end, or all processes are asleep, see `MissedWakeupHarmless`)
the cfg turns the check of deadlocks off, and liveness or `OnlyInitHangs` says how it may
stop.

**Model bounds.** `MaxPid` and `KillPids` (`Proc`) bound forks and kills;
`MaxElapsed` stops a history counter, `Lag` is how late a woken process may be
(`Sleep`); `MaxUnlinks` (`Find`) and `MaxCommands`, `Processes` (`Shell`) bound the
environment; `Goal` is the count `temp.c` waits for. Everything else is a size of
the program.

**Fairness.** `Proc`, `Kalloc`, `Memory` and `Syscalls` are checked for safety only. In
`Sleep`, the scheduler runs whoever is runnable (WF of the steps of a process), and
who spins on `tickslock`, the clock too, gets it in the end (SF): the spin locks
are not fair in theory, but every section under `tickslock` is short and the
clock comes back every tick. Calls and kills have no fairness. The programs of
several processes have WF per process, which is what the scheduler of xv6 (round robin
over the table) and that of Linux give; nobody has to kill or to unlink, and the shell
has none. The thread programs have WF per thread, as pthreads under a preemptive
scheduler give it; only a thread that needs a semaphore which others take and give
back again and again has SF: the waiter of `CondSignal` and the threads of
`SharedCount`, whose consumers poll. No spurious wakeup is ever relied upon.

## 4. What is proved

Proofs are in `ProcProofs`, `MemoryProofs`, `KernelProofs`, `ResultProofs`,
`ProgramsProofs`, `ForkProofs`, `ProcessesProofs` and `TallyProofs`. They hold for every
value of the constants, from named assumptions: sizes are natural numbers or positive,
"nobody" is no hart and no thread, init is not killed, the memory is less than half of
what a size can count, masks are sets of call names, threads, cars and customers are
finitely many, there are as many pids as threads (6-30.c), at least three philosophers
(project2.c) and one chair (project1.c), the threads of 6-34.c divide its array and what
is given to 4-16.c is not empty, the arguments and the numbers given to programs are ints,
the sum of code.c fits into one, the main() of the counters has places for its threads,
the descriptors of a process of the sieve are enough for three, one for each prime and one
more (16 for 11 primes in the code), between a prime and its square there is another
(`NextPrime`, which Bertrand's postulate implies), the history of the shell has two places
or more, the entries of a tree are numbered as a walk meets them, the command of xargs is
not empty, has no null pointer among its arguments and leaves a place in the array, and no
text of a line is longer than `buf`. `ProcAssumption` and `KallocAssumption` are ASSUMEs
of their modules; the others are operators, which the ASSUMEs of `MCKernel`, `MCPrograms`
and `MCProcesses` conjoin.

| Theorem | Says |
|---|---|
| `ProcProofs!TypeCorrect` | types; the loops over `proc[]` stay inside of it |
| `ProcProofs!NeverPanics` | the panics of sched(), wakeup1() and acquire() are unreachable |
| `ProcProofs!OneHartPerStack` | one hart per kernel stack; a process not RUNNING keeps its lock until it has left its stack |
| `ProcProofs!UnlockedReadsSafe` | the unlocked reads of `parent` are still true when the child is locked |
| `ProcProofs!PidsUnique` | pids differ, stale ones included |
| `ProcProofs!KilledRuns` | no killed process sleeps |
| `ProcProofs!ChildExitSeen` | nobody but init sleeps beside a zombie child |
| `ProcProofs!WaitTellsTruth` | wait() finds no child only if there is none |
| `ProcProofs!FamilyRooted` | all processes descend from init |
| `ProcProofs!LockCyclesNeedReuse` | harts wait in a circle for p->locks only if the slot of a parent copied by exit() belongs to a younger process |
| `ProcProofs!RestMeansInit` | if nothing can run, only init is left |
| `ProcProofs!TreeRefinement` | `Proc` implements `ProcTree` |
| `KernelProofs!TypeCorrect` | types; free_mem() counts no more pages than there are |
| `KernelProofs!PagesOwnedOnce` | no page has two owners |
| `KernelProofs!AllocatorIsPool` | `Kalloc` implements `PagePool` |
| `MemoryProofs!NothingFreedWrong` | what is freed is what is mapped, whichever allocation of fork() or sbrk() fails |
| `MemoryProofs!NothingLeft` | a free slot that nobody fills owns no page |
| `MemoryProofs!PagesAddUp`, `MemoryTypes` | free and owned pages are all pages; sizes stay in range |
| `KernelProofs!CallTypes` | types; a count is no larger than what has been scanned |
| `KernelProofs!TracesStayInFamily` | a call is printed if and only if the process or an ancestor asked for it |
| `KernelProofs!CountsWhoIsThere` | count_proc() counts all that are there throughout, and none that never is |
| `KernelProofs!SleepsNotTooLong`, `SleepsNotTooShort` | sys_sleep() is neither late nor early, over the wrap of `ticks` |
| `KernelProofs!KernelTypes`, `KernelSafe` | the specification of the `kernel` run has all its properties but the types of the allocator (above) and liveness |
| `ProgramsProofs!RingIsFifo`, `RingInBounds` | project3.c implements `BoundedFifo`; indices and semaphores stay in range |
| `ProgramsProofs!PidsDiffer` | the pids of 6-30.c differ and no scan fails |
| `ProgramsProofs!SignalsArrive` | no signal of project1.c and project2.c goes to the wrong one |
| `ProgramsProofs!BridgeIsOneWay` | cars of both sides are never on the bridge together |
| `ProgramsProofs!BankKeepsTotal` | the books of the bank balance |
| `ResultProofs!RowsPrinted`, `ArrayPrinted` | 6-34.c and projects2.c print all numbers of their input, in order |
| `ResultProofs!NothingIsLost` | the counts of 6-31.c, 6-33.c and 4-17.c are what the turns have put into them, as an int holds it |
| `ResultProofs!ResultsPrinted` | 4-16.c finds the largest and the smallest of a list that fits into num, and the average if an int holds the sum; projects1.c what is a sudoku |
| `ResultProofs!AllPrintRight` | all of these together: `PrintsRight` of the `programs` run |
| `ProgramsProofs!ProgramTypes` | types; no index of a program leaves its array, no count exceeds what it counts |
| `ProgramsProofs!ProgramsSafe` | the specification of the `programs` run has all its properties but liveness |
| `ProcessesProofs!SieveRight` | pipes, descriptors, points and primes of all processes of the sieve: its inductive invariant |
| `ProcessesProofs!SievePrints` | primes.c prints the primes in order, and all of them if no fork() fails |
| `ProcessesProofs!SieveDescriptors` | no process of the sieve runs out of descriptors |
| `ProcessesProofs!SieveEndsInOrder` | a process of the sieve ends after those below it |
| `ProcessesProofs!ShellPrompts` | the history is the last commands; a prompt has as many foreground commands left over as background ones were taken for them |
| `ProcessesProofs!FindRight` | what is ahead of the walk of find and what is behind it: its inductive invariant |
| `ProcessesProofs!FindComplete` | find prints every file of the name once, or fails for a reason |
| `ProcessesProofs!XargsRight` | what the array of xargs holds, and which lines have been run, for any number of its places: the inductive invariant |
| `ProcessesProofs!XargsComplete` | xargs runs the command once for each line, with the words of this line, up to an empty one or one that buf or the array has no room for |
| `ForkProofs!ForkRight` | where parent, child and thread of the seven programs with one child are together, and what is then in pipes, buffers and on the console: their inductive invariant |
| `ForkProofs!ExchangesComplete` | these programs print what they are to print, for every int given to them (the sequence until it wraps), nobody reads what it has written itself unless the child is killed, and the parent ends last |
| `ProcessesProofs!ProcessesTypes` | the types of all programs of the `processes` run |

**Proc, the locks.** The invariants of the runs are not inductive: that a hart holds
`p->lock` at the swtch follows only from where every thread is. `IInv` has, beside
the types, the parts

* `HartsDistinct`, `LockInv`: the locks a hart holds are exactly those its thread
  has taken at its program point (`HeldAt`);
* `StateOnHart`, `StateOffHart`: `p->state` tells where the thread is. A process
  not RUNNING is still on a hart only between the change of its state and its
  swtch, where it holds its lock; a process off its hart resumes where it left;
* `FamilyInv`: who is in use has a parent that has not exited, and no two
  processes are each other's parents; init never exits;
* `IndexStart`, `ChildInv`: the scan of reparent() starts at the first slot and
  leaves no child behind it, so that a zombie has no children and a slot that is
  freed is nobody's parent;
* `OrigInv`: the parent copied by exit() is neither the process itself nor one of
  its children, so that exit() never takes a lock twice. This needs the part of
  `FamilyInv` about circles, and holds although the slot may have been reused;
* `ParentSettled`: the unlocked reads.

With these a step disturbs few parts each time. A step that takes a lock is safe
because a free lock means, by `LockInv`, that its owner is at no point that holds
it.

**Proc, the family.** `KinInv` is built on `IInv`. `PidInv`: pids differ, and a child has
a larger pid than its parent. That is the rank which makes the tree well founded: in a set
of processes without init the one with the smallest pid has its parent outside
(`FamilyRooted`; `Smallest` finds it with the library's facts on finite sets, without an
induction). It also orders the locks: who holds one and wants another wants that of a younger
process, unless it is in exit() with a copied parent slot that has been reused
(`LockCyclesNeedReuse`: the youngest process wanted in a circle is held by somebody who
wants a younger one). `OrigIsParent`: the parent that exit() has copied is still the parent, or init
has become it. So the wakeup of exit() goes to the right sleeper unless that is init, and
`SeenInv`, that no child behind a scan of wait() is a zombie, lets a parent sleep only
beside living children. `HasChild` and `KidsStart` tie `havekids` to a child that is
there; init, to which children are given behind its scan, needs `InitScan`: as long as it
has seen none, there is one ahead, or nobody is left. In the refinement a slot is "free",
"live", "exiting" or "zombie" by its state and the point its thread is at; the commits are
the points at which `Status` or `parent` changes, and `ChildInv` and `ParentSettled` give
the guards of the abstract steps.

**Kalloc.** That the list is the free pages is a statement about reachability,
which needs induction over the list. The inductive invariant avoids it: there is
a numbering d of the pages (`Ranked`) that goes down by one along the links of
free pages, names no two free pages alike and gives the head the number of free
pages. Pop removes the page with the highest number, PushHead adds one above it,
so the numbering is given explicitly in each case. From it follows that an empty
list means that no page is free (kalloc() returns 0 only then), and that a walk
has counted `Cardinality(Free) - d[r]` pages when it is at r, so that its result
is exact. With `HandInv` (what the local `r` stands for) and `LockInv` each step
is a step of `PagePool` or a stutter.

**Memory.** What a slot has mapped depends on how far the call is that fills it, and
that slot belongs to no process in use. `MemInv` says, beside the types,

* `CallInv`: a process in a call works either on itself, in sbrk(), where its table
  is complete, or on a free slot, in fork(), whose memory has the `Shape` of the
  point the call has reached, with `p->sz` still 0;
* `Apart`: no two of them work on the same slot, which is what the lock that
  allocproc() keeps is for;
* `SlotInv`: the slots nobody works on are whole (what is mapped is `p->sz` pages), or
  free and empty.

How many pages are free does not occur in it: an allocation may fail at any time.
`FillStep` has the steps inside of a call, which change one slot and one place (by
`GoesOn`), `UserStep` those that begin or end a call. `PagesInv` adds the balance, and what
it needs: a page taken is one that is free, and what is given back at once (a whole slot, or
what an undone copy had) is what the slot owned. The sum over the slots is `SumOf` of
`Tally`, a cardinality: what one slot more or less does to it follows from the laws of
finite sets (`TallyProofs`), where a recursive sum would need induction.

**Syscalls.** A slot that fork() has just taken has the mask of its last process, which is
not what the new one asked for. `CallsInv` says that this is so only while the parent still
holds the lock of the child (`MaskInv`), when the child cannot run, exit or be freed
(`PlaceInv`), and that a child is in one fork at a time (`OneParent`). `LastInv` ties the
line that was printed last to a process that is still in the table, so that freeing
others does not disturb it. For the count, `CountInv` puts the used slots between
`always` and `ever`; `CountBracket` then compares cardinalities of the scanned parts
before and after one more slot is counted (`Counted`), and freed or taken slots change
`always` or `ever` in the direction that keeps it.

**Sleep.** `NotLate` is not inductive: a sleeper that is asleep in good time may be late
later. `ClkInv` says who holds `tickslock` (`Locks`), that the unsigned difference
`ticks - ticks0` is the time that has passed (`Measured`), and for each point of
sys_sleep() how much of its time is gone (`InTime`): whoever is asleep, or is about to
be with `tickslock` or `p->lock` in its hands, has time left, except during the one tick
whose wakeup() has not come to its slot yet. A tick cannot come while the wakeup of the
last one is under way, so that nobody is passed over twice.

**The ring.** `Semaphores` in `RingInv` gives `empty` and `full` as numbers of threads at
certain points of their code, and the two indices lie as far apart as there are items in
the ring (`InRing`, modulo its size). With the mutex (`MutexHeld`) one thread is between
its store or load and the move of the index. The items of `BoundedFifo` are then the
cells from `slow` to `fast`, and each move of an index is an operation of the queue.

**Pid map.** A pid behind the scan of a thread is or was that of another thread
(`Passed`), and a thread takes one pid in its life: a scan that has passed all pids
would have met as many other threads, more than there are (a pigeonhole on finite sets).

**Assistant, philosophers.** Of the students who have posted, all but those whose post is
still in the semaphore have been counted as taught, or will be with the post just taken
(`TAInv`); the free chairs follow from the same counts. In project2.c only the first fork is
ever marked, so that a philosopher waits for a neighbour that has marked it and still has
to return it (`TableInv`).

**Bridge.** `CountInv`: the count of a side is the number of its cars between `Acquire`
and the section in which they leave, a cardinality. With `LockInv`, one car of a side is in
a section, so that "the count is one" and "the count is zero" mean what the code takes
them for: no other car of the side has the bridge (`Alone`). `BridgeInv`: the semaphore
of the bridge is taken if and only if some side has it, and only one does.

**Bank.** `Covered`: what a customer asks for it needs, and what it releases it has, also
while its books are behind those of the bank. So no term of the balance is negative, and
the balance is again a `SumOf`.

**Sorters.** `SortInv` follows one permutation of the cells: num is the input rearranged
by it, if a thread between its two stores is taken to have made the second one
(`Rearranged`), and an exchange is a permutation with two cells swapped. `Segments`: no
two threads have a cell in common, so that a step of one leaves the others' cells alone,
and `Ordered`: each segment is in order before its index i, with nothing smaller behind
it. In 6-34.c the barrier opens when all threads are "sorted". In projects2.c, merge()
knows where each number of merged came from (`Copies`), no cell twice, and none that is
left is smaller (`Merging`): at the end the places are a permutation again. The property
counts how often a number occurs in the input and in the output: a permutation is a
bijection between the two.

**Counters.** `OneHasLock`: one thread is between `Lock` and `Update`, and the variable is
still what it has read. So the variable is the balance of the turns, reduced to the range of an
int (`SumsRight`); that reduction forgets multiples of 2 * (MaxInt + 1), which is why the
additions may wrap on the way and the balance is right all the same (`SameRemainder`). The
amounts are sums of 1 .. i, for which k * (k + 1) is even. The sum of main() in 4-17.c is a
`SumOf` over the threads joined so far.

**Readers.** `LoopsRight` is the usual invariant of the three loops. A row of
Side * Side numbers out of as many, none repeated, has them all: the pigeonhole of finite sets
(an injection on a finite set is onto). `SquareOf` says that sub() reads each small square once,
by the laws of quotients and remainders.

**Types of the programs.** They follow from these invariants; beside them the bank needs that
need and allocation of a customer are together at most the total (`BankBounds`), and merge()
that its indices stay in their halves when it has ended (`MergeRange`).

**Sieve.** The numbers that processes 1 to k - 1 let through are the `Candidates` of
process k, and `SieveInv` says everything in their terms. `PrimesRight`: the prime of k is
the least of them, hence a prime, and with none left out. `NumbersRight` and `PipesRight`:
what is in a pipe are the candidates between the number its reader has last taken and the
one its writer has last dealt with, in order; so read() returns the next candidate.
`Chain`, `EndsOpen` and `EndsRead` say who exists, which ends each holds at each point,
and who has read to the end: nobody else has the write end of a pipe, so that EOF comes
when its writer has closed it, and only then. The first read of a process never meets the
end (`NoneMissed`): the first number that k has in hand when it forks is not a multiple of
its prime, because a prime comes before the square of that prime (`NextPrime`). write()
fails only to a child whose own fork() was refused. The descriptors of process k are at
most k + 2 beside the standard three, and the first k primes go into the primes up to
`Last` (an injection).

**Shell.** `RingRight`: the i-th command is at (i - 1) % Slots until as many others as the
ring has places have followed; that two numbers less than m apart have different
remainders is a lemma on division. `ChildrenRight` counts, for each shell, the foreground
commands nobody has waited for and the background ones a wait() has taken: equal at the
prompt, one more of the former before a wait(), and whichever child that takes restores
the balance.

**Find.** Who is above whom is a recursive function of `DirectoryTrees`; that it is defined
on the whole tree (`AboveIs`) is an induction over the number of entries, which works
because parents have smaller numbers than their children. A subtree is then an interval
of numbers, and what the walk has seen are the entries up to the one it is at.
`FindInv`: the directories of the calls lie inside of each other and around the entry;
what is ahead of the walk and still there is in one of them, or in a directory ahead; of
what is behind it the files of the name have been printed, in order; and no more
descriptors are in use than directories have been opened, each once. Another process
disturbs none of this, because it takes away files and empty directories only. When the
outermost directory has no entry left, nothing is ahead. A failure has its reason by the
count of the directories.

**Xargs.** `Split` is the loop of readline() as a recursive function, `Words` says what
words are without a loop: one begins at the first byte, and where a blank is followed by
another byte. That they agree is an induction from the end of the line, in which the words
of what is left are the next one and those behind it; the m-th element of a set of numbers
is the one with m - 1 smaller ones. `XargsInv`: while fork() is to come, the array has the
given arguments, the words of this line and then a null pointer, whatever is behind it;
and the commands that have run are those of the lines done with whose fork() has not
failed, the k-th of them at the place that k has among them. A line that fits (`Fits`)
leaves the given arguments alone and its null pointer inside; the first that does not is
where `Overruns` stops.

**Programs with one child.** A program is a sequence of calls, so that an invariant for
each says what holds while its processes are at one pair of places (`ForkInv`). `Kin`: the
child begins at fork(), and behind wait() the parent knows that it has ended. What is in a
pipe follows from the two places: in pingpong.c, the parent's byte until the child has
taken it, then the child's until the parent, which wait() has held back, takes that. The
child of 3-19.c and 3-20.c has its read end until it has read (`SwapInv`, `CopyInv`), so
that a write of the parent fails only if the child has died; in pingpong.c none fails,
because the parent keeps its read end. Parent and child of 3-12.c and 3-20.c print their
first line in either order, and the invariant names both. The sequence of 3-14.c and
3-15.c is right as far as it is printed (`Turns`), and the number in hand is the one that
follows, by the laws of division as long as it does not wrap (`SuccessorIs`, `WrappedIs`);
that it ends, nobody knows. The sum of code.c is that of the numbers
before i (`SumBefore`). A process that dies, the killed child too, leaves the places and
the pipes as they are, and only what depends on both having finished (`aborted = {}`) is
lost.

**The runs' specifications.** `EachSubsystem` and `EachProgram` show that a behaviour of
`MCKernel` or `MCPrograms` is one of each of their parts: the theorems about the parts are
theorems about what the runs check (`KernelSafe`, `ProgramsSafe`).

**Only model-checked.** Liveness needs fairness and ENABLED, which the prover does not
handle: `SleepersLeave`, `ProcessesEnd` and `ThreadsFinish` are TLC's. `NoLockCycle` is
false (`proc_cycle`), and what is true of it is a theorem. All invariants
of the passing runs are theorems. Induction is within reach over natural numbers, by a set
of them that has no least element outside of it (`Inductive` in `TallyProofs`), and so
over trees and lines that are numbered; over lists of any other kind it is not. No module
declares a RECURSIVE operator.

## 5. What is not modelled

* Formatting and printing, page tables as trees, open files, cwd and the exit status
  of the kernel, the copying to and from user memory.
* `trap.c`, `vm.c`, `spinlock.c`, `pipe.c` and the file system, which are not in the
  repository: what the models need of them is taken from its use in the files that are.
* `Lab1/sleep.c`, which calls sleep() once, and `3-13.c`, the pid map of one thread.
* `4-15.c`: func() releases the number of seconds it slept (`temp`), not its pid, so that
  its map means little. `第四章.md:73` puts the wrong result down to concurrency; this line
  is a reason without any.
* Undefined behaviour that is a fact of memory layout and not of a state machine:
  readline() returns pointers into its own frame, which main() uses after it
  (`xargs.c:31`); a name of 14 bytes has no end in `struct dirent` (`find.c:60`).
* What happens after a program has written past the end of an array. Where the index comes
  from the input and is not checked, the limit is in the model: the model stops there
  for `arg[MAXARG]` of xargs.c (`xargs.c:31`, `:66`) and `num[512]` of 4-16.c (`4-16.c:50`);
  for `str[10]` and the 4096 bytes of shared memory of 3-15.c (`3-15.c:18`) it lets the child go
  on or die. Preconditions, which no model checks, are: the command of xargs itself has less
  than 32 words; `p[100]` of 4-17.c has places for its threads (6-33.c tests its 1000);
  file1 of 3-20.c is shorter than its 512-byte buffer, and file2, which is opened without
  truncation, is new; a line of the shell fits into `temp[24]`, its words into `args[41]` and
  the whole into the 100 bytes of a history entry (`project1.c:5`, `:14`, `:34`).
* Overflow of an int by addition is modelled as the wrap the machine does (6-31.c, 6-33.c,
  4-17.c, 4-16.c, 3-14.c, 3-15.c). Left out: `nextpid` (`proc.c:82`) after 2^31 forks, the
  product `n * LOOPS` and the division by which PI is printed, and atoi() of a text that is
  no int. That the sequence of 3-14.c ends although it wraps is checked for the arguments
  of the run only.
* The listings in the ostep notes, which are excerpts from the book, some of them wrong
  on purpose, and no programs of this repository; the reports and the homework texts.
* malloc(), pthread_create() and lock initialisations that fail.

`PROJECT.json` has a line for each component.

## 6. Findings

| Run | Line | What |
|---|---|---|
| `proc_cycle` | `proc.c:373` | exit() locks a parent it copied before; the slot may have been freed and used for a grandchild, and two harts wait for each other for ever. The comment calls the race harmless. |
| `proc_missed` | `proc.c:358` | init can miss the wakeup for a zombie it inherits, and keeps asleep when nothing else runs. |
| `proc_newborn` | `proc.c:111` | a fork that fails leaves a pid in the free slot; kill() finds it there, and the next fork is born killed. |
| `find_all` | `find.c:13` | no directory is closed: with the start and twelve directories below it all descriptors are in use, and find ends with an error. |
| `phil_share` | `project2.c:20` | the second fork is never marked: two philosophers eat with it. |
| `phil_hang` | `project2.c:17` | all philosophers hold one fork and wait. |
| `cond_signal` | `temp.c:22` | the signal can come before the wait. |

Smaller ones, which a property names as an exception or a comment of a module tells: the
parent in 3-19.c keeps the write end of the pipe it reads, and waits for itself if its
child is killed (`ForkPrograms!Over`); a child whose exec fails stays in the shell's loop
(`Shell!Exec`); a blank line ends xargs (`Xargs!Stops`), and a fork() that fails makes it
skip the line (`Xargs!ForkFails`); a line of about 32 words overruns its array
(`Xargs!Overruns`); 4-16.c averages a sum that may have wrapped (`Readers!Add`);
`resource` of 6-31.c overflows with the real 100000 rounds, after which consumers may poll
for ever (`SharedCount!Starved`).

## 7. Plan

Done so far, in this order: `Proc`/`ProcTree`, `BoundedBuffer`, `SleepingTA`,
`PidMap`, `CondSignal`, `Philosophers`, `Sleep`, `Kalloc`/`PagePool`, `Primes`, the
sorters, the proofs of `ProcProofs` and of `Kalloc`; then `Memory`, `Syscalls` and
`MCKernel`, `ForkPrograms`, `Xargs`, `Find`, `Shell` and `MCProcesses`, `SharedCount`,
`Readers`, `Bridge`, `Banker`, and the proofs of `MemoryProofs`, of the system calls and of
the bridge; then the family in `ProcProofs` with the refinement of `ProcTree`, `KernelProofs`,
`TallyProofs`, `ResultProofs` and `ProgramsProofs`; then the sieve, the shell, find
and xargs in `ProcessesProofs`, the programs with one child in `ForkProofs`, and with them
the types of `MCProcesses`.

Of the code there is, what remains to be modelled is listed in section 5 with its
reason. Every invariant of a passing run is a theorem; liveness stays with TLC (section 4).
