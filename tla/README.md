# A formal model of BottlerOS

TLA+ specifications of the kernel, the shell and the build tools of this repository, model-checked with TLC on
small instances and, where marked, proved with TLAPS for every instance.
`PROJECT.json` holds the table of runs, the mutants that show that each property can
fail, the map from every definition to its lines of source, and the list of hazards.

## 1. The system

BottlerOS is a small 64-bit kernel for one CPU, with a shell in user space.

| component | source | state | operations |
|---|---|---|---|
| scheduler | `Kernel/utils/scheduler.c` | process list, current process, idle flag, sleepers | create, kill, exit, block, unblock, wait, nice, yield, sleep; `nextProcess` on each tick |
| timer and interrupts | `Kernel/asm/interrupts.asm`, `interruptions/` | CPU context | `_irq00Handler` runs `checkSleeping` and `nextProcess`; `forceTimer` is `int 20h` |
| semaphores | `Kernel/utils/sem.c` | list of named semaphores: value and queue of pids | open, close, wait, post |
| heap manager | `Kernel/utils/memManagerFRT4.c` | free list, headers, counters | `pvPortMalloc`, `vPortFree` |
| buddy manager | `Kernel/utils/memManagerBuddy.c` (with `make buddy`) | tree of node states | `buddy_alloc`, `buddy_free` |
| process memory | `scheduler.c`, dispatcher, with `FREE_EXIT` | the mallocs of each process | registered by the dispatcher, freed by `kill` |
| pipes | `Kernel/utils/pipe.c` | ring buffers and two semaphores shared by name | open, write, read, close |
| keyboard and `read` | `drivers/keyboard.c`, `interruptions/systemCalls.c` | one-key buffer, modifier flags | key interrupt, blocking read |
| video | `drivers/video.c` | video memory, cursor | write a string, backspace, scroll, clear |
| time | `drivers/time.c`, `asm/libasm.asm` | the chip's registers | `getTime`, `getTimeOfDay` |
| shell | `Userland/SampleCodeModule` (`shell.c`, `sampleCodeModule.c`) | line, table of commands | read a line, split it, load commands, pipe them, wait, built-ins |
| philosophers | `shell/commands/phylo.c` | ring of philosophers, mutex | eat, add, remove, end |
| user library and commands | `libc.c`, `shell/commands/` | local buffers | split, number conversion, `cat`, `filter`, `wc`, `time` |
| module packer and loader | `Toolchain/ModulePacker`, `Kernel/moduleLoader.c`, `kernel.c` | image file, memory | pack, load, clear the bss |

**Interaction.** User code enters the kernel by `int 80h`, whose dispatcher calls the
components. All IDT entries are interrupt gates, so kernel code runs with interrupts
off: a system call is atomic *up to the point where it gives up the CPU* by
`forceTimer`, and resumes there, still with interrupts off, when `nextProcess` picks the
process again. That is where the concurrency of the kernel is: the rest of `semWait`
after its `block`, the rest of `wait`, the rest of `read`. The spin lock of `sem.c` is
released before every switch and so is never found taken. User code, on the other hand,
can be preempted between any two instructions, and all processes share the one module
it is in with its globals: the ring of `phylo.c`, the table `commands[]`.

**What is hard here.** Orders of kill, block, unblock, wait and sleep around a tick; the
list walked by `nextProcess` while it is being cut; the state a process finds when it
resumes in the middle of a call; null pointers that are dereferenced and read zeros at
address 0 (the IDT), which decides how `checkSleeping` and the foreground hand-over
behave; counters compared with `==`; a ring changed without its mutex; a pointer into a
dead stack frame; buffers of one key, one line, one row. The list `hazards` goes through
them.

## 2. Modules

| module | models | builds on |
|---|---|---|
| `Scheduler` | scheduler and timer handler | |
| `Semaphores` | `sem.c`, composed with the scheduler: its next-state relation contains the scheduler's, and blocks and wakes through the scheduler's own `block` and `unblockFirst` | `Scheduler` |
| `Pipes` | `pipe.c` and the pipe side of `read` and `write`, composed with semaphores and scheduler | `Semaphores` |
| `Keyboard` | keyboard driver and the terminal side of `read`, composed with the scheduler | `Scheduler` |
| `Shell` | `main()` of the user module and `shell.c`, composed with the scheduler | `Scheduler` |
| `Philosophers` | `phylo.c`, over abstract semaphores that hand off as `Semaphores` shows | |
| `Allocator` | abstract: what the kernel expects of any memory manager | |
| `Heap4`, `Buddy` | the two memory managers, shown to implement `Allocator` | |
| `ProcessMemory` | which blocks a process holds and what its end frees | |
| `Video`, `Clock` | drivers | |
| `CommandLine`, `Filters`, `Numbers` | line editing and splitting, text commands, number conversion | |
| `BootImage` | module packer and loader | |
| `SchedulerProofs` | theorems about `Scheduler`, and the invariant the other proofs start from | `Scheduler` |
| `SemaphoreProofs` | theorems about `Semaphores` | `Semaphores`, `SchedulerProofs` |
| `PipesProofs` | theorems about `Pipes` | `Pipes`, `SemaphoreProofs` |
| `TerminalProofs` | theorems about `Keyboard` and `Shell` | `Keyboard`, `Shell`, `SchedulerProofs` |
| `AllocatorProofs` | theorems about `Heap4` and `Buddy`, and that both implement `Allocator` | `Heap4`, `Buddy` |
| `PhilosopherProofs` | theorems about `Philosophers` | `Philosophers` |
| `PartsProofs` | theorems about `ProcessMemory`, `Clock` and `Video` | these three |
| `DataProofs` | theorems about `BootImage`, `Filters`, `Numbers` and `CommandLine` | these four |
| `MC*` | instances for TLC; `MCAllocators` has both managers, and a run is of one of them | |

### Scheduler

`procs` is the linked list `firstProcess..lastProcess` as a sequence of pids; the fields
of `processCDT` are functions on pids (`state`, `ppid`, `priority`, `executions`,
`foreground`, `backWait`, `children`), with state `"NONE"` for a pid that has no
`processCDT`. `current`, `idleFlag`, `firstBlockedIteration` and `pids` are the globals of
those names. `sleeping` is the list at `firstSleep`, with the seconds left instead of two
clock values. `mode` tells where the CPU is: in user code, in the loop of
`checkSleeping`, in the loop of `nextProcess`, or in a list that `unblockFirst`
corrupted (reached from `Semaphores` only). Those loops take one step per iteration;
during them only the clock moves.

One action per system call (`SysLoadProcess`, `SysKill`, `exitProcess`, `SysBlock`,
`SysUnblock`, `SysNice`, `wait`, `blockIO`, `quitCPU`, `sleep`), one for the tick, one for
the keyboard's `unblockIO`, and one per branch of the handler's loops (`wakeUp`,
`EnterNextProcess`, `NextWrap`, `NextAllBlocked`, `NextReap`, `NextSkip`, `NextRun`).
A call that returns `EXIT_FAILURE` changes nothing and is no step. The set `Calls` says
which calls the processes of an instance make.

Two details come from the machine. A parent that left the list is a null pointer, whose
fields read as zero, so the foreground is handed to nobody. And `prev->next` with
`prev == NULL` in `checkSleeping` (scheduler.c:206) reads zero, so the scan stops after it
woke the head of the list.

`lapses` is a history variable. It records calls after which the code no longer gives
one of its guarantees, so that a property can say exactly when it holds:
`killDead` (kill of a process already dead: `children` is decremented twice), `killIdle`,
`killLender` (kill of a process that has lent the foreground), `niceBelow` (a quantum
made smaller than the ticks already used), `lateWait` (`wait` in the last tick of a
turn, which unlike `block` and `blockIO` does not reset `executions`) and `wakeIdle` (a user
unblocks the idle process, which then takes its turns among the others that are ready until
somebody blocks it).

### Semaphores

`value` (modulo `SemMod`, for `unsigned int`), `entering` (the queue), `isOpen`; `waitingOn[p]`
is the rest of a `semWait` in which `p` is suspended, run by `semWaitResume` as soon as
the scheduler picks `p`, before any interrupt. `holding` and `faults` are history: who has
waited and not posted, and the events that void guarantees (`spuriousWake`: a waiter
made ready by something else than a post; `killedWaiter`; `killedHolder`;
`closedWaiter`). Processes use a mutex as one does: they do not wait for one they hold
and post only one they hold.

### Pipes

All pipes share the semaphores `Pipes` (a lock) and `FullSem` (the unread characters), which
`openPipe` finds by name. The module contains the scheduler's and the semaphores' own
actions; each call of `pipe.c` is cut at its `semWait` and `semPost` calls, and `call[p]` says
where `p` goes on. While a process is inside a call no scheduler step is possible, except
the ones that `semWait` and `semPost` make themselves. `fd[p]` are the two ends given to a
process when it is loaded. `semsOf[n]` tells whether the semaphores of a pipe are the ones
that exist now or were freed by the closing of another pipe. `sent` and `received` are
histories; `slips` records what voids guarantees: `overrun` (a writer more than
`PIPE_MAX_SIZE` ahead: nothing counts empty slots), `shared` (two pipes open at once, with
one count between them), `closedInUse`. A call on a pipe or semaphore that is gone works on
freed memory or a null pointer and leads to mode `"corrupt"`. `blocks` are the heap blocks that
pipes hold, four for each. `closePipe` frees the array `fd` of a `pipe_t` (pipe.c:128), which is its
first member and so frees the `pipe_t` itself; it reads `name` and `buffer` from there and frees the
`pipe_t` once more. All of this is one action, interrupts being off: nobody can be given the
memory in between, so the members are still there, and the second free finds the bit of
the header cleared. The indices `currentR` and
`currentW` are integers without width: an instance writes a few characters.

### Heap4, Buddy, Allocator

`Heap4` keeps the free list as a sequence of addresses, the block sizes of the headers,
the top bit of the size in each header (`header`) and the two counters. `vPortFree` goes by that
bit: a header stays in memory when its block is freed or merged, with the bit cleared, so
a pointer that has gone stale is let pass until its memory is given out again. What a caller may
have written there (`"written"`) can look like a header or not; a free of such a pointer is not
followed. That the bit is set for exactly the blocks handed out (`allocated`, a history) is
`HeadersTell`.
`prvInsertBlockIntoFreeList` is given by what it makes of list and sizes; alignment and
header size are parameters. `Buddy` keeps the tree array (`tree`); its depth `LEVEL`, the
`PAGE_SIZE` and the sizes that are asked for (`Sizes`) are parameters. Its loops over the tree
climb from a node to the root, and are written in closed form over the ancestors of the node;
contents below a used or unused node are stale, as in the code, and stay in the state.
Both keep a history variable with the size a block was requested with (`asked`, `wanted`), so
that the refinement mapping to `Allocator` can say that a grant is large enough.

`Allocator` promises: a grant is aligned, at least as large as asked, inside the heap and
disjoint from every other; a free takes back one grant; nothing else changes.

### Keyboard

`buffer` is the one character between interrupt and `read`, `flag`, `flagAlt` and `flagF1` the
modifier state of the driver, `reading` the processes suspended inside `read()`. A scan
code is a key going down or up; of the tables only matters whether a key has a character
with and without shift. Next to what the driver computes, `held` and `due` say what the
user means: the modifiers that are down and the characters typed and not yet handed out.
`slips` records a key written over an unread one, two shift keys, caps lock, and a reader
that lost the foreground while it slept. After `blockIO` the code compares the byte *before*
the caller's buffer with -1 (systemCalls.c:41), which nobody wrote: `readResume` may return
empty-handed at that point.

### Shell and CommandLine

`Shell` starts where the machine does: `main()` (pid 2) loads `bottler`, waits for it, loads the
shell in the foreground and exits. A line is what `processInput` makes of its tokens: a
command, one behind a pipe or none, and an ampersand. Each system call of the shell is a
step, and ticks, key presses and the commands it started come between. `isForeground` is
the table's field that a line with `&` clears for good, `fd` and `openPipes` the pipes given
to processes. A built-in behind a pipe is not refused (shell.c:122) and is loaded as a process like
any other command (shell.c:135): there it may make its one call, `SysKill`, `SysBlock` or
`SysUnblock`, on any pid (`BuiltInCall`). `fd1` is the process that the array `fd1` was given to, with which it is freed
(scheduler.c:354): if that process is dead, `closePipe` may read another pipe, or none, from memory
given out since. `misuses` records a piped line whose commands are not waited for (`detached`) and
a command that unblocks the shell while it waits for it (`wokenShell`), which ends the wait.
On an empty line `shell()` returns to an address nobody put on its stack (scheduler.c sets up
none); the model follows the outcome in which the exception handler ends the process. `CommandLine` is the other half: keys, the line buffer, `strstrip`, and
`strtok`, which cuts the line in place. A character with a meaning is a name in it: `"SP"` a
blank, `"BAR"`, `"AMP"` and `"BS"`; `LINE_SIZE` is `SIZE` of shell.h. What the line says is stated
apart from the code that reads it: `Line` takes the erased keys out, and `Words` are the stretches
between blanks.

### Philosophers

Every statement that reads or writes the shared ring is a step. `pc` tells where each
philosopher and `phylo()` are; `granting` is the neighbour that a `test()` in progress found
able to eat. `removePhilo` and `freePhilo` free a structure before they read the pid and the link in it
(phylo.c:65-67, 184-195); the frees and the kill are steps of their own, and at the kill the memory
may have been given out again, by the malloc of any process or the queue node of a
`semWait`: then any process or none is killed, `phylo()` goes astray and is not followed
(`reused`). A single philosopher is freed and killed twice, as in the code. The command is
modelled from its first run after the shell was loaded; its globals survive it, and a second run
keeps the freed `firstPhil` (phylo.c:149). Nor are the keys followed after the removal of
the last one, which frees `firstPhil`. `lapses` also records what an
unlocked `removePhilo` or `addPhilo` can run into: a killed holder or waiter of the mutex, a
killed eater, two eaters that become neighbours, a ring changed while someone is between
two tests, a waiter separated from the eater it waits for, and the removal of the last one.

### ProcessMemory

Which process a block was given to, the array `mmRegs` and its length. The array is a local
variable of `enqueueProcess` (scheduler.c:160), so the model keeps one array per *creator*:
children of one process share it, and `Overwrite` lets the creator's stack grow over it. A process may
pass a block of its own as `fd` to one it creates, as the shell does for a pipe (shell.c:80, 143); the
end of that process frees it (scheduler.c:354), while it stays registered for the giver. `given` is
the history of these blocks, which the properties except by name.

### The other parts

`Video` keeps video memory and cursor, and an endless roll of paper with the same text, of
which the screen is to be the last rows. `Clock` reads the units one by one while the clock
runs. `Filters` keeps the local buffer with the places just before and behind it. `Numbers`
has ints of `Bits` bits and C's division. `BootImage` packs files through a small buffer into
an image, puts it in memory and runs the loader on it. The bss that is cleared begins at the
next page behind the kernel (`bss`, from kernel.ld). That as many modules are packed as kernel.c has
addresses for is assumed: `parse_opt` does not see to it. A target that cannot be created ends
the packer.

## 3. Runs

Every passing run explores its instance completely. An MC module may hold several
specifications in one run, or one with several values of its constants; a variable that
never changes says which (`sleepers`, `faulty`, `instance`, `manager`, `letters`, `part`). `MCParts`
extends all of them, and a variable `part` says which one moves.

| run | instance | what it shows |
|---|---|---|
| `scheduler_calls` | 4 pids (idle, init, two more), quanta 1 and 2, all calls but nice and sleep | the list, the counters of children, the foreground and the idle process stay consistent in every order of calls, ticks and key presses, unblocking the idle process included (`wakeIdle`) |
| `scheduler_nice` | 3 pids, quanta 1 to 4, `executions` wraps at 5, a sleeper of 0 or 1 s; all calls but kill and unblock | turns respect the quantum except after `niceBelow` or `lateWait` |
| `scheduler_live` | 4 pids; without sleep, or with two sleepers of 0 or 1 s | the handler always returns; no ready process starves; every sleeper wakes |
| `semaphores` | a mutex; 3 user processes, or 2 that also kill, block, unblock and sleep | exclusion, direct hand-off, no lost wake-up, and which faults void which |
| `pipes` | one pipe of 2 slots with 3 characters; one with processes that kill each other; two pipes | order, count and wake-ups over the wrap, `closePipe` at any time, the lock never kept, the blocks of closed pipes given back |
| `allocators` | heap_4 of 20 cells, alignment 2, header 2; buddy tree of 8 pages of 2 cells | exact books, no request refused that there is room for, both implement `Allocator` (`KeepsPromise`, `TreeKeepsPromise`) |
| `philosophers_ring` | 3 philosophers and one more, all keys | neighbours never eat together, not everybody waits, but for the `lapses` |
| `philosophers_live` | up to 3, all keys | the hungry eat; `end()` leaves nobody, but for the `lapses` |
| `shell_lines` | two lines, three commands at most at a time, 7 pids | pipes are open while in use; the shell has the terminal at its prompt; but for `misuses` and `killDead` |
| `keyboard` | two keys, all modifiers, one child; letters, two children that block and unblock | keys in order, to the foreground, no reader asleep on a key |
| `parts` | see `MCParts` | screen, command line, filters, numbers, clock, boot image, process memory |
| `shell_unblock` | one line | **violated**: the built-in `unblock` ends the shell |

**Bounds.** `MaxPid` bounds the processes ever created: with 4, init can have two
children, or a child and a grandchild, which is what the list, the parent/child counters
and the foreground chain distinguish. `MAX_PRIORITY` of 2 gives quanta of one and two
ticks; `scheduler_nice` uses 4 so that a count can be below, at and past a
quantum. `CHAR_MAX` is the smallest that lets the counter wrap. `Overkill` bounds how often
dead processes are killed again, `MaxSecs` and `MaxSleeps` the sleepers, `SemMod` the
semaphore values: those above half of it are what a decrement below zero wraps to. The heap is large enough for four blocks with remainders that are and
are not split; the tree of `Buddy` has four levels, so that marks travel over two.
A pipe of two slots and three characters makes both indices wrap and lets a writer run
over; in the instance with one pipe the characters are EOF, which ends a read, and twice
another one. The instance with kills has one character and two user processes alive at a
time: a writer killed between two characters of one `write` is beyond it. Four
philosophers are the fewest of which two can eat at once; the code starts five, and with
three every pair are neighbours, which is where waiting is hardest. Seven pids give the
shell two piped lines. `MaxDue` of 2 lets a key be typed over another. In `parts`: a screen of two rows of
two, up to four rows of text; lines of 7 keys, filling a buffer of 7 with more words than
`MAX_ARGS`; texts up to two characters longer than the filters' buffer; all ints of 8 bits in
bases 2, 10 and 16, with a length that is too short, and without one; a clock whose units
all turn over and pass from 9 to 10; modules of up to two and a half buffers; three
processes and four blocks with room for two in the register, of which one is passed as fd at most, and
then nothing slips (processes and blocks are symmetric); a bss that
begins behind the end of the kernel, over the packed modules.

Deadlock is not checked where the system may stop: pipes (a corrupted list or freed memory
has no successor), philosophers (all gone, or stuck after a lapse), shell (the bound on lines), keyboard
(the bound on characters), and parts (a program that has ended).

**Fairness** (`FairSpec` of `Scheduler`). Weak fairness of the timer handler: it is kernel code
with interrupts off. Strong fairness of the timer interrupt: a tick raised while interrupts
are off stays pending in the interrupt controller and is delivered at the next return
to user code, so a process cannot avoid it by calling the kernel in a loop. Weak fairness
of the clock. None of user code. `Philosophers` assumes weak fairness of each philosopher and
of `phylo()` once it works on a key (`Working`): the scheduler starves no ready process and
wakes every sleeper, as `scheduler_live` shows. Nobody has to press a key.

**What liveness needs.** `ReadyRunsAwake` is checked without `nice` and `sleep` among the calls.
With `sleep(0)` in a loop a process resets its `executions` each time and keeps the CPU;
with `nice` on itself it can step over the equality test at scheduler.c:69. Both starve
the others in the model; neither is excluded by a promise of the code.
`HandlerReturns` excepts a killed idle process, after which `nextProcess` loops for ever
once everything is blocked. `HungryEats` holds for up to three philosophers; among four a
philosopher can starve while its neighbours eat in turns.

**Where code and words disagree.** The run `shell_unblock` shows one: `help` says that `unblock`
unblocks a process, and the built-in ends with `sys_exit()` in the shell's own process. Seen
while modelling, and written into the models as the code has it:

* `phylo` accepts 1 to `MAX_PHILO_SIZE`, which is 3, and says "between 1 and 10" (phylo.c:118).
* The test that keeps built-ins from behind a pipe reads `commands->isBuiltIn`, the field of
  `help`, and so never refuses (shell.c:122, `BuiltInRefused`).
* With `FREE_EXIT` a process is to free its memory at its end, but only 39 blocks are
  registered, in an array that no longer exists (`ProcessMemory`).
* `nice` works on the idle process too, and gives it a turn of up to 40 ticks, which it uses up
  whatever becomes ready meanwhile, and a user may unblock it, which leaves `idleFlag` at 0 and
  makes it one of the ready processes: `IdleIsLastResort` excepts both.
* `closePipe` frees every `pipe_t` twice and reads from it in between (pipe.c:128-131), without harm.
* `freePhilo` and `removePhilo` read the pid to kill from memory they have freed.
* The command `time` reads the day before month and year and can print, at midnight, a date
  that was never true; `NeverAhead` excepts it.

## 4. Proofs

A theorem holds for every number of pids, processes, semaphores, pipes, keys and cells, and
for every set of calls, keys and requests that the module's assumption allows; TLC evaluates
that assumption for each instance it runs. The assumptions say what the build fixes
(`SchedulerAssumption`: priorities are even and a quantum fits a `char`;
`SemaphoresAssumption`: a counter of at least two values; `PipesAssumption`: the two
semaphores of `pipe.c` are a lock and a count, the count is an `unsigned int` twice as large
as all that can be written; `KeyboardAssumption`: keys and modifiers are different keys, no
character of the tables is EOF or the empty buffer; `Heap4Assumption`: header and heap are
multiples of the alignment and there is room for one header; `ShellAssumption`: built-ins are
commands and `help` is none of them, names and the marks for no name and no pipe are different,
and there are pids for `main()`, `bottler` and the shell). In `PartsProofs` the assumptions are
hypotheses of the theorems, and `MCParts` has TLC evaluate them: `MemoryAssumption`, the array
has room for one block at least, and the kernel's stack and NULL are no process;
`ClockAssumption`, the values of a unit are two or more numbers of two digits;
`VideoAssumption`, the screen has two rows at least, and the paper of the model more than it. So
they are in `DataProofs`: `ImageAssumption`, the memory map (kernel, packed modules and bss
before the first module, the bss not before the end of the kernel, the modules in ascending order before the heap) and sizes that fit a
`uint32_t`; `FiltersAssumption`, the buffer has room for a character, and letters are no
control characters; `NumbersAssumption`, an int has two bits or more, bases go from 2 to 32,
and NoLength is no length; `LineAssumption`, the buffer has room for a character, there is room
for a word before `MAX_ARGS`, and plain characters are none of those with a meaning.

Every safety theorem is `Spec => []P` by an inductive invariant, with one lemma per invariant
that has one step per action, and a lemma for each fact on sequences or counters used in
more than one place. Where a module is composed with another, its proof starts with a lemma
that each of its steps is a step of the other one or changes none of its variables, and so
inherits the other's invariant.

**`SchedulerProofs`** has three parts. *The list*: `TypeCorrect`, `NoProcessLost` (`ListWellFormed`), `OnlyReadyRuns`
(`CpuIsSound`: no pointer of the handler dangles and the process that runs is ready), and the
action property `DeadNeverReturn` (`DeadStaysDead`). The invariant `SafetyInv` is these with
`MarkInLoop` (`firstBlockedIteration` is NULL outside the loop of `nextProcess`) and
`ScanInList`. Without `MarkInLoop`, a system call could kill the marked process and the mark
would dangle; without the first part of `ListWellFormed`, removing a process could leave a
second copy of it.

*Families and the terminal*: `ChildrenAreCounted`, `WaiterIsWoken` and `TerminalIsHeld`
(`ChildrenCounted`, `WaiterHasChild`, `TerminalHeld`). `FamilyInv` adds that every recorded
parent is a pid already handed out, so that a new process starts with no children, and that
the counter of a waiting process is not zero, from which its live child follows.
`TerminalInv` says that who has lent the foreground has a live child that holds or has lent
it, and that parents have smaller pids than their children. So the chain of loans from
the first user process goes up, and the last live process on it has the terminal.

*Turns*: `TurnsAreBounded` (`QuantumRespected`) and the action property
`IdleRunsLast` (`IdleIsLastResort`). `TurnInv` says who can be right at its
quantum: only the current process, while it is ready and until the handler enters
`nextProcess`, which then ends the turn. Every other live process is strictly below, so the
tick that `nextProcess` adds never passes the quantum and never wraps.
`IdleInv` follows the round over the list. The idle process is the first of the list, and has
ticks only in its turn. What the loop has passed since the mark `firstBlockedIteration` was not
ready (`MarkRound`: the positions between mark and cursor, across the end of the list), so back
at the mark nothing is. From there to the head of the list, where the idle process is, nothing
becomes ready, because the loop makes nobody ready and no interrupt comes in (`IdleRound`).

**`SemaphoreProofs`.** `SemListSafe` (the scheduler's guarantees survive `unblockFirst`, which
relinks its list), `Handoff` (`HandoffIsImmediate`), `WaitersServed` (`WaitersAreServed`) and
`MutexesExclude` (`MutexConserved`). `QueueInv` relates the two components: a process in the
rest of a `semWait` is blocked and in the queue of that semaphore, or it was handed the
semaphore and is the next to run, because the poster's turn is used up and the list has the
woken one right behind it, or `nextProcess` has come to it. That leaves no room for a third process
to take the semaphore in between. `ValueInv` adds that a semaphore with a queue has
nothing to give but what is on its way to a woken waiter, and that it never counts
past half of its range, so that nothing wraps. `MutexInv` follows who holds a mutex through
waits, posts, closings and kills. All three hold until `spuriousWake`, the fault
that lets a waiter run without having been woken by a post.

**`PipesProofs`.** `PipesKeepOrder` (`ReadsInOrder`), `FullSemCounts` (`CountIsUnread`),
`LockIsFree` (`LockNeverKept`) and `PipesKeepMemory` (`PipeMemory`). `CallsInv` says
which parts of a call are never interrupted: a process that is inside one has the CPU,
or is blocked on the count before it takes the lock. Hence `LockInv`: the lock is held only
by the process that has the CPU, nobody ever queues for it, and no call that kills or
switches can come in between. `ListInv` and `UseInv` relate the list of pipes, the
descriptors and the semaphores: with one pipe open at a time, the semaphores exist exactly as
long as it does, and no call is on a pipe that was closed, as long as none was closed in use.
That gives the first half of `PipeMemory`; for the other, the blocks are known also in the middle of
`openPipe` and `closePipe`, where they are not four for each pipe in the list.
`CountInv` says what the count is *during* the calls: one less than the unread
characters while a process has written and not yet posted, or has waited and not yet read
(`Debt`). `OrderInv` says that the slots between the two indices hold the
last characters sent, in order. The invariants of the semaphores are part of the induction
and end with mode `"corrupt"`, in which freed memory was used.

**`TerminalProofs`**, two parts. *Keyboard*: `ReadersAwake`, `ForegroundReads` and `TypedInOrder` (`NoReaderSleepsOnKey`,
`KeysGoToForeground`, `KeysInOrder`). `ReadersInv` says that all that are inside `read()` are in
the foreground as long as nobody took it from one of them; `FlagsInv` that the flags of
the driver agree with the modifiers that are held, that Alt and F1 are never both down for
it (it resets both and sends EOF), and that the buffer holds the last of the characters due.

*Shell*: `PipesStayOpen` (`PipeInUseIsOpen`) and `ShellHasTerminal`
(`PromptHasTerminal`), for any commands, lines and processes. Every step of `Shell` is one of
the scheduler or leaves it alone (`ShellSteps`), so that `SafetyInv`, `FamilyInv` and
`TerminalInv` hold (`KernelInv`). `ShellInv` says what each place of `processInput` knows.
`HasTerminal`: the shell has the foreground, or has lent it to a live child that still has it
and is on its way to the wait or in it. `HasWaited`: past the wait it has no living child,
which needs the exact counter of `FamilyInv`, since `wait` ends by that counter. Hence nobody has
the pipe when it is closed: only children of the shell are given one (`PipeInv`). The steps of
everybody else are `Calm`: a kill or block that takes the foreground from a child of
the shell gives it to the shell, and a wait ends only with the last child, or, for a call of `unblock` on the
shell, in `wokenShell`. A shell about to end
(an empty line, `unblock`) is excepted.

**`AllocatorProofs`**, two parts. *Heap4*: `HeapIsConsistent`, `NothingRefused` (`HeapConsistent`, `NoFalseFailure`), and
`HeapKeepsPromise` (`KeepsPromise`): the manager implements `Allocator`. `HeapInv` says that the
blocks tile the heap, that the free list is in order of address with a gap between *any* two
entries (an insertion looks at its two neighbours only, which is enough because of the
order), that the bit in the headers is set for what is handed out and clear for what lies in
the list, and that `xFreeBytesRemaining` counts the cells that no block in use covers. The last
needs that taking a part of a free block takes as many cells as its size says
(`ClaimedBytes`). `PromiseInv` adds the alignment of all blocks. For the refinement, each
`pvPortMalloc` that grants is a grant of `Allocator`, each `vPortFree` a free, and a
refusal a stutter.

*Buddy*: `TreeIsConsistent` (`TreeConsistent`) and `BuddyKeepsPromise` (`TreeKeepsPromise`), for a
tree of any depth. The model has the loops of the code in closed form, with powers of two, so
the proof begins with their laws and the shape of the tree: a node and its buddy have one parent,
an ancestor of a node is an ancestor of its parent, and two nodes, neither above the other, lie
below two different buddies (`Fork`), so that their pages are apart. What needs induction is
shown for the smallest or the largest number that would be an exception, or by recursion
on the level. `AllocEffect` and `FreeEffect` say what `buddy_alloc` and `buddy_free` do to each
node, and `AllocSteps` and `FreeSteps` that they do it; the rest of the proof uses no more than
these two. The inductive invariant is `TreeInv`: the node states and, for the nodes the walks may
reach, `MarksExact`; nothing is said of stale nodes. It is kept because the marks change only on
one path, and a node off the path keeps its children. `NoneRefused` follows with two lemmas: a
divided node has a block below it (`DividedHoldsBlock`), and if pages are free, the topmost
node over them that is not divided is unused, so that the walk may end there
(`RoomIsFound`). `DumpExact` follows the recursion of `buddy_dumpMM` down the tree: the pages
of the blocks below a divided node are those below its two halves (`DumpCounts`).
The one assumption is `BuddyAssumption`: the level and the sizes asked for are natural numbers, and
the size of a page is a positive one.

**`PhilosopherProofs`.** `DinnerContinues` (`DinnerGoesOn`) for any number of philosophers,
and `NobodyIsForgotten`. `MutexInv`: one process at most is between the wait for the mutex and
its post, and who queues is at a wait. `StateInv`: the state of a philosopher and its semaphore
follow from where it is. `RingInv`: the links form one ring over the living and the first one,
in order of their numbers, at every key, and in each of the two statements between two keys
they differ from such a ring in one named link; with it `end()` reaches everybody. `GrantInv`:
what a test found is still true when it grants, which gives `NeighboursNeverEat`. That not all
are stuck needs two more. `HolderInv`: somebody alive has the mutex whenever somebody queues.
`ServedInv`: who waits to be granted has a living neighbour that eats, or that is between its
two tests with the waiting one still to come. Were all stuck, nobody would hold the mutex, so
nobody would queue for it; so all would wait to be granted, and the one who serves would be
waiting too, which who serves is not. The moments in `lapses`, but for the removal of the last
one, break one of these each: a
killed holder or waiter `HolderInv`, a killed eater or a split pair `ServedInv`, a change of the
links between two tests `GrantInv`, two eaters that become neighbours `NeighboursNeverEat`; a wrong
process killed (`reused`) may break all.
The semaphores of this module are abstract: that a post hands over before anyone else can take
is what `Handoff` proves of `sem.c`.

**`PartsProofs`**, three parts. *Process memory*: `BooksBalance` (`BooksExact`) and the action property
`NothingElseFreed` (`OnlyOwnFreed`). `BooksInv` says that what is registered for a process is
its own, is not its stack, and is registered once (`Sound`), but for blocks that were passed as
fd, that there is nothing else
(`AllKnown`), and that no two running processes have the same creator, in whose stack the array
lies. A free closes the gap at the first place of the block (`SmallestPlace`), which loses no block that
stands there once; one passed as fd, freed and given out again may stand there twice. A
full array ends `AllKnown` only: what is registered is still right, so the end of a
process still frees nothing of another. Overwriting the array, sharing it, or freeing a
block of someone else ends both.

*Clock*: `NeverReadAhead` (`NeverAhead`). A tick raises one unit and changes all smaller ones
(`TickFacts`); so as long as the day is the same, so are the month and the year. `ClockInv`: what
was read of the years first is equal to the clock, or less in the first unit in which they differ
(`Behind`), which a tick and a read both leave so; for the command `time`, `Behind` from the hours
on and equality before them, as long as the day lasts; and as long as the minute lasts, equality
of all but the seconds, which stem from one of the moments of the reading.

*Video*: `ScreenIsText` (`ScreenShowsText`), for a screen of any size. `VideoInv` adds that the
paper is blank below the row of the cursor, which is what the last row is cleared to by a
scroll, and that the row of the text lies between the first and the last row shown. `Geometry` has
the multiplications: that the screen lies on the paper wherever it has scrolled to.
`RowAndColumn`: from a place in the text its row and its column follow.

**`DataProofs`**, four parts, about what loops compute. A recursive function of the model is a
function that satisfies its equation only if there is one. `RunExists` gives it for
recursion over `0..n`: the set of lengths for which no run exists has no smallest
element. Equality of two runs (`SameRun`) and properties of all steps follow in the same way,
from the smallest exception (`SmallestNumber`).

*Boot image*: `ModulesLoaded` (`LoadedAsPacked`). `WritesAll`: what `write_file` writes is the file,
whatever the size of its buffer. `ReadsBytes`: `readUint32` gives back the number whose bytes lie at
an address, as long as it is less than `Weight[Word]`. `StartLaws`: where the packed modules begin,
and that they end before the first address a module is copied to. `ImageInv` says what is known
at each place: in the packer, that `target` is the image of the modules written so far; in the
loader, that all of the image is still in memory and `currentModule` points at the next module in
it. It is inductive because every module is copied behind the end of the image, and a module that
fits ends before the next (`AllFit`); once all are copied, clearing the bss may overwrite the
image.

*Filters*: `TextsArrive` (`PassesTextOn`). `FiltersInv` relates the buffer to what was read
(`Conveys`): what `PassedOn` makes of the text up to now lies in the buffer, the lines before
`line` are printed, behind `i` there are zeros only, and the length `j` reaches to the end
of the current line at least. The length may be too large, since `j` counts what a backspace took
back; `PrintsLine` shows that this does no harm, as printing ends at the first zero. For
`cat`, that holds while no backspace finds its line empty (`WithinLines`), for a backspace would
take the end of a line that is already printed.

*Numbers*: `NumbersReadBack` (`ReadBack`), for ints of every width, every base and limit, and
whatever lies behind an argument. `PowerLaws`, `DividedLaws` and `DigitsLaws` unfold the loops.
`DigitsAddUp` is the heart: read from the high end, the digits that are written add up to what
was divided, less what was left of it times the power of the base, hence to the number, or to
its low digits if the limit is short. `Written` and `TurnedRound` carry that through the sign and
the reversal into a text that `Spells` the number; `MeansTotal` says what such a text means.
For `atoi`, `SignsFound` follows the first loop over the sign and all digits to the terminator,
and `ReadsNumber` shows that the second stops there and that no partial sum is cut to an int.
An int has no more digits than bits in any base (`BinaryIsLongest`), which is why `itoa` needs no
limit. `NumbersInv` adds to `ReadBack` that the text is the one printed.

*Command line*: `LinesAreParsed` (`ParsedAsTyped`), for a buffer of any size, any `MAX_ARGS` and any
number of keys. `LineLaws`: a further key changes `Line` as it changes the buffer. `Ranks` counts the
places at which words begin: they are numbered without a gap, in their order. `NextWord` says what
one call of `strtok` does on a line cut so far (`Cut`, the line with the blanks up to a place
overwritten): it stops where the next word begins, or at the terminator, and has overwritten the
blanks up to there and nothing else. `StringLaws`: from its beginning, what is then read up to
the next zero is the word. `LineInv` (`Splitting`): the tokens are the first words in their order,
the line is cut up to the last of them, and `pipe` is the place of the last bar among those
that ended. A word has ended only when the next token is found, which is why `pipe` lags one
word behind the tokens.

**Only model-checked.** Liveness under fairness (`HandlerReturns`, `ReadyRunsAwake`,
`SleeperWakes`, `HungryEats`, `EndLeavesNobody`), which the provers cannot reason about.

## 5. Not modelled

Register and FPU saving, stack contents, names and listings (`ps`, `sem`, `pipe`, `mem`),
colours, floating point (`ftoa`, `atof`, `quadratic`), the system call stubs, the commands that
only print, and the user tests. The bootloader (Pure64 and BMFS) is third-party code.
`vPortGetHeapStats` and the `get*` functions only read. Memory for the kernel's own structures
is taken as available, and what lies above a stack whose pointer is STACK_SIZE words past
its block (scheduler.c:133) is not followed. Neither is a second run of `phylo` in one shell, nor
`vPortFree` of a pointer into memory whose owner may have written anything where the header is read. The sum of `getTimeOfDay` over months of 30.4375
days is not modelled: the clock of `Scheduler` advances by seconds. A request of 2 GB or
more, which `buddy_alloc` cuts to a negative int, is made by nobody. `semClose` of a
semaphore with waiters is in the model and recorded, and nothing is claimed after it.

## 6. Plan

Done: all components with state of their own are modelled, but for what section 5 lists, and every safety property and action
property that a passing run checks is a theorem. Liveness stays with TLC.
