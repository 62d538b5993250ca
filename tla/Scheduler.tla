------------------------------ MODULE Scheduler ------------------------------
(***************************************************************************)
(* The process scheduler of BottlerOS: Kernel/utils/scheduler.c together   *)
(* with the timer entry of Kernel/asm/interrupts.asm that drives it.       *)
(*                                                                         *)
(* There is one CPU.  Every IDT entry is an interrupt gate, so kernel code *)
(* runs with interrupts disabled: a system call is one atomic step, up to  *)
(* the point where it calls forceTimer (int 20h), which enters the timer   *)
(* handler.  The handler runs checkSleeping and then nextProcess, whose    *)
(* loops are modelled one iteration per step (mode tells which loop the    *)
(* CPU is in); nothing interleaves with them except the real-time clock.   *)
(* In mode "user" the code of the current process runs, and a timer or a   *)
(* keyboard interrupt or a system call may come next.                      *)
(***************************************************************************)
EXTENDS Integers, Sequences, FiniteSets, SequencesExt

CONSTANTS
  MaxPid,        \* bound: pids handed out are 1..MaxPid
  MAX_PRIORITY,  \* 40 in the code
  CHAR_MAX,      \* 127 in the code: executions is a signed char
  MaxSecs,       \* bound: the longest sleep, in clock seconds
  MaxSleeps,     \* bound: the longest list of sleepers
  Overkill,      \* bound: killing the dead takes children down to -Overkill
  Calls          \* the system calls that processes make

ASSUME SchedulerAssumption ==
  /\ MaxPid \in Nat /\ MaxPid >= 2
  /\ MAX_PRIORITY \in Nat /\ MAX_PRIORITY >= 2 /\ MAX_PRIORITY % 2 = 0
  /\ CHAR_MAX \in Nat /\ MAX_PRIORITY <= CHAR_MAX
  /\ MaxSecs \in Nat
  /\ MaxSleeps \in Nat
  /\ Overkill \in Nat

VARIABLES
  procs,        \* the list firstProcess .. lastProcess, as a sequence of pids
  state,        \* state of each pid; "NONE" when it has no processCDT
  ppid,         \* parent, as recorded at creation
  priority,
  executions,   \* ticks used of the current turn
  foreground,
  backWait,     \* has lent the foreground to a child
  children,     \* the counter that wait() and kill() work on
  current,      \* currentProcess
  pids,         \* the next pid
  idleFlag,
  firstBlockedIteration,
  sleeping,     \* the list at firstSleep: [pid, left], left = seconds to go
  mode,         \* where the CPU is
  scan,         \* position reached by checkSleeping in the list of sleepers
  lapses        \* history: calls that void one of the guarantees below

procVars == <<state, ppid, priority, executions, foreground, backWait, children>>
cpuVars == <<current, idleFlag, firstBlockedIteration>>
vars == <<procs, procVars, cpuVars, pids, sleeping, mode, scan, lapses>>

Pid == 1..MaxPid
NULL == 0          \* no process; also the parent read through a null pointer
IDLE_PID == 1
INIT_PID == 2      \* SampleCodeModule, the first user process

States == {"NONE", "READY", "DEAD", "BLOCKED", "WAITING", "BLOCKEDIO"}
Modes == {"user", "checkSleeping", "nextProcess", "corrupt"}
Lapses == {"killDead", "killIdle", "killLender", "wakeIdle", "niceBelow", "lateWait"}

\* A value as stored in a (signed) char.
Char_mutant(x) == x
Char(x) == ((x + CHAR_MAX + 1) % (2 * (CHAR_MAX + 1))) - (CHAR_MAX + 1)

\* The ticks a process gets per turn.
Quantum(p) == MAX_PRIORITY - priority[p]

\* nice() takes offsets -NiceHalf .. NiceHalf - 1 (20 in the code).
NiceHalf == MAX_PRIORITY \div 2

-----------------------------------------------------------------------------
(* The process list.                                                       *)

\* searchProcess finds pid in the list.
searchProcess(pid) == \E i \in 1..Len(procs) : procs[i] = pid

Position(pid) == CHOOSE i \in 1..Len(procs) : procs[i] = pid

\* process->next
NextOf(pid) == IF Position(pid) < Len(procs) THEN procs[Position(pid) + 1] ELSE NULL

removeProcess_mutant(pid) == procs
removeProcess(pid) == RemoveAt(procs, Position(pid))

\* A process that block() and unblock() accept.
Alive_mutant(pid) == searchProcess(pid)
Alive(pid) == searchProcess(pid) /\ state[pid] # "DEAD"

\* What the loop of nextProcess stops at.
Runnable_mutant(pid) == state[pid] \in {"READY", "BLOCKEDIO"}
Runnable(pid) == state[pid] = "READY"

\* Running user code that may make the system call c; the idle process only halts.
Calling(c) == c \in Calls /\ mode = "user" /\ current # IDLE_PID

\* int 20h: enter the timer handler, which starts with checkSleeping.
forceTimer == mode' = "checkSleeping" /\ scan' = 1

-----------------------------------------------------------------------------
(* Boot: main() creates the idle process and the first user process, and   *)
(* forces a timer interrupt while there is still no current process.       *)

Init ==
  /\ procs = <<IDLE_PID, INIT_PID>>
  /\ state = [p \in Pid |-> IF p \in {IDLE_PID, INIT_PID} THEN "READY" ELSE "NONE"]
  /\ ppid = [p \in Pid |-> NULL]
  /\ priority = [p \in Pid |-> IF p = IDLE_PID THEN 2 * NiceHalf - 1 ELSE 0]
  /\ executions = [p \in Pid |-> 0]
  /\ foreground = [p \in Pid |-> p = INIT_PID]
  /\ backWait = [p \in Pid |-> FALSE]
  /\ children = [p \in Pid |-> 0]
  /\ current = NULL
  /\ pids = 3
  /\ idleFlag = 2
  /\ firstBlockedIteration = NULL
  /\ sleeping = << >>
  /\ mode = "checkSleeping"
  /\ scan = 1
  /\ lapses = {}

-----------------------------------------------------------------------------
(* Passing the foreground between a child and its parent.  A parent that   *)
(* has left the list is a null pointer, whose fields read as zero.         *)

GiveBack_mutant(pid) == UNCHANGED <<backWait, foreground>>

\* block(), kill(): a foreground child gives the foreground back.
GiveBack(pid) ==
  LET parent == ppid[pid]
      back == foreground[pid] /\ searchProcess(parent) /\ backWait[parent]
  IN  IF back
      THEN /\ backWait' = [backWait EXCEPT ![parent] = FALSE]
           /\ foreground' = [foreground EXCEPT ![parent] = TRUE]
      ELSE UNCHANGED <<backWait, foreground>>

\* unblock(), unblockFirst(): a foreground child takes it from its parent.
TakeOver(pid) ==
  LET parent == ppid[pid]
      take == foreground[pid] /\ searchProcess(parent) /\ foreground[parent]
  IN  IF take
      THEN /\ backWait' = [backWait EXCEPT ![parent] = TRUE]
           /\ foreground' = [foreground EXCEPT ![parent] = FALSE]
      ELSE UNCHANGED <<backWait, foreground>>

-----------------------------------------------------------------------------
(* The operations of scheduler.c.  A call that returns EXIT_FAILURE (pid   *)
(* not found, or dead) changes nothing and is not a step.                  *)

block(pid) ==
  /\ Alive(pid)
  /\ state' = [state EXCEPT ![pid] = "BLOCKED"]
  /\ GiveBack(pid)
  /\ IF pid = current
     THEN executions' = [executions EXCEPT ![pid] = 0] /\ forceTimer
     ELSE UNCHANGED <<executions, mode, scan>>

unblock(pid) ==
  /\ Alive(pid)
  /\ state' = [state EXCEPT ![pid] = "READY"]
  /\ TakeOver(pid)

\* Mutant: the caller keeps its turn.
unblockFirst_mutant(pid) ==
  /\ Alive(pid)
  /\ state' = [state EXCEPT ![pid] = "READY"]
  /\ TakeOver(pid)
  /\ UNCHANGED <<procs, executions, mode, scan>>

\* Called by semPost: pid is to run right after the caller.  Moving the caller
\* itself makes it its own successor, out of the list.
unblockFirst(pid) ==
  /\ Alive(pid)
  /\ state' = [state EXCEPT ![pid] = "READY"]
  /\ executions' = [executions EXCEPT ![current] = Quantum(current)]
  /\ IF pid = current
     THEN mode' = "corrupt" /\ UNCHANGED <<procs, foreground, backWait, scan>>
     ELSE /\ LET rest == removeProcess(pid)
                 i == CHOOSE j \in 1..Len(rest) : rest[j] = current
             IN  procs' = InsertAt(rest, i + 1, pid)
          /\ TakeOver(pid)
          /\ forceTimer

kill(pid) ==
  /\ searchProcess(pid)
  /\ LET parent == ppid[pid]
         wake == /\ searchProcess(parent)
                 /\ children[parent] = 1
                 /\ state[parent] = "WAITING"
     IN  /\ IF searchProcess(parent)
            THEN children' = [children EXCEPT ![parent] = @ - 1]
            ELSE UNCHANGED children
         /\ state' = IF wake
                     THEN [state EXCEPT ![parent] = "READY", ![pid] = "DEAD"]
                     ELSE [state EXCEPT ![pid] = "DEAD"]
  /\ GiveBack(pid)
  /\ lapses' = lapses \union {l \in {"killDead", "killIdle", "killLender"} :
                              \/ l = "killDead" /\ state[pid] = "DEAD"
                              \/ l = "killIdle" /\ pid = IDLE_PID
                              \/ l = "killLender" /\ backWait[pid]}
  /\ IF pid = current THEN forceTimer ELSE UNCHANGED <<mode, scan>>

\* state' when the idle process is blocked; it is never foreground nor the
\* caller, so block(IDLE_PID) has no other effect.
IdleBlocked == IF Alive(IDLE_PID) THEN [state EXCEPT ![IDLE_PID] = "BLOCKED"] ELSE state

enqueueProcess(fg) ==
  LET pid == pids
      base == IF idleFlag = 0 THEN IdleBlocked ELSE state
      lends == foreground[current] /\ fg
  IN  /\ pids <= MaxPid
      /\ pids' = pids + 1
      /\ procs' = Append(procs, pid)
      /\ state' = [base EXCEPT ![pid] = "READY"]
      /\ ppid' = [ppid EXCEPT ![pid] = current]
      /\ priority' = [priority EXCEPT ![pid] = IF fg THEN 0 ELSE NiceHalf]
      /\ executions' = [executions EXCEPT ![pid] = 0]
      /\ children' = [children EXCEPT ![pid] = 0, ![current] = @ + 1]
      /\ foreground' = [foreground EXCEPT ![pid] = fg, ![current] = @ /\ ~lends]
      /\ backWait' = [backWait EXCEPT ![pid] = FALSE, ![current] = @ \/ lends]

-----------------------------------------------------------------------------
(* System calls of the current process.                                    *)

SysLoadProcess ==
  /\ Calling("loadProcess")
  /\ \E fg \in BOOLEAN : enqueueProcess(fg)
  /\ UNCHANGED <<cpuVars, sleeping, mode, scan, lapses>>

SysKill ==
  /\ Calling("kill")
  /\ \E pid \in Pid :
       /\ state[pid] = "DEAD" /\ searchProcess(ppid[pid]) => children[ppid[pid]] > -Overkill
       /\ kill(pid)
  /\ UNCHANGED <<procs, ppid, priority, executions, cpuVars, pids, sleeping>>

\* Mutant: the parent is not told.
exitProcess_mutant ==
  /\ Calling("exit")
  /\ state' = [state EXCEPT ![current] = "DEAD"]
  /\ GiveBack(current)
  /\ forceTimer
  /\ UNCHANGED <<procs, ppid, priority, executions, children, cpuVars, pids, sleeping, lapses>>

\* exitProcess, also reached from the exception handlers (startOver).
exitProcess ==
  /\ Calling("exit")
  /\ kill(current)
  /\ UNCHANGED <<procs, ppid, priority, executions, cpuVars, pids, sleeping>>

SysBlock ==
  /\ Calling("block")
  /\ \E pid \in Pid : block(pid)
  /\ UNCHANGED <<procs, ppid, priority, children, cpuVars, pids, sleeping, lapses>>

\* Its lapse: pids are not checked, so the idle process can be made ready, by a
\* call that leaves idleFlag as it is.
SysUnblock ==
  /\ Calling("unblock")
  /\ \E pid \in Pid :
       /\ unblock(pid)
       /\ lapses' = IF pid = IDLE_PID THEN lapses \union {"wakeIdle"} ELSE lapses
  /\ UNCHANGED <<procs, ppid, priority, executions, children, cpuVars, pids,
                 sleeping, mode, scan>>

\* Its lapse: the new quantum is already used up.  Only the current process
\* may be right at it, and have its turn ended by the next tick.
nice(pid, prio) ==
  /\ searchProcess(pid)
  /\ priority' = [priority EXCEPT ![pid] = prio]
  /\ LET quantum == MAX_PRIORITY - prio
         below == \/ executions[pid] > quantum
                  \/ executions[pid] = quantum /\ pid # current
     IN  lapses' = IF below THEN lapses \union {"niceBelow"} ELSE lapses

SysNice ==
  /\ Calling("nice")
  /\ \E pid \in Pid, offset \in -NiceHalf..(NiceHalf - 1) : nice(pid, offset + NiceHalf)
  /\ UNCHANGED <<procs, state, ppid, executions, foreground, backWait, children,
                 cpuVars, pids, sleeping, mode, scan>>

\* Unlike block() and blockIO(), wait() leaves executions as it is; called in
\* the last tick of a turn, the process resumes past its quantum.
wait ==
  /\ Calling("wait")
  /\ children[current] # 0
  /\ state' = [state EXCEPT ![current] = "WAITING"]
  /\ lapses' = IF executions[current] = Quantum(current)
               THEN lapses \union {"lateWait"} ELSE lapses
  /\ forceTimer
  /\ UNCHANGED <<procs, ppid, priority, executions, foreground, backWait, children,
                 cpuVars, pids, sleeping>>

\* Mutant: like wait(), keeps the count of ticks.
blockIO_mutant ==
  /\ Calling("read")
  /\ state' = [state EXCEPT ![current] = "BLOCKEDIO"]
  /\ forceTimer
  /\ UNCHANGED <<procs, ppid, priority, executions, foreground, backWait, children, cpuVars,
                 pids, sleeping, lapses>>

\* read() on an empty keyboard buffer.
blockIO ==
  /\ Calling("read")
  /\ state' = [state EXCEPT ![current] = "BLOCKEDIO"]
  /\ executions' = [executions EXCEPT ![current] = 0]
  /\ forceTimer
  /\ UNCHANGED <<procs, ppid, priority, foreground, backWait, children, cpuVars,
                 pids, sleeping, lapses>>

quitCPU ==
  /\ Calling("quitCPU")
  /\ executions' = [executions EXCEPT ![current] = Quantum(current)]
  /\ forceTimer
  /\ UNCHANGED <<procs, state, ppid, priority, foreground, backWait, children,
                 cpuVars, pids, sleeping, lapses>>

sleep ==
  /\ Calling("sleep")
  /\ Len(sleeping) < MaxSleeps
  /\ \E secs \in 0..MaxSecs :
       sleeping' = <<[pid |-> current, left |-> secs]>> \o sleeping
  /\ block(current)
  /\ UNCHANGED <<procs, ppid, priority, children, cpuVars, pids, lapses>>

SystemCall ==
  \/ SysLoadProcess \/ SysKill \/ exitProcess \/ SysBlock \/ SysUnblock
  \/ SysNice \/ wait \/ blockIO \/ quitCPU \/ sleep

-----------------------------------------------------------------------------
(* Interrupts.                                                             *)

\* _irq00Handler on a tick of the timer chip.
TimerInterrupt ==
  /\ mode = "user"
  /\ forceTimer
  /\ UNCHANGED <<procs, procVars, cpuVars, pids, sleeping, lapses>>

\* keyboard_handler as the scheduler sees it: every reader is made ready.
unblockIO ==
  /\ mode = "user"
  /\ state' = [p \in Pid |-> IF state[p] = "BLOCKEDIO" THEN "READY" ELSE state[p]]
  /\ UNCHANGED <<procs, ppid, priority, executions, foreground, backWait, children,
                 cpuVars, pids, sleeping, mode, scan, lapses>>

\* A second passes on the real-time clock that getTimeOfDay reads.
ClockSecond ==
  /\ \E i \in 1..Len(sleeping) : sleeping[i].left > 0
  /\ sleeping' = [i \in 1..Len(sleeping) |->
       [sleeping[i] EXCEPT !.left = IF @ > 0 THEN @ - 1 ELSE 0]]
  /\ UNCHANGED <<procs, procVars, cpuVars, pids, mode, scan, lapses>>

-----------------------------------------------------------------------------
(* The timer handler.                                                      *)

DueFrom_mutant(k) == {i \in k..(Len(sleeping) - 1) : sleeping[i].left = 0}

\* The first sleeper at or after scan whose time has come.
DueFrom(k) == {i \in k..Len(sleeping) : sleeping[i].left = 0}
FirstDue == CHOOSE i \in DueFrom(scan) : \A j \in DueFrom(scan) : i <= j

\* checkSleeping wakes one sleeper.  When that is the head of the list, prev is
\* NULL and prev->next reads as NULL: the rest is left to the next interrupt.
wakeUp ==
  /\ mode = "checkSleeping"
  /\ DueFrom(scan) # {}
  /\ LET i == FirstDue
         pid == sleeping[i].pid
     IN  /\ sleeping' = RemoveAt(sleeping, i)
         /\ scan' = IF i = 1 THEN Len(sleeping) ELSE i
         /\ IF Alive(pid) THEN unblock(pid) ELSE UNCHANGED <<state, foreground, backWait>>
  /\ UNCHANGED <<procs, ppid, priority, executions, children, cpuVars, pids, mode, lapses>>

\* Mutant: a turn never ends.
EnterNextProcess_mutant ==
  /\ mode = "checkSleeping"
  /\ DueFrom(scan) = {}
  /\ mode' = "nextProcess"
  /\ scan' = 0
  /\ UNCHANGED <<procs, procVars, cpuVars, pids, sleeping, lapses>>

\* checkSleeping ends; nextProcess ends the turn of a process that used it up.
EnterNextProcess ==
  /\ mode = "checkSleeping"
  /\ DueFrom(scan) = {}
  /\ IF current # NULL /\ state[current] = "READY" /\ executions[current] = Quantum(current)
     THEN /\ executions' = [executions EXCEPT ![current] = 0]
          /\ current' = NextOf(current)
     ELSE UNCHANGED <<executions, current>>
  /\ mode' = "nextProcess"
  /\ scan' = 0
  /\ UNCHANGED <<procs, state, ppid, priority, foreground, backWait, children, idleFlag,
                 firstBlockedIteration, pids, sleeping, lapses>>

\* The four branches of the loop of nextProcess, in the order it tests them.
NextWrap ==
  /\ mode = "nextProcess"
  /\ current = NULL
  /\ current' = IF procs = << >> THEN NULL ELSE procs[1]
  /\ UNCHANGED <<procs, procVars, idleFlag, firstBlockedIteration, pids, sleeping,
                 mode, scan, lapses>>

\* Mutant: the idle process is not made ready.
NextAllBlocked_mutant ==
  /\ mode = "nextProcess"
  /\ current # NULL
  /\ ~Runnable(current)
  /\ current = firstBlockedIteration
  /\ current' = NextOf(current)
  /\ UNCHANGED <<procs, procVars, idleFlag, firstBlockedIteration, pids, sleeping,
                 mode, scan, lapses>>

NextAllBlocked ==
  /\ mode = "nextProcess"
  /\ current # NULL
  /\ ~Runnable(current)
  /\ current = firstBlockedIteration
  /\ idleFlag' = 1
  /\ IF Alive(IDLE_PID) THEN unblock(IDLE_PID) ELSE UNCHANGED <<state, foreground, backWait>>
  /\ current' = NextOf(current)
  /\ UNCHANGED <<procs, ppid, priority, executions, children, firstBlockedIteration,
                 pids, sleeping, mode, scan, lapses>>

\* The processCDT is unlinked and freed.
NextReap ==
  /\ mode = "nextProcess"
  /\ current # NULL
  /\ current # firstBlockedIteration
  /\ state[current] = "DEAD"
  /\ current' = NextOf(current)
  /\ procs' = removeProcess(current)
  /\ state' = [state EXCEPT ![current] = "NONE"]
  /\ ppid' = [ppid EXCEPT ![current] = NULL]
  /\ priority' = [priority EXCEPT ![current] = 0]
  /\ executions' = [executions EXCEPT ![current] = 0]
  /\ foreground' = [foreground EXCEPT ![current] = FALSE]
  /\ backWait' = [backWait EXCEPT ![current] = FALSE]
  /\ children' = [children EXCEPT ![current] = 0]
  /\ UNCHANGED <<idleFlag, firstBlockedIteration, pids, sleeping, mode, scan, lapses>>

NextSkip ==
  /\ mode = "nextProcess"
  /\ current # NULL
  /\ current # firstBlockedIteration
  /\ state[current] \in {"BLOCKED", "WAITING", "BLOCKEDIO"}
  /\ firstBlockedIteration' =
       IF firstBlockedIteration = NULL THEN current ELSE firstBlockedIteration
  /\ current' = NextOf(current)
  /\ UNCHANGED <<procs, procVars, idleFlag, pids, sleeping, mode, scan, lapses>>

\* Mutant: the mark firstBlockedIteration survives.
NextRun_mutant ==
  /\ mode = "nextProcess"
  /\ current # NULL
  /\ Runnable(current)
  /\ IF current # IDLE_PID /\ idleFlag # 0
     THEN idleFlag' = 0 /\ state' = IdleBlocked
     ELSE UNCHANGED <<idleFlag, state>>
  /\ executions' = [executions EXCEPT ![current] = Char(@ + 1)]
  /\ mode' = "user"
  /\ UNCHANGED <<procs, ppid, priority, foreground, backWait, children, current,
                 firstBlockedIteration, pids, sleeping, scan, lapses>>

\* The loop ends at a ready process: the idle process is put to rest unless it
\* was chosen, and the chosen one starts a tick.
NextRun ==
  /\ mode = "nextProcess"
  /\ current # NULL
  /\ Runnable(current)
  /\ IF current # IDLE_PID /\ idleFlag # 0
     THEN idleFlag' = 0 /\ state' = IdleBlocked
     ELSE UNCHANGED <<idleFlag, state>>
  /\ firstBlockedIteration' = NULL
  /\ executions' = [executions EXCEPT ![current] = Char(@ + 1)]
  /\ mode' = "user"
  /\ UNCHANGED <<procs, ppid, priority, foreground, backWait, children, current, pids,
                 sleeping, scan, lapses>>

nextProcess == EnterNextProcess \/ NextWrap \/ NextAllBlocked \/ NextReap \/ NextSkip \/ NextRun

TimerHandler == wakeUp \/ nextProcess

-----------------------------------------------------------------------------
Next == SystemCall \/ TimerInterrupt \/ unblockIO \/ ClockSecond \/ TimerHandler

Spec == Init /\ [][Next]_vars

\* The CPU keeps executing kernel code and the real-time clock advances.  A
\* tick raised while the kernel has interrupts off stays pending in the PIC and
\* is delivered on the return to user code: strong fairness.  Nothing is
\* assumed of user code.
Fairness ==
  /\ WF_vars(TimerHandler)
  /\ SF_vars(TimerInterrupt)
  /\ WF_vars(ClockSecond)

FairSpec == Spec /\ Fairness

-----------------------------------------------------------------------------
(* Properties.                                                             *)

Live(p) == state[p] \notin {"NONE", "DEAD"}
LiveChildren(p) == {c \in Pid : Live(c) /\ ppid[c] = p}

\* Types of the scheduler's globals and of the fields of processCDT.
TypeOK ==
  /\ procs \in Seq(Pid)
  /\ state \in [Pid -> States]
  /\ ppid \in [Pid -> Pid \union {NULL}]
  /\ priority \in [Pid -> 0..(MAX_PRIORITY - 1)]
  /\ executions \in [Pid -> -(CHAR_MAX + 1)..CHAR_MAX]
  /\ foreground \in [Pid -> BOOLEAN]
  /\ backWait \in [Pid -> BOOLEAN]
  /\ children \in [Pid -> Int]
  /\ current \in Pid \union {NULL}
  /\ pids \in 3..(MaxPid + 1)
  /\ idleFlag \in 0..2
  /\ firstBlockedIteration \in Pid \union {NULL}
  /\ sleeping \in Seq([pid : Pid, left : 0..MaxSecs])
  /\ mode \in Modes
  /\ scan \in Nat
  /\ lapses \subseteq Lapses

\* The linked list built by enqueueProcess, relinked by unblockFirst and cut by
\* removeProcess holds every process that has not been freed, once, and no pid
\* of the future: no process is lost from scheduling and none is seen twice.
ListWellFormed ==
  /\ \A i, j \in 1..Len(procs) : procs[i] = procs[j] => i = j
  /\ \A p \in Pid : (state[p] # "NONE") <=> searchProcess(p)
  /\ \A p \in Pid : searchProcess(p) => p < pids

\* currentProcess, and the mark firstBlockedIteration of nextProcess, are never
\* dangling: neither points to a processCDT that vPortFree has released.
NoDanglingProcess ==
  /\ current # NULL => state[current] # "NONE"
  /\ firstBlockedIteration # NULL => Live(firstBlockedIteration)

\* Whenever the handler has returned to user code, the process that runs is a
\* ready one: no blocked or killed process ever executes.
RunningIsReady ==
  mode = "user" => current # NULL /\ state[current] = "READY"

\* currentProcess is always good to run or to move on from, and so is the mark.
CpuIsSound == NoDanglingProcess /\ RunningIsReady

\* The counter wait() and kill() work on is the number of live children, unless
\* a dead process was killed again before nextProcess freed it.
ChildrenCounted ==
  "killDead" \notin lapses =>
    \A p \in Pid : state[p] # "NONE" => children[p] = Cardinality(LiveChildren(p))

\* A process blocked in wait() has a live child whose death will wake it.
WaiterHasChild ==
  "killDead" \notin lapses =>
    \A p \in Pid : state[p] = "WAITING" => LiveChildren(p) # {}

\* No process gets more ticks in a turn than its priority gives it, as long as
\* nice() does not cut a turn short and wait() is not called in the last tick of
\* one: nextProcess ends a turn only when executions equals the quantum.
QuantumRespected ==
  lapses \intersect {"niceBelow", "lateWait"} = {} =>
    \A p \in Pid : Live(p) => executions[p] \in 0..Quantum(p)

\* The terminal always has a reader: as long as the first user process lives,
\* some live process is in the foreground.  A process killed while it has lent
\* the foreground takes it to the grave.
TerminalHeld ==
  Live(INIT_PID) /\ "killLender" \notin lapses =>
    \E p \in Pid : Live(p) /\ foreground[p]

\* Once the first user process has run (idleFlag is 2 until then, and the idle
\* process, first in the list, does run before it), nextProcess gives the CPU to
\* the idle process only when no process is ready, whatever brought it there.  Two
\* calls void this and are recorded or excluded: an unblock of the idle process
\* itself, which makes it one ready process among the others until it is blocked
\* again, and a nice that gives it turns of more than one tick, which it uses up
\* whatever becomes ready meanwhile.
IdleIsLastResort ==
  [][/\ mode = "nextProcess" /\ mode' = "user" /\ current = IDLE_PID
     /\ idleFlag # 2 /\ "wakeIdle" \notin lapses /\ Quantum(IDLE_PID) = 1
     => \A p \in Pid : state[p] = "READY" => p = IDLE_PID]_vars

\* A process that was killed never comes back, whatever is done to it before
\* nextProcess frees it; and its pid is not used again.
DeadStaysDead ==
  [][\A p \in Pid : /\ state[p] = "DEAD" => state'[p] \in {"DEAD", "NONE"}
                    /\ state[p] = "NONE" /\ p < pids => state'[p] = "NONE"]_vars

\* The loops of the timer handler end and user code runs again, unless the idle
\* process was killed.
HandlerReturns ==
  mode # "user" ~> mode = "user" \/ "killIdle" \in lapses

\* A process blocked in sleep() wakes up, although a scan of the sleepers stops
\* as soon as it has woken the first of the list.
SleeperWakes ==
  \A p \in Pid :
    state[p] = "BLOCKED" /\ (\E i \in 1..Len(sleeping) : sleeping[i].pid = p)
      ~> state[p] # "BLOCKED" \/ "killIdle" \in lapses
=============================================================================
