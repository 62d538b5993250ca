-------------------------------- MODULE Pipes --------------------------------
(***************************************************************************)
(* Pipes: Kernel/utils/pipe.c and the pipe side of read() and write(), on  *)
(* top of the semaphores and the scheduler.                                *)
(*                                                                         *)
(* openPipe() looks its two semaphores up by the same names every time, so *)
(* all pipes share one lock and one count of unread characters.  A system  *)
(* call runs with interrupts off, but it is left in the middle whenever    *)
(* semWait() blocks or semPost() hands the CPU to a waiter: call[p] is     *)
(* where p continues.                                                      *)
(***************************************************************************)
EXTENDS Semaphores

CONSTANTS
  PIPE_MAX_SIZE,  \* 1024 in the code
  Chars,          \* what processes write; -1 (EOF) ends a read()
  EOF,
  Junk,           \* a buffer element nobody wrote: malloc does not clear it
  MaxPipes,       \* bound: calls of openPipe
  MaxWrite,       \* bound: characters of one write(), length of one read()
  MaxSent         \* bound: characters written to one pipe

LOCK == "Pipes"
FULL == "FullSem"

ASSUME PipesAssumption ==
  /\ PIPE_MAX_SIZE \in Nat \ {0}
  /\ EOF \in Chars /\ Junk \notin Chars
  /\ MaxPipes \in Nat /\ MaxWrite \in Nat /\ MaxSent \in Nat
  /\ Sems = {LOCK, FULL} /\ Mutexes = {LOCK} /\ SemMod > 2 * (MaxPipes * MaxSent + 1)

PipeId == 1..MaxPipes
Kinds == {"pipe_t", "name", "buffer", "node_t"}   \* what openPipe mallocs
TERMINAL == 0                         \* STDIN, STDOUT

VARIABLES
  fd,           \* fd[p]: the pipes behind fd[0] and fd[1] of the process
  call,         \* call[p]: where p is inside a system call on which pipe
  firstPipe,    \* the pipes in the list
  fdIndex,      \* the pipes opened so far
  semsOf,       \* semsOf[n]: which opening of the semaphores pipe n points to
  opening,      \* the opening of the semaphores that is in use
  blocks,       \* the heap blocks the pipes hold: [of : PipeId, kind : Kinds]
  buffer, currentR, currentW,
  sent, received, \* history: the characters that went in and came out
  slips         \* history: uses of pipes that void one of the guarantees

dataVars == <<buffer, currentR, currentW, sent, received>>
listVars == <<firstPipe, fdIndex, semsOf, opening>>
pipeVars == <<fd, call, listVars, blocks, dataVars, slips>>

NoCall == [at |-> "user", pipe |-> TERMINAL, todo |-> 0]

PipesInit ==
  /\ SemInit
  /\ fd = [p \in Pid |-> [in |-> TERMINAL, out |-> TERMINAL]]
  /\ call = [p \in Pid |-> NoCall]
  /\ firstPipe = {}
  /\ fdIndex = 0
  /\ semsOf = [n \in PipeId |-> 0]
  /\ opening = 0
  /\ blocks = {}
  /\ buffer = [n \in PipeId |-> [i \in 0..(PIPE_MAX_SIZE - 1) |-> Junk]]
  /\ currentR = [n \in PipeId |-> 0]
  /\ currentW = [n \in PipeId |-> 0]
  /\ sent = [n \in PipeId |-> << >>]
  /\ received = [n \in PipeId |-> << >>]
  /\ slips = {}

\* The current process executes its own code (and is not the idle process).
Settled == InUserCode /\ call[current].at = "user"
UserCall == Settled /\ current # IDLE_PID

here == call[current].pipe
At(label) == InUserCode /\ call[current].at = label
Goto(label) == call' = [call EXCEPT ![current].at = label]
Return == call' = [call EXCEPT ![current] = NoCall]

\* Mutant: the search starts behind the first node.
Valid_mutant(n) == n \in firstPipe \ {fdIndex} /\ semsOf[n] = opening

\* searchWPipe and searchRPipe find the pipe, and its semaphores still exist.
Valid(n) == n \in firstPipe /\ semsOf[n] = opening

-----------------------------------------------------------------------------
(* openPipe and closePipe.                                                 *)

BlocksOf(n, kinds) == [of : {n}, kind : kinds]

openPipe ==
  /\ UserCall
  /\ fdIndex < MaxPipes
  /\ blocks' = blocks \union BlocksOf(fdIndex + 1, {"pipe_t", "name", "buffer"})
  /\ IF isOpen[LOCK] THEN UNCHANGED allVars ELSE semOpen(LOCK)
  /\ Goto("openFull")
  /\ UNCHANGED <<fd, listVars, dataVars, slips>>

openPipeFull ==
  /\ At("openFull")
  /\ opening' = IF isOpen[FULL] THEN opening ELSE opening + 1
  /\ IF isOpen[FULL] THEN UNCHANGED allVars ELSE semOpen(FULL)
  /\ fdIndex' = fdIndex + 1
  /\ blocks' = blocks \union BlocksOf(fdIndex', {"node_t"})
  /\ firstPipe' = firstPipe \union {fdIndex'}
  /\ semsOf' = [semsOf EXCEPT ![fdIndex'] = opening']
  /\ slips' = IF firstPipe # {} THEN slips \union {"shared"} ELSE slips
  /\ Return
  /\ UNCHANGED <<fd, dataVars>>

\* The lock is taken and never given back: it is closed.
closePipe ==
  /\ UserCall
  /\ \E n \in firstPipe :
       /\ call' = [call EXCEPT ![current] = [at |-> "close", pipe |-> n, todo |-> 0]]
       /\ IF Valid(n) THEN semWait(LOCK) ELSE UNCHANGED allVars
  /\ UNCHANGED <<fd, listVars, blocks, dataVars, slips>>

closePipeUnlink ==
  /\ At("close") /\ Valid(here)
  /\ firstPipe' = firstPipe \ {here}
  /\ semClose(LOCK)
  /\ slips' = IF \E p \in Pid : here \in {fd[p].in, fd[p].out}
              THEN slips \union {"closedInUse"} ELSE slips
  /\ Goto("closeFull")
  /\ UNCHANGED <<fd, fdIndex, semsOf, opening, blocks, dataVars>>

\* vPortFree of a block that is free finds the bit of its header cleared and
\* changes nothing; no block of a pipe is freed in its malloc'ed life but here.
vPortFree(heap, n, kind) == heap \ {[of |-> n, kind |-> kind]}

\* The array fd is the first member of pipe_t: its "free" frees the pipe_t, from
\* which name and buffer are then read and which is freed once more.  Interrupts
\* are off and nothing is allocated from the first free to the last, so the
\* members read are still those of the pipe and the second free is one of a block
\* that is free.
closePipeFull ==
  /\ At("closeFull")
  /\ semClose(FULL)
  /\ opening' = opening + 1
  /\ LET fdFreed     == vPortFree(blocks, here, "pipe_t")
         nameFreed   == vPortFree(fdFreed, here, "name")
         bufferFreed == vPortFree(nameFreed, here, "buffer")
         pipeFreed   == vPortFree(bufferFreed, here, "pipe_t")
     IN  blocks' = vPortFree(pipeFreed, here, "node_t")
  /\ Return
  /\ UNCHANGED <<fd, firstPipe, fdIndex, semsOf, dataVars, slips>>

-----------------------------------------------------------------------------
(* write() and writePipe.                                                  *)

\* bound: what the writers of n have still to write
Pending(n) ==
  MapThenSumSet(LAMBDA p : IF fd[p].out = n /\ call[p].at \in {"writePipe", "put", "postFull"}
                           THEN call[p].todo ELSE 0, Pid)

\* write() passes the characters of the string one by one to writePipe; it
\* stops at its end or after length + 1 of them (i <= length).
write ==
  /\ UserCall
  /\ fd[current].out # TERMINAL
  /\ \E strlen \in 1..MaxWrite, length \in 0..MaxWrite :
       LET count == IF strlen <= length THEN strlen ELSE length + 1
       IN  /\ currentW[fd[current].out] + Pending(fd[current].out) + count <= MaxSent
           /\ call' = [call EXCEPT ![current] =
                        [at |-> "writePipe", pipe |-> fd[current].out, todo |-> count]]
  /\ UNCHANGED <<allVars, fd, listVars, blocks, dataVars, slips>>

writePipe ==
  /\ At("writePipe") /\ Valid(here)
  /\ semWait(LOCK)
  /\ Goto("put")
  /\ UNCHANGED <<fd, listVars, blocks, dataVars, slips>>

\* Mutant: the position is not taken modulo the size of the buffer.
writePipePut_mutant ==
  /\ At("put") /\ Valid(here)
  /\ \E c \in Chars :
       /\ buffer' = [buffer EXCEPT ![here][currentW[here]] = c]
       /\ sent' = [sent EXCEPT ![here] = Append(@, c)]
  /\ currentW' = [currentW EXCEPT ![here] = @ + 1]
  /\ slips' = IF currentW[here] - currentR[here] >= PIPE_MAX_SIZE
              THEN slips \union {"overrun"} ELSE slips
  /\ semPost(LOCK)
  /\ Goto("postFull")
  /\ UNCHANGED <<fd, listVars, blocks, currentR, received>>

\* Nothing keeps a writer from running over characters that were not read.
writePipePut ==
  /\ At("put") /\ Valid(here)
  /\ \E c \in Chars :
       /\ buffer' = [buffer EXCEPT ![here][currentW[here] % PIPE_MAX_SIZE] = c]
       /\ sent' = [sent EXCEPT ![here] = Append(@, c)]
  /\ currentW' = [currentW EXCEPT ![here] = @ + 1]
  /\ slips' = IF currentW[here] - currentR[here] >= PIPE_MAX_SIZE
              THEN slips \union {"overrun"} ELSE slips
  /\ semPost(LOCK)
  /\ Goto("postFull")
  /\ UNCHANGED <<fd, listVars, blocks, currentR, received>>

NextChar == IF call[current].todo = 1
            THEN NoCall
            ELSE [at |-> "writePipe", pipe |-> here, todo |-> call[current].todo - 1]

writePipePost ==
  /\ At("postFull") /\ Valid(here)
  /\ semPost(FULL)
  /\ call' = [call EXCEPT ![current] = NextChar]
  /\ UNCHANGED <<fd, listVars, blocks, dataVars, slips>>

-----------------------------------------------------------------------------
(* read() and readPipe.                                                    *)

read ==
  /\ UserCall
  /\ fd[current].in # TERMINAL
  /\ \E length \in 1..MaxWrite :
       call' = [call EXCEPT ![current] =
                  [at |-> "readPipe", pipe |-> fd[current].in, todo |-> length]]
  /\ UNCHANGED <<allVars, fd, listVars, blocks, dataVars, slips>>

\* Mutant: a reader that finds the count at zero does not wait.
readPipe_mutant ==
  /\ At("readPipe") /\ Valid(here)
  /\ IF value[FULL] > 0 THEN semWait(FULL) ELSE UNCHANGED allVars
  /\ Goto("readLock")
  /\ UNCHANGED <<fd, listVars, blocks, dataVars, slips>>

readPipe ==
  /\ At("readPipe") /\ Valid(here)
  /\ semWait(FULL)
  /\ Goto("readLock")
  /\ UNCHANGED <<fd, listVars, blocks, dataVars, slips>>

readPipeLock ==
  /\ At("readLock") /\ Valid(here)
  /\ semWait(LOCK)
  /\ Goto("get")
  /\ UNCHANGED <<fd, listVars, blocks, dataVars, slips>>

\* Mutant: the lock is kept when the read() ends.
readPipeGet_mutant ==
  /\ At("get") /\ Valid(here)
  /\ LET c == buffer[here][currentR[here] % PIPE_MAX_SIZE]
     IN  /\ received' = [received EXCEPT ![here] = Append(@, c)]
         /\ IF call[current].todo = 1 \/ c = EOF
            THEN Return /\ UNCHANGED allVars
            ELSE /\ call' = [call EXCEPT ![current].at = "readPipe", ![current].todo = @ - 1]
                 /\ semPost(LOCK)
  /\ currentR' = [currentR EXCEPT ![here] = @ + 1]
  /\ UNCHANGED <<fd, listVars, blocks, buffer, currentW, sent, slips>>

\* read() ends at its length, at EOF and at a zero, which only Junk can be.
NextRead(c) ==
  {n \in {NoCall, [at |-> "readPipe", pipe |-> here, todo |-> call[current].todo - 1]} :
     IF n = NoCall THEN call[current].todo = 1 \/ c \in {EOF, Junk}
                   ELSE call[current].todo # 1 /\ c # EOF}

readPipeGet ==
  /\ At("get") /\ Valid(here)
  /\ LET c == buffer[here][currentR[here] % PIPE_MAX_SIZE]
     IN  /\ received' = [received EXCEPT ![here] = Append(@, c)]
         /\ \E n \in NextRead(c) : call' = [call EXCEPT ![current] = n]
  /\ currentR' = [currentR EXCEPT ![here] = @ + 1]
  /\ semPost(LOCK)
  /\ UNCHANGED <<fd, listVars, blocks, buffer, currentW, sent, slips>>

-----------------------------------------------------------------------------
\* The pipe or its semaphores are gone: the call works on a null pointer or on
\* freed memory, and what follows is undefined.
UseAfterClose ==
  /\ InUserCode
  /\ call[current].at \in {"writePipe", "put", "postFull", "readPipe", "readLock", "get", "close"}
  /\ ~Valid(here)
  /\ mode' = "corrupt"
  /\ UNCHANGED <<procs, procVars, cpuVars, pids, sleeping, scan, lapses, semVars, pipeVars>>

\* A step of the scheduler: none while a call is in progress.  loadProcess
\* gives the new process its two file descriptors.
PipesSchedulerStep ==
  /\ mode = "user" /\ ~Settled => UNCHANGED <<procs, procVars, cpuVars, mode, scan>>
  /\ SchedulerStep
  /\ \E ends \in [in : firstPipe \union {TERMINAL}, out : firstPipe \union {TERMINAL}] :
       /\ pids' = pids => ends = fd[IDLE_PID]
       /\ fd' = [p \in Pid |-> IF state'[p] = "DEAD" THEN fd[IDLE_PID]
                               ELSE IF p = pids /\ pids' # pids THEN ends ELSE fd[p]]
  /\ call' = [p \in Pid |-> IF state'[p] = "DEAD" THEN NoCall ELSE call[p]]
  /\ UNCHANGED <<listVars, blocks, dataVars, slips>>

PipesNext ==
  \/ openPipe \/ openPipeFull \/ closePipe \/ closePipeUnlink \/ closePipeFull
  \/ write \/ writePipe \/ writePipePut \/ writePipePost
  \/ read \/ readPipe \/ readPipeLock \/ readPipeGet
  \/ semWaitResume /\ UNCHANGED pipeVars
  \/ UseAfterClose
  \/ PipesSchedulerStep

PipesSpec == PipesInit /\ [][PipesNext]_<<allVars, pipeVars>>

-----------------------------------------------------------------------------
(* Properties.                                                             *)

\* What comes out of a pipe is what went in, in order and nothing twice, even
\* when readers and writers are killed half-way: unless the pipe was run over,
\* shared its count with another pipe, or a waiter was woken by sys_unblock.
ReadsInOrder ==
  slips \intersect {"overrun", "shared"} = {} /\ "spuriousWake" \notin faults =>
    \A n \in PipeId : IsPrefix(received[n], sent[n])

\* Whenever a process runs its own code, FullSem counts the unread characters
\* of the pipe, also after a run over, and no reader stays blocked on a pipe that
\* has something to read.
CountIsUnread ==
  Settled /\ "shared" \notin slips /\ "spuriousWake" \notin faults =>
    /\ \A n \in firstPipe : value[FULL] = currentW[n] - currentR[n]
    /\ faults \intersect {"killedWaiter", "closedWaiter"} = {} =>
         \A p \in Pid : waitingOn[p] = FULL => currentR[call[p].pipe] = currentW[call[p].pipe]

\* No process ever leaves a call, blocks, or is switched away or killed with
\* the lock of the pipes taken, so that closePipe never waits.
LockNeverKept ==
  Settled /\ isOpen[LOCK] => value[LOCK] = 1 /\ entering[LOCK] = << >> /\ Holders(LOCK) = {}

\* No call works on the freed memory of a pipe, or of its semaphores, unless that
\* pipe was closed while some process had it, or next to a second pipe, which
\* shares the semaphores, or a waiter was woken by sys_unblock.  (closePipe itself
\* does, without harm: it goes on reading the pipe_t it has just freed.)
CorruptOnlyAfterClose ==
  mode = "corrupt" => \/ slips \intersect {"closedInUse", "shared"} # {}
                      \/ "spuriousWake" \in faults

\* The blocks taken and not given back are the four of every pipe in the list.
BlocksAreListed == blocks = [of : firstPipe, kind : Kinds]

\* The memory of pipes: no call outlives it but after a misuse, and between calls
\* everything that openPipe took for the pipes in the list is still theirs, and all
\* of what it took for the others is back, whoever was killed or switched away
\* meanwhile and although closePipe frees every pipe_t twice.
PipeMemory == CorruptOnlyAfterClose /\ (Settled => BlocksAreListed)
=============================================================================
