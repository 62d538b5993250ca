----------------------------- MODULE PipesProofs -----------------------------
(***************************************************************************)
(* Proofs about Pipes, for every number of processes and pipes, every size *)
(* of the buffer and any length of the calls.                              *)
(***************************************************************************)
EXTENDS Pipes, SemaphoreProofs

-----------------------------------------------------------------------------
(* The inductive invariants.                                               *)

\* Where interrupts have been off since the process was last seen elsewhere.
Atomic == {"openFull", "close", "closeFull", "put", "postFull", "readPipe", "get"}
Labels == {"user", "writePipe", "readLock"} \union Atomic

\* Types of the state of pipe.c; calls and descriptors are of pipes opened so far.
PipeTypes ==
  /\ fdIndex \in 0..MaxPipes /\ firstPipe \subseteq 1..fdIndex
  /\ fd \in [Pid -> [in : 0..fdIndex, out : 0..fdIndex]]
  /\ call \in [Pid -> [at : Labels, pipe : 0..fdIndex, todo : Int]]
  /\ semsOf \in [PipeId -> Nat] /\ opening \in Nat
  /\ \A p \in Pid : call[p].at = "openFull" => fdIndex < MaxPipes
  /\ buffer \in [PipeId -> [0..(PIPE_MAX_SIZE - 1) -> Chars \union {Junk}]]
  /\ currentR \in [PipeId -> Nat] /\ currentW \in [PipeId -> Nat]
  /\ sent \in [PipeId -> Seq(Chars)]
  /\ received \in [PipeId -> Seq(Chars \union {Junk})]
  /\ \A n \in PipeId : /\ Len(sent[n]) = currentW[n] /\ Len(received[n]) = currentR[n]
                       /\ n > fdIndex => currentR[n] = 0 /\ currentW[n] = 0

\* p has the CPU and is in its own code or in one of the atomic stretches.
HasCPU(p) == p = current /\ mode \in {"user", "corrupt"} /\ waitingOn[p] = NoSem

\* A process that is switched away inside a call is about to take the lock, or
\* blocked on the count, and nobody dead is in a call.
CallsInv ==
  \A p \in Pid :
    /\ call[p].at \in Atomic => HasCPU(p)
    /\ call[p].at = "readLock" => HasCPU(p) \/ waitingOn[p] # NoSem
    /\ waitingOn[p] # NoSem => call[p].at = "readLock" /\ waitingOn[p] # LOCK
    /\ call[p].at # "user" => state[p] \notin {"NONE", "DEAD"}

\* The lock is held only inside the atomic stretches, so that nobody waits for it.
LockInv ==
  /\ entering[LOCK] = << >>
  /\ \A p \in Pid : LOCK \in holding[p] => call[p].at \in {"put", "get", "close"}
  /\ isOpen[LOCK] => value[LOCK] = IF \E p \in Pid : LOCK \in holding[p] THEN 0 ELSE 1

Closing == \E p \in Pid : call[p].at = "closeFull"

\* One pipe at a time, whose semaphores exist as long as it does.
ListInv ==
  "shared" \notin slips =>
    /\ \A n, m \in firstPipe : n = m
    /\ \A n \in firstPipe : semsOf[n] = opening
    /\ Closing => firstPipe = {}
    /\ firstPipe = {} /\ isOpen[FULL] => Closing

\* No call is on a pipe that was closed.
UseInv ==
  slips \intersect {"closedInUse", "shared"} = {} =>
    \A p \in Pid :
      /\ fd[p].in \in firstPipe \union {TERMINAL} /\ fd[p].out \in firstPipe \union {TERMINAL}
      /\ call[p].at \in {"writePipe", "put", "postFull"} =>
           call[p].pipe = fd[p].out /\ fd[p].out # TERMINAL
      /\ call[p].at \in {"readPipe", "readLock", "get"} =>
           call[p].pipe = fd[p].in /\ fd[p].in # TERMINAL
      /\ call[p].at = "close" => call[p].pipe \in firstPipe

\* p has changed the pipe and not yet the count, or the other way round.
Owes(p) ==
  /\ call[p].pipe \in firstPipe
  /\ \/ call[p].at \in {"postFull", "get"}
     \/ call[p].at = "readLock" /\ waitingOn[p] = NoSem

Debt == IF \E p \in Pid : Owes(p) THEN 1 ELSE 0

\* The count, whatever the process that has the CPU is doing.
Counted == \A n \in firstPipe : value[FULL] = (currentW[n] - currentR[n]) - Debt

\* Who waits for a character waits for one of a pipe that exists.
WaitersOnPipe ==
  \A p \in Pid : /\ waitingOn[p] = FULL => call[p].pipe \in firstPipe \/ Closing
                 /\ waitingOn[p] = Freed => call[p].pipe \notin firstPipe

CountInv ==
  "shared" \notin slips /\ "spuriousWake" \notin faults /\ mode # "corrupt" =>
    Counted /\ WaitersOnPipe

\* The invariants of the semaphores hold until memory is corrupted, which only a
\* use of freed memory does.
SemInv ==
  /\ SafetyInv /\ SemTypes
  /\ mode # "corrupt" => QueueInv /\ ValueInv

\* The unread characters are those in the buffer from currentR to currentW.
InOrder(n) ==
  /\ currentR[n] <= currentW[n] /\ currentW[n] - currentR[n] <= PIPE_MAX_SIZE
  /\ \A i \in currentR[n]..(currentW[n] - 1) : buffer[n][i % PIPE_MAX_SIZE] = sent[n][i + 1]
  /\ \A i \in 1..currentR[n] : received[n][i] = sent[n][i]

OrderInv ==
  slips \intersect {"overrun", "shared"} = {} /\ "spuriousWake" \notin faults =>
    \A n \in PipeId : InOrder(n)

\* The blocks of the pipes in the list, and those of the pipe that openPipe is
\* making or closePipe has just taken out of the list.
BlocksInv ==
  /\ (\A p \in Pid : call[p].at \notin {"openFull", "closeFull"}) => BlocksAreListed
  /\ \A p \in Pid :
       /\ call[p].at = "openFull" =>
            blocks = [of : firstPipe, kind : Kinds] \union BlocksOf(fdIndex + 1, {"pipe_t", "name", "buffer"})
       /\ call[p].at = "closeFull" =>
            /\ call[p].pipe \notin firstPipe
            /\ blocks = [of : firstPipe, kind : Kinds] \union BlocksOf(call[p].pipe, Kinds)

-----------------------------------------------------------------------------
(* Types.                                                                  *)

\* The two semaphores are different, and neither is the mark of no semaphore.
LEMMA TwoSems ==
  /\ LOCK \in Sems /\ FULL \in Sems /\ LOCK \in Mutexes /\ FULL \notin Mutexes
  /\ LOCK # FULL /\ LOCK # NoSem /\ FULL # NoSem /\ LOCK # Freed /\ FULL # Freed
  /\ Freed # NoSem
BY PipesAssumption, SemaphoresAssumption DEF LOCK, FULL

\* The process that makes a step of a system call.
LEMMA AtFacts ==
  ASSUME SafetyInv, SemTypes, PipeTypes, InUserCode
  PROVE  /\ current \in Pid /\ mode = "user" /\ waitingOn[current] = NoSem
         /\ state[current] = "READY"
         /\ call[current] \in [at : Labels, pipe : 0..fdIndex, todo : Int]
         /\ here = call[current].pipe
         /\ \A n : Valid(n) => n \in firstPipe /\ n \in PipeId /\ semsOf[n] = opening
<1>1. current \in Pid /\ mode = "user" /\ waitingOn[current] = NoSem /\ state[current] = "READY"
  BY CallerFacts
<1>2. firstPipe \subseteq PipeId
  BY PipesAssumption DEF PipeTypes, PipeId
<1> QED BY <1>1, <1>2 DEF PipeTypes, here, Valid

\* Steps that change neither the pipes nor what is in them.
LEMMA TypesSame ==
  ASSUME PipeTypes, UNCHANGED <<listVars, dataVars>>,
         fd' \in [Pid -> [in : 0..fdIndex, out : 0..fdIndex]],
         call' \in [Pid -> [at : Labels, pipe : 0..fdIndex, todo : Int]],
         \A p \in Pid : call'[p].at = "openFull" => fdIndex < MaxPipes
  PROVE  PipeTypes'
BY DEF PipeTypes, listVars, dataVars

\* A process and its calls under a step of the scheduler.
LEMMA SchedulerCalls ==
  ASSUME SafetyInv, SemTypes, PipeTypes, PipesSchedulerStep, NEW p \in Pid
  PROVE  /\ call'[p] = IF state'[p] = "DEAD" THEN NoCall ELSE call[p]
         /\ \/ fd'[p] = fd[p] \/ fd'[p] = fd[IDLE_PID]
            \/ /\ p = pids /\ pids' # pids /\ state[p] = "NONE"
               /\ fd'[p] \in [in : firstPipe \union {TERMINAL}, out : firstPipe \union {TERMINAL}]
<1>1. p = pids => state[p] = "NONE"
  BY DEF SafetyInv, ListWellFormed, Pid
<1> QED BY <1>1 DEF PipesSchedulerStep

LEMMA PipeTypesNext ==
  SafetyInv /\ SemTypes /\ PipeTypes /\ CallsInv /\ [PipesNext]_<<allVars, pipeVars>>
    => PipeTypes'
<1> SUFFICES ASSUME SafetyInv, SemTypes, PipeTypes, CallsInv, [PipesNext]_<<allVars, pipeVars>>
             PROVE  PipeTypes'
  OBVIOUS
<1> DEFINE Call == [at : Labels, pipe : 0..fdIndex, todo : Int]
<1>1. fdIndex \in 0..MaxPipes /\ firstPipe \subseteq 1..fdIndex /\ MaxPipes \in Nat
  BY PipesAssumption DEF PipeTypes
<1>2. NoCall \in Call /\ \A a \in Labels : [NoCall EXCEPT !.at = a] \in Call
  BY <1>1 DEF NoCall, TERMINAL, Labels
<1>3. \A p \in Pid, c \in Call :
        c.at # "openFull" \/ fdIndex < MaxPipes =>
          /\ [call EXCEPT ![p] = c] \in [Pid -> Call]
          /\ \A q \in Pid : [call EXCEPT ![p] = c][q].at = "openFull" => fdIndex < MaxPipes
  BY DEF PipeTypes
<1>4. InUserCode =>
        /\ current \in Pid /\ call[current] \in Call
        /\ \A a \in Labels : [call[current] EXCEPT !.at = a] \in Call
        /\ \A a \in Labels : [at |-> a, pipe |-> here, todo |-> call[current].todo - 1] \in Call
  <2>1. ASSUME NEW c \in Call, NEW a \in Labels
        PROVE  /\ [c EXCEPT !.at = a] \in Call
               /\ [at |-> a, pipe |-> c.pipe, todo |-> c.todo - 1] \in Call
    BY <2>1
  <2>2. InUserCode => current \in Pid /\ call[current] \in Call /\ here = call[current].pipe
    BY AtFacts
  <2> HIDE DEF Call
  <2> QED BY <2>1, <2>2
<1> HIDE DEF Call
<1>5. ASSUME InUserCode, NEW c \in Call, call' = [call EXCEPT ![current] = c],
             c.at # "openFull" \/ fdIndex < MaxPipes, UNCHANGED <<fd, listVars, dataVars>>
      PROVE  PipeTypes'
  BY <1>3, <1>4, <1>5, TypesSame DEF PipeTypes, Call
<1>6. ASSUME InUserCode, NEW a \in Labels, Goto(a), a # "openFull" \/ fdIndex < MaxPipes
      PROVE  /\ [call[current] EXCEPT !.at = a] \in Call
             /\ call' = [call EXCEPT ![current] = [call[current] EXCEPT !.at = a]]
             /\ [call[current] EXCEPT !.at = a].at # "openFull" \/ fdIndex < MaxPipes
  BY <1>4, <1>6 DEF Goto, Call
<1>6a. ASSUME InUserCode, NEW a \in Labels, Goto(a), a # "openFull" \/ fdIndex < MaxPipes
       PROVE  /\ call' \in [Pid -> Call]
              /\ \A q \in Pid : call'[q].at = "openFull" => fdIndex < MaxPipes
  <2> DEFINE c == [call[current] EXCEPT !.at = a]
  <2>1. /\ c \in Call /\ call' = [call EXCEPT ![current] = c]
        /\ c.at # "openFull" \/ fdIndex < MaxPipes
    BY <1>6, <1>6a
  <2>2. current \in Pid
    BY <1>4, <1>6a
  <2> HIDE DEF c
  <2> QED BY <1>3, <2>1, <2>2
<1>7. CASE openPipe \/ writePipe \/ writePipePost \/ readPipe \/ readPipeLock
  <2>1. CASE openPipe
    BY <1>1, <1>5, <1>6, <2>1 DEF openPipe, UserCall, Settled, Labels, Atomic
  <2>2. CASE writePipe
    BY <1>5, <1>6, <2>2 DEF writePipe, At, Labels, Atomic
  <2>3. CASE readPipe
    BY <1>5, <1>6, <2>3 DEF readPipe, At, Labels, Atomic
  <2>4. CASE readPipeLock
    BY <1>5, <1>6, <2>4 DEF readPipeLock, At, Labels, Atomic
  <2>5. CASE writePipePost
    <3>1. InUserCode /\ call' = [call EXCEPT ![current] = NextChar] /\ UNCHANGED <<fd, listVars, dataVars>>
      BY <2>5 DEF writePipePost, At
    <3>2. NextChar \in Call /\ NextChar.at # "openFull"
      BY <1>2, <1>4, <3>1 DEF NextChar, Labels, NoCall, Call
    <3> QED BY <1>5, <3>1, <3>2
  <2> QED BY <1>7, <2>1, <2>2, <2>3, <2>4, <2>5
<1>8. CASE openPipeFull
  <2>1. /\ InUserCode /\ call[current].at = "openFull"
        /\ opening' = (IF isOpen[FULL] THEN opening ELSE opening + 1)
        /\ fdIndex' = fdIndex + 1 /\ firstPipe' = firstPipe \union {fdIndex'}
        /\ semsOf' = [semsOf EXCEPT ![fdIndex'] = opening']
        /\ call' = [call EXCEPT ![current] = NoCall] /\ UNCHANGED fd /\ UNCHANGED dataVars
    BY <1>8 DEF openPipeFull, At, Return
  <2>2. fdIndex < MaxPipes /\ fdIndex' \in 0..MaxPipes /\ firstPipe' \subseteq 1..fdIndex'
    <3>1. fdIndex < MaxPipes
      BY <1>4, <2>1 DEF PipeTypes
    <3>2. PICK f \in 0..MaxPipes : f = fdIndex
      BY <1>1
    <3>3. fdIndex' = f + 1 /\ f + 1 \in 0..MaxPipes /\ firstPipe \subseteq 1..f
      BY <1>1, <2>1, <3>1, <3>2
    <3>4. \A x : x \in 1..f \/ x = f + 1 => x \in 1..(f + 1)
      BY <3>2
    <3>5. firstPipe' \subseteq 1..fdIndex'
      BY <2>1, <3>3, <3>4
    <3> QED BY <3>1, <3>3, <3>5
  <2>3. opening' \in Nat /\ semsOf' \in [PipeId -> Nat]
    <3>1. opening' \in Nat
      BY <2>1 DEF PipeTypes
    <3>2. fdIndex' \in PipeId
      BY <1>1, <2>1, <2>2 DEF PipeId
    <3> QED BY <2>1, <3>1, <3>2 DEF PipeTypes
  <2>4. \A x : x \in 0..fdIndex => x \in 0..fdIndex'
    BY <1>1, <2>1
  <2>5. fd' \in [Pid -> [in : 0..fdIndex', out : 0..fdIndex']]
    BY <2>1, <2>4 DEF PipeTypes
  <2>6. call' \in [Pid -> [at : Labels, pipe : 0..fdIndex', todo : Int]]
    <3>1. call' \in [Pid -> Call]
      BY <1>2, <1>4, <2>1, <2>2, <1>3 DEF NoCall
    <3> QED BY <2>4, <3>1 DEF Call
  <2>7. \A p \in Pid : call'[p].at # "openFull"
    <3>1. \A p \in Pid : p # current => call[p].at # "openFull"
      BY DEF CallsInv, HasCPU, Atomic
    <3> QED BY <1>2, <1>4, <2>1, <3>1 DEF NoCall, PipeTypes
  <2>8. \A n \in PipeId : n > fdIndex' => n > fdIndex
    BY <1>1, <2>1 DEF PipeId
  <2> QED BY <2>1, <2>2, <2>3, <2>5, <2>6, <2>7, <2>8 DEF PipeTypes, dataVars
<1>9. CASE closePipe
  <2>1. PICK n \in firstPipe :
          call' = [call EXCEPT ![current] = [at |-> "close", pipe |-> n, todo |-> 0]]
    BY <1>9 DEF closePipe
  <2>2. [at |-> "close", pipe |-> n, todo |-> 0] \in Call
    BY <1>1 DEF Call, Labels, Atomic
  <2> QED BY <1>5, <1>9, <2>1, <2>2 DEF closePipe, UserCall, Settled
<1>10. CASE closePipeUnlink
  <2>1. /\ InUserCode /\ Goto("closeFull") /\ firstPipe' = firstPipe \ {here}
        /\ UNCHANGED <<fd, fdIndex, semsOf, opening, dataVars>>
    BY <1>10 DEF closePipeUnlink, At
  <2>2. /\ call' \in [Pid -> Call]
        /\ \A q \in Pid : call'[q].at = "openFull" => fdIndex < MaxPipes
    <3>1. "postFull" \in Labels /\ "closeFull" \in Labels
      BY DEF Labels, Atomic
    <3> QED BY <1>6a, <2>1, <3>1
  <2> QED BY <1>1, <2>1, <2>2 DEF PipeTypes, dataVars, Call
<1>11. CASE closePipeFull
  <2>1. /\ InUserCode /\ call' = [call EXCEPT ![current] = NoCall] /\ opening' = opening + 1
        /\ UNCHANGED <<fd, firstPipe, fdIndex, semsOf, dataVars>>
    BY <1>11 DEF closePipeFull, At, Return
  <2>2. /\ call' \in [Pid -> Call]
        /\ \A q \in Pid : call'[q].at = "openFull" => fdIndex < MaxPipes
    BY <1>2, <1>3, <1>4, <2>1 DEF NoCall
  <2> QED BY <1>1, <2>1, <2>2 DEF PipeTypes, dataVars, Call
<1>12. CASE write \/ read
  <2>1. InUserCode /\ UNCHANGED <<fd, listVars, dataVars>>
    BY <1>12 DEF write, read, UserCall, Settled
  <2>2. fd[current].out \in 0..fdIndex /\ fd[current].in \in 0..fdIndex
    BY <1>4, <2>1 DEF PipeTypes
  <2>3. PICK a \in {"writePipe", "readPipe"}, n \in 0..fdIndex, todo \in Int :
          call' = [call EXCEPT ![current] = [at |-> a, pipe |-> n, todo |-> todo]]
    <3>1. CASE write
      <4>1. PICK strlen \in 1..MaxWrite, length \in 0..MaxWrite :
              call' = [call EXCEPT ![current] =
                        [at |-> "writePipe", pipe |-> fd[current].out,
                         todo |-> IF strlen <= length THEN strlen ELSE length + 1]]
        BY <3>1 DEF write
      <4>2. (IF strlen <= length THEN strlen ELSE length + 1) \in Int
        BY PipesAssumption
      <4> QED BY <2>2, <4>1, <4>2
    <3>2. CASE read
      <4>1. PICK length \in 1..MaxWrite :
              call' = [call EXCEPT ![current] =
                        [at |-> "readPipe", pipe |-> fd[current].in, todo |-> length]]
        BY <3>2 DEF read
      <4>2. length \in Int
        BY PipesAssumption
      <4> QED BY <2>2, <4>1, <4>2
    <3> QED BY <1>12, <3>1, <3>2
  <2>4. [at |-> a, pipe |-> n, todo |-> todo] \in Call
    BY DEF Call, Labels, Atomic
  <2> QED BY <1>5, <2>1, <2>3, <2>4
<1>13. CASE writePipePut
  <2>1. /\ InUserCode /\ Valid(here) /\ Goto("postFull") /\ UNCHANGED <<fd, listVars>>
        /\ UNCHANGED <<currentR, received>>
        /\ currentW' = [currentW EXCEPT ![here] = @ + 1]
    BY <1>13 DEF writePipePut, At
  <2>2. PICK c \in Chars :
          /\ buffer' = [buffer EXCEPT ![here][currentW[here] % PIPE_MAX_SIZE] = c]
          /\ sent' = [sent EXCEPT ![here] = Append(@, c)]
    BY <1>13 DEF writePipePut
  <2>3. here \in PipeId /\ here \in firstPipe /\ here <= fdIndex
    BY <1>1, <2>1, AtFacts
  <2>4. /\ call' \in [Pid -> Call]
        /\ \A q \in Pid : call'[q].at = "openFull" => fdIndex < MaxPipes
    <3>1. "postFull" \in Labels /\ "closeFull" \in Labels
      BY DEF Labels, Atomic
    <3> QED BY <1>6a, <2>1, <3>1
  <2>5. PICK n \in PipeId : n = here
    BY <2>3
  <2>6. /\ currentW' \in [PipeId -> Nat] /\ currentW'[n] = currentW[n] + 1
        /\ \A m \in PipeId \ {n} : currentW'[m] = currentW[m]
    BY <2>1, <2>5 DEF PipeTypes
  <2>7. /\ sent' \in [PipeId -> Seq(Chars)] /\ Len(sent'[n]) = Len(sent[n]) + 1
        /\ \A m \in PipeId \ {n} : sent'[m] = sent[m]
    BY <2>2, <2>5 DEF PipeTypes
  <2>8. buffer' \in [PipeId -> [0..(PIPE_MAX_SIZE - 1) -> Chars \union {Junk}]]
    BY <2>2, <2>5 DEF PipeTypes
  <2>9. \A m \in PipeId : m > fdIndex => m # n
    BY <1>1, <2>3, <2>5 DEF PipeId
  <2> QED BY <2>1, <2>4, <2>6, <2>7, <2>8, <2>9 DEF PipeTypes, listVars, Call
<1>14. CASE readPipeGet
  <2> DEFINE c == buffer[here][currentR[here] % PIPE_MAX_SIZE]
  <2>1. /\ InUserCode /\ Valid(here) /\ UNCHANGED <<fd, listVars>>
        /\ UNCHANGED <<buffer, currentW, sent>>
        /\ currentR' = [currentR EXCEPT ![here] = @ + 1]
        /\ received' = [received EXCEPT ![here] = Append(@, c)]
    BY <1>14 DEF readPipeGet, At
  <2>2. PICK next \in NextRead(c) : call' = [call EXCEPT ![current] = next]
    BY <1>14 DEF readPipeGet
  <2>3. here \in PipeId /\ here \in firstPipe /\ here <= fdIndex
    BY <1>1, <2>1, AtFacts
  <2>4. next \in Call /\ next.at # "openFull"
    <3>1. next \in {NoCall, [at |-> "readPipe", pipe |-> here, todo |-> call[current].todo - 1]}
      BY <2>2 DEF NextRead
    <3>2. CASE next = NoCall
      BY <1>2, <3>2 DEF NoCall
    <3>3. CASE next = [at |-> "readPipe", pipe |-> here, todo |-> call[current].todo - 1]
      <4>1. "readPipe" \in Labels
        BY DEF Labels, Atomic
      <4>2. next \in Call
        BY <1>4, <2>1, <3>3, <4>1
      <4> QED BY <1>4, <2>1, <3>3, <4>2 DEF Call
    <3> QED BY <3>1, <3>2, <3>3
  <2>5. /\ call' \in [Pid -> Call]
        /\ \A q \in Pid : call'[q].at = "openFull" => fdIndex < MaxPipes
    BY <1>3, <1>4, <2>1, <2>2, <2>4
  <2>6. PICK n \in PipeId : n = here
    BY <2>3
  <2>7. c \in Chars \union {Junk}
    <3>1. currentR[n] % PIPE_MAX_SIZE \in 0..(PIPE_MAX_SIZE - 1)
      <4>1. currentR[n] \in Nat
        BY DEF PipeTypes
      <4>2. PIPE_MAX_SIZE \in Nat /\ PIPE_MAX_SIZE > 0
        BY PipesAssumption
      <4> QED BY <4>1, <4>2
    <3>2. buffer[n][currentR[n] % PIPE_MAX_SIZE] \in Chars \union {Junk}
      <4>1. buffer[n] \in [0..(PIPE_MAX_SIZE - 1) -> Chars \union {Junk}]
        BY DEF PipeTypes
      <4> QED BY <3>1, <4>1
    <3>3. c = buffer[n][currentR[n] % PIPE_MAX_SIZE]
      BY <2>6
    <3> QED BY <3>2, <3>3
  <2>8. /\ currentR' \in [PipeId -> Nat] /\ currentR'[n] = currentR[n] + 1
        /\ \A m \in PipeId \ {n} : currentR'[m] = currentR[m]
    BY <2>1, <2>6 DEF PipeTypes
  <2> HIDE DEF c
  <2>9. /\ received' \in [PipeId -> Seq(Chars \union {Junk})]
        /\ Len(received'[n]) = Len(received[n]) + 1
        /\ \A m \in PipeId \ {n} : received'[m] = received[m]
    BY <2>1, <2>6, <2>7 DEF PipeTypes
  <2>10. \A m \in PipeId : m > fdIndex => m # n
    BY <1>1, <2>3, <2>6 DEF PipeId
  <2> QED BY <2>1, <2>5, <2>8, <2>9, <2>10 DEF PipeTypes, listVars, Call
<1>15. CASE PipesSchedulerStep
  <2>1. UNCHANGED <<listVars, dataVars>>
    BY <1>15 DEF PipesSchedulerStep
  <2>2. \A p \in Pid : call'[p] = (IF state'[p] = "DEAD" THEN NoCall ELSE call[p])
    BY <1>15 DEF PipesSchedulerStep
  <2>3. call' \in [Pid -> Call]
    BY <1>2, <1>15 DEF PipesSchedulerStep, PipeTypes, Call
  <2>4. fd' \in [Pid -> [in : 0..fdIndex, out : 0..fdIndex]]
    <3>1. PICK ends \in [in : firstPipe \union {TERMINAL}, out : firstPipe \union {TERMINAL}] :
            fd' = [p \in Pid |-> IF state'[p] = "DEAD" THEN fd[IDLE_PID]
                                 ELSE IF p = pids /\ pids' # pids THEN ends ELSE fd[p]]
      BY <1>15 DEF PipesSchedulerStep
    <3>2. \A x \in firstPipe \union {TERMINAL} : x \in 0..fdIndex
      BY <1>1 DEF TERMINAL
    <3>3. ends \in [in : 0..fdIndex, out : 0..fdIndex]
      BY <3>2
    <3>4. fd[IDLE_PID] \in [in : 0..fdIndex, out : 0..fdIndex]
      BY IdlePid DEF PipeTypes
    <3> QED BY <3>1, <3>3, <3>4 DEF PipeTypes
  <2>5. \A p \in Pid : call'[p].at = "openFull" => fdIndex < MaxPipes
    <3>1. NoCall.at = "user"
      BY DEF NoCall
    <3> QED BY <2>2, <3>1 DEF PipeTypes
  <2> QED BY <2>1, <2>3, <2>4, <2>5, TypesSame DEF Call
<1>16. CASE UNCHANGED pipeVars
  BY <1>16 DEF PipeTypes, pipeVars, listVars, dataVars
<1>17. UseAfterClose \/ (semWaitResume /\ UNCHANGED pipeVars) \/ UNCHANGED <<allVars, pipeVars>>
         => UNCHANGED pipeVars
  BY DEF UseAfterClose
<1> QED BY <1>7, <1>8, <1>9, <1>10, <1>11, <1>12, <1>13, <1>14, <1>15, <1>16, <1>17 DEF PipesNext

-----------------------------------------------------------------------------
(* The lock.                                                               *)

\* Only a dead process leaves the list.
LEMMA OnlyDeadFreed ==
  ASSUME SafetyInv, Next, NEW p \in Pid, state[p] \notin {"NONE", "DEAD"}
  PROVE  state'[p] # "NONE"
<1>1. SystemCall => current \in Pid
  BY UserFacts DEF SystemCall, SysLoadProcess, SysKill, exitProcess, SysBlock, SysUnblock, SysNice,
                   wait, blockIO, quitCPU, sleep, Calling
<1>2. CASE SysLoadProcess
  <2>1. PICK fg \in BOOLEAN : enqueueProcess(fg)
    BY <1>2 DEF SysLoadProcess
  <2> QED BY <2>1, IdlePid DEF enqueueProcess, IdleBlocked, SafetyInv, TypeOK
<1>3. CASE SysKill \/ exitProcess
  <2>1. PICK pid \in Pid : kill(pid)
    BY <1>1, <1>3 DEF SysKill, exitProcess, SystemCall
  <2> QED BY <2>1 DEF kill, SafetyInv, TypeOK
<1>4. CASE SysBlock \/ sleep
  <2>1. PICK pid \in Pid : block(pid)
    BY <1>1, <1>4 DEF SysBlock, sleep, SystemCall
  <2> QED BY <2>1 DEF block, SafetyInv, TypeOK
<1>5. CASE SysUnblock
  <2>1. PICK pid \in Pid : unblock(pid)
    BY <1>5 DEF SysUnblock
  <2> QED BY <2>1 DEF unblock, SafetyInv, TypeOK
<1>6. CASE wait \/ blockIO
  BY <1>1, <1>6 DEF wait, blockIO, SystemCall, SafetyInv, TypeOK
<1>7. CASE SysNice \/ quitCPU \/ TimerInterrupt \/ ClockSecond
  BY <1>7 DEF SysNice, quitCPU, TimerInterrupt, ClockSecond, procVars
<1>8. CASE unblockIO
  BY <1>8 DEF unblockIO
<1>9. CASE wakeUp
  <2>1. sleeping[FirstDue].pid \in Pid
    BY <1>9, FirstDueFacts DEF wakeUp, SafetyInv, ScanInList
  <2> QED BY <1>9, <2>1 DEF wakeUp, unblock, SafetyInv, TypeOK
<1>10. CASE NextAllBlocked
  BY <1>10, IdlePid DEF NextAllBlocked, unblock, SafetyInv, TypeOK
<1>11. CASE NextReap
  BY <1>11 DEF NextReap, SafetyInv, TypeOK
<1>12. CASE NextRun
  BY <1>12, IdlePid DEF NextRun, IdleBlocked, SafetyInv, TypeOK
<1>13. CASE EnterNextProcess \/ NextWrap \/ NextSkip
  BY <1>13 DEF EnterNextProcess, NextWrap, NextSkip, procVars
<1> QED BY <1>2, <1>3, <1>4, <1>5, <1>6, <1>7, <1>8, <1>9, <1>10, <1>11, <1>12, <1>13
        DEF Next, SystemCall, TimerHandler, nextProcess

\* A process inside a call is switched away only where it may be: a step of the
\* scheduler in the middle of a call is a tick of the clock.
LEMMA SchedulerAway ==
  ASSUME SafetyInv, SemTypes, CallsInv, PipesSchedulerStep
  PROVE  \/ UNCHANGED <<state, current, mode, pids>>
         \/ /\ mode # "corrupt"
            /\ \A p \in Pid : /\ call[p].at \notin Atomic
                              /\ call[p].at = "readLock" => waitingOn[p] # NoSem
<1>1. Next
  BY DEF PipesSchedulerStep, SchedulerStep
<1>2. CASE mode = "corrupt"
  <2>1. ClockSecond
    BY <1>1, <1>2 DEF Next, SystemCall, SysLoadProcess, SysKill, exitProcess, SysBlock, SysUnblock,
                      SysNice, wait, blockIO, quitCPU, sleep, Calling, TimerInterrupt, unblockIO,
                      TimerHandler, wakeUp, nextProcess, EnterNextProcess, NextWrap,
                      NextAllBlocked, NextReap, NextSkip, NextRun
  <2> QED BY <2>1 DEF ClockSecond, procVars, cpuVars
<1>3. CASE mode = "user" /\ ~Settled
  <2>1. UNCHANGED <<procs, procVars, cpuVars, mode>>
    BY <1>3 DEF PipesSchedulerStep
  <2>2. pids' # pids => SysLoadProcess
    BY <1>1 DEF Next, SystemCall, SysKill, exitProcess, SysBlock, SysUnblock,
                SysNice, wait, blockIO, quitCPU, sleep, TimerInterrupt, unblockIO,
                ClockSecond, TimerHandler, wakeUp, nextProcess, EnterNextProcess, NextWrap,
                NextAllBlocked, NextReap, NextSkip, NextRun
  <2>3. SysLoadProcess => Len(procs') = Len(procs) + 1
    BY DEF SysLoadProcess, enqueueProcess, SafetyInv, TypeOK, Pid
  <2>4. Len(procs) \in Nat
    BY DEF SafetyInv, TypeOK
  <2> QED BY <2>1, <2>2, <2>3, <2>4 DEF procVars, cpuVars
<1>4. CASE mode # "corrupt" /\ (mode = "user" => Settled)
  <2>1. ASSUME NEW p \in Pid
        PROVE  call[p].at # "user" => ~HasCPU(p)
    BY <1>4 DEF HasCPU, Settled
  <2>2. "user" \notin Atomic
    BY DEF Atomic
  <2> QED BY <1>4, <2>1, <2>2 DEF CallsInv
<1> QED BY <1>2, <1>3, <1>4

\* Calls under a step of the scheduler.
LEMMA CallsScheduler ==
  ASSUME SafetyInv, SemTypes, PipeTypes, CallsInv, PipesSchedulerStep
  PROVE  CallsInv'
<1>1. Next /\ waitingOn' = [p \in Pid |-> IF state'[p] = "DEAD" THEN NoSem ELSE waitingOn[p]]
  BY DEF PipesSchedulerStep, SchedulerStep
<1>2. \A p \in Pid : call'[p] = IF state'[p] = "DEAD" THEN NoCall ELSE call[p]
  BY DEF PipesSchedulerStep
<1>3. NoCall.at = "user" /\ "user" \notin Atomic /\ "readLock" # "user" /\ "readLock" \notin Atomic
  BY DEF NoCall, Atomic
<1>4. \A p \in Pid : state[p] \notin {"NONE", "DEAD"} => state'[p] # "NONE"
  BY <1>1, OnlyDeadFreed
<1>5. \A p \in Pid : /\ waitingOn'[p] = IF state'[p] = "DEAD" THEN NoSem ELSE waitingOn[p]
  BY <1>1
<1>6. CASE UNCHANGED <<state, current, mode, pids>>
  BY <1>2, <1>3, <1>5, <1>6 DEF CallsInv, HasCPU
<1>7. CASE \A p \in Pid : /\ call[p].at \notin Atomic
                          /\ call[p].at = "readLock" => waitingOn[p] # NoSem
  BY <1>2, <1>3, <1>4, <1>5, <1>7 DEF CallsInv
<1> QED BY <1>6, <1>7, SchedulerAway

\* Nobody but the process that has the CPU holds the lock.
LEMMA OnlyCurrentHolds ==
  ASSUME CallsInv, LockInv, NEW p \in Pid, LOCK \in holding[p]
  PROVE  HasCPU(p) /\ p = current /\ call[current].at \in {"put", "get", "close"}
BY DEF CallsInv, LockInv, HasCPU, Atomic

\* semWait on the lock never blocks.
LEMMA TakesLock ==
  ASSUME SafetyInv, SemTypes, CallsInv, LockInv, semWait(LOCK), call[current].at \notin Atomic
  PROVE  /\ isOpen[LOCK] /\ value[LOCK] = 1 /\ \A p \in Pid : LOCK \notin holding[p]
         /\ value' = [value EXCEPT ![LOCK] = 0]
         /\ holding' = [holding EXCEPT ![current] = @ \union {LOCK}]
         /\ UNCHANGED <<vars, isOpen, entering, waitingOn, faults>>
<1>1. \A p \in Pid : LOCK \notin holding[p]
  BY OnlyCurrentHolds DEF Atomic
<1>2. isOpen[LOCK]
  BY DEF semWait, SemCalling
<1>3. value[LOCK] = 1
  BY <1>1, <1>2 DEF LockInv
<1> QED BY <1>1, <1>2, <1>3 DEF semWait

\* semPost on the lock wakes nobody.
LEMMA GivesLock ==
  ASSUME SafetyInv, SemTypes, CallsInv, LockInv, semPost(LOCK)
  PROVE  /\ isOpen[LOCK] /\ value[LOCK] = 0
         /\ \A p \in Pid : LOCK \in holding[p] => p = current
         /\ value' = [value EXCEPT ![LOCK] = 1]
         /\ holding' = [holding EXCEPT ![current] = @ \ {LOCK}]
         /\ UNCHANGED <<vars, isOpen, entering, waitingOn, faults>>
<1>1. isOpen[LOCK] /\ LOCK \in holding[current] /\ current \in Pid
  BY TwoSems, CallerFacts DEF semPost, SemCalling
<1>2. value[LOCK] = 0 /\ entering[LOCK] = << >>
  BY <1>1 DEF LockInv
<1>3. (0 + 1) % SemMod = 1
  BY SmallMod, SemaphoresAssumption
<1> QED BY <1>1, <1>2, <1>3, OnlyCurrentHolds DEF semPost

\* The steps of a call that switch to nobody.
LEMMA CallsCalm ==
  ASSUME SafetyInv, SemTypes, PipeTypes, CallsInv, InUserCode,
         NEW c, call' = [call EXCEPT ![current] = c], UNCHANGED vars,
         \A p \in Pid : (waitingOn'[p] = NoSem <=> waitingOn[p] = NoSem)
                        /\ (waitingOn'[p] = LOCK => waitingOn[p] = LOCK)
  PROVE  CallsInv'
<1>1. current \in Pid /\ mode = "user" /\ waitingOn[current] = NoSem /\ state[current] = "READY"
  BY AtFacts
<1>2. UNCHANGED <<current, mode, state>>
  BY DEF vars, procVars, cpuVars
<1>3. call'[current] = c /\ \A p \in Pid \ {current} : call'[p] = call[p]
  BY <1>1 DEF PipeTypes
<1>4. NoSem # LOCK
  BY TwoSems
<1> QED BY <1>1, <1>2, <1>3, <1>4 DEF CallsInv, HasCPU

\* Goto changes the call of the current process only.
LEMMA GotoCall ==
  ASSUME SafetyInv, SemTypes, PipeTypes, InUserCode, NEW a, Goto(a)
  PROVE  /\ call' = [call EXCEPT ![current] = [call[current] EXCEPT !.at = a]]
         /\ call'[current].at = a /\ call'[current].pipe = call[current].pipe
         /\ \A p \in Pid \ {current} : call'[p] = call[p]
BY AtFacts DEF Goto, PipeTypes

LEMMA CallsNext ==
  SafetyInv /\ SemTypes /\ PipeTypes /\ CallsInv /\ LockInv /\ [PipesNext]_<<allVars, pipeVars>>
    => CallsInv'
<1> SUFFICES ASSUME SafetyInv, SemTypes, PipeTypes, CallsInv, LockInv,
                    [PipesNext]_<<allVars, pipeVars>>
             PROVE  CallsInv'
  OBVIOUS
<1>1. InUserCode => /\ current \in Pid /\ mode = "user" /\ waitingOn[current] = NoSem
                    /\ state[current] = "READY"
  BY AtFacts
<1>2. ASSUME NEW p \in Pid
      PROVE  waitingOn[p] # LOCK /\ waitingOn[p] \in {FULL, Freed, NoSem}
  BY TwoSems, PipesAssumption DEF CallsInv, SemTypes
<1>3. ASSUME InUserCode, NEW c, call' = [call EXCEPT ![current] = c], UNCHANGED <<vars, waitingOn>>
      PROVE  CallsInv'
  BY <1>3, CallsCalm
<1>4. ASSUME InUserCode, NEW s \in Sems, semClose(s), NEW c, call' = [call EXCEPT ![current] = c]
      PROVE  CallsInv'
  <2>1. /\ UNCHANGED vars
        /\ \A p \in Pid : waitingOn'[p] = IF waitingOn[p] = s THEN Freed ELSE waitingOn[p]
    BY <1>4 DEF semClose
  <2>2. s # NoSem /\ Freed # NoSem /\ Freed # LOCK
    BY TwoSems, SemaphoresAssumption
  <2>3. \A p \in Pid : (waitingOn'[p] = NoSem <=> waitingOn[p] = NoSem)
                       /\ (waitingOn'[p] = LOCK => waitingOn[p] = LOCK)
    BY <2>1, <2>2
  <2> QED BY <1>4, <2>1, <2>3, CallsCalm
<1>5. ASSUME InUserCode, NEW a, Goto(a)
      PROVE  call' = [call EXCEPT ![current] = [call[current] EXCEPT !.at = a]]
  BY <1>5, GotoCall
<1>6. CASE openPipe
  <2>1. InUserCode /\ Goto("openFull") /\ UNCHANGED <<vars, waitingOn>>
    BY <1>6 DEF openPipe, UserCall, Settled, semOpen, allVars, semVars
  <2> QED BY <1>3, <1>5, <2>1
<1>7. CASE openPipeFull
  BY <1>3, <1>7 DEF openPipeFull, At, Return, semOpen, allVars, semVars
<1>8. CASE closePipe
  <2>1. InUserCode /\ call[current].at = "user"
    BY <1>8 DEF closePipe, UserCall, Settled
  <2>2. semWait(LOCK) => UNCHANGED <<vars, waitingOn>>
    BY <2>1, TakesLock DEF Atomic
  <2> QED BY <1>3, <1>8, <2>1, <2>2 DEF closePipe, allVars, semVars
<1>9. CASE closePipeUnlink \/ closePipeFull
  BY <1>4, <1>5, <1>9, TwoSems DEF closePipeUnlink, closePipeFull, At, Return
<1>10. CASE write \/ read
  BY <1>3, <1>10 DEF write, read, UserCall, Settled, allVars, semVars
<1>11. CASE writePipe \/ readPipeLock
  <2>1. InUserCode /\ call[current].at \in {"writePipe", "readLock"} /\ semWait(LOCK)
    BY <1>11 DEF writePipe, readPipeLock, At
  <2>2. UNCHANGED <<vars, waitingOn>>
    BY <2>1, TakesLock DEF Atomic
  <2> QED BY <1>3, <1>5, <1>11, <2>1, <2>2 DEF writePipe, readPipeLock
<1>12. CASE writePipePut \/ readPipeGet
  <2>1. InUserCode /\ UNCHANGED <<vars, waitingOn>>
    BY <1>12, GivesLock DEF writePipePut, readPipeGet, At
  <2> QED BY <1>3, <1>5, <1>12, <2>1 DEF writePipePut, readPipeGet
<1>13. CASE readPipe
  <2>1. InUserCode /\ Goto("readLock") /\ semWait(FULL)
    BY <1>13 DEF readPipe, At
  <2>2. CASE value[FULL] > 0
    <3>1. UNCHANGED <<vars, waitingOn>>
      BY <2>1, <2>2 DEF semWait
    <3> QED BY <1>3, <1>5, <2>1, <3>1
  <2>3. CASE value[FULL] = 0
    <3>1. /\ state' = [state EXCEPT ![current] = "BLOCKED"]
          /\ waitingOn' = [waitingOn EXCEPT ![current] = FULL]
      BY <2>1, <2>3, WaitBlocks, TwoSems DEF semWait
    <3>2. call'[current].at = "readLock" /\ \A p \in Pid \ {current} : call'[p] = call[p]
      BY <2>1, GotoCall
    <3>3. /\ waitingOn'[current] = FULL /\ state'[current] = "BLOCKED"
          /\ \A p \in Pid \ {current} : waitingOn'[p] = waitingOn[p] /\ state'[p] = state[p]
      BY <1>1, <2>1, <3>1 DEF SemTypes, SafetyInv, TypeOK
    <3>4. \A p \in Pid \ {current} : ~HasCPU(p)
      BY DEF HasCPU
    <3> QED BY <3>2, <3>3, <3>4, TwoSems DEF CallsInv, Atomic
  <2> QED BY <2>1, <2>2, <2>3, TwoSems DEF semWait
<1>14. CASE writePipePost
  <2>1. InUserCode /\ semPost(FULL) /\ call' = [call EXCEPT ![current] = NextChar] /\ UNCHANGED waitingOn
    BY <1>14 DEF writePipePost, At, semPost
  <2>2. CASE UNCHANGED vars
    BY <1>3, <2>1, <2>2
  <2>3. CASE entering[FULL] # << >> /\ unblockFirst(Head(entering[FULL]))
    <3>1. PICK pid \in Pid : Alive(pid) /\ state' = [state EXCEPT ![pid] = "READY"]
      BY <2>3, HeadFacts, TwoSems DEF unblockFirst
    <3>2. \A p \in Pid : state[p] \notin {"NONE", "DEAD"} => state'[p] \notin {"NONE", "DEAD"}
      BY <3>1 DEF SafetyInv, TypeOK
    <3>3. call'[current] = NextChar /\ \A p \in Pid \ {current} : call'[p] = call[p]
      BY <1>1, <2>1 DEF PipeTypes
    <3>4. NextChar.at \in {"user", "writePipe"}
      BY DEF NextChar, NoCall
    <3>5. \A p \in Pid \ {current} : ~HasCPU(p)
      BY DEF HasCPU
    <3>6. waitingOn[current] = NoSem /\ state[current] = "READY"
      BY <1>1, <2>1
    <3> QED BY <2>1, <3>2, <3>3, <3>4, <3>5, <3>6 DEF CallsInv, Atomic
  <2> QED BY <2>1, <2>2, <2>3 DEF semPost
<1>15. CASE semWaitResume /\ UNCHANGED pipeVars
  <2>1. /\ UNCHANGED <<state, current, mode, call>> /\ mode = "user" /\ current \in Pid
        /\ waitingOn[current] # NoSem /\ waitingOn' = [waitingOn EXCEPT ![current] = NoSem]
    BY <1>15, UserFacts DEF semWaitResume, pipeVars, vars, procVars, cpuVars
  <2>2. waitingOn'[current] = NoSem /\ \A p \in Pid \ {current} : waitingOn'[p] = waitingOn[p]
    BY <2>1 DEF SemTypes
  <2> QED BY <2>1, <2>2 DEF CallsInv, HasCPU, Atomic
<1>16. CASE UseAfterClose
  <2>1. UNCHANGED <<state, current, waitingOn, call>> /\ mode' = "corrupt"
    BY <1>16 DEF UseAfterClose, procVars, cpuVars, semVars, pipeVars
  <2> QED BY <2>1 DEF CallsInv, HasCPU
<1>17. CASE PipesSchedulerStep
  BY <1>17, CallsScheduler
<1>18. CASE UNCHANGED <<allVars, pipeVars>>
  BY <1>18 DEF CallsInv, HasCPU, allVars, semVars, vars, procVars, cpuVars, pipeVars
<1> QED BY <1>6, <1>7, <1>8, <1>9, <1>10, <1>11, <1>12, <1>13, <1>14, <1>15, <1>16, <1>17, <1>18
        DEF PipesNext

\* Steps that do not touch the lock, in which who holds it stays where it is.
LEMMA LockSame ==
  ASSUME LockInv, entering'[LOCK] = entering[LOCK], isOpen'[LOCK] = isOpen[LOCK],
         value'[LOCK] = value[LOCK],
         \A p \in Pid : LOCK \in holding'[p] <=> LOCK \in holding[p],
         \A p \in Pid : LOCK \in holding[p] => call'[p].at \in {"put", "get", "close"}
  PROVE  LockInv'
BY DEF LockInv

LEMMA LockNext ==
  SafetyInv /\ SemTypes /\ PipeTypes /\ CallsInv /\ LockInv /\ [PipesNext]_<<allVars, pipeVars>>
    => LockInv'
<1> SUFFICES ASSUME SafetyInv, SemTypes, PipeTypes, CallsInv, LockInv,
                    [PipesNext]_<<allVars, pipeVars>>
             PROVE  LockInv'
  OBVIOUS
<1>1. InUserCode => /\ current \in Pid /\ mode = "user" /\ waitingOn[current] = NoSem
                    /\ state[current] = "READY"
  BY AtFacts
<1> DEFINE Nobody == \A p \in Pid : LOCK \notin holding[p]
<1>3. ASSUME Nobody, entering'[LOCK] = entering[LOCK], isOpen'[LOCK] = isOpen[LOCK],
             value'[LOCK] = value[LOCK],
             \A p \in Pid : LOCK \in holding'[p] => LOCK \in holding[p]
      PROVE  LockInv'
  BY <1>3, LockSame
<1>4. ASSUME call[current].at \in {"user", "openFull", "closeFull", "readPipe", "postFull"}
      PROVE  Nobody
  BY <1>4, OnlyCurrentHolds
<1> HIDE DEF Nobody
<1>5. CASE openPipe
  <2>1. InUserCode /\ call[current].at = "user"
    BY <1>5 DEF openPipe, UserCall, Settled
  <2>2. CASE UNCHANGED allVars
    BY <1>3, <1>4, <2>1, <2>2 DEF allVars, semVars
  <2>3. CASE semOpen(LOCK)
    <3>1. /\ value'[LOCK] = 1 /\ UNCHANGED <<entering, holding>>
      BY <2>3, TwoSems DEF semOpen, SemTypes
    <3>2. \A p \in Pid : LOCK \notin holding[p]
      BY <2>1, OnlyCurrentHolds
    <3> QED BY <3>1, <3>2 DEF LockInv
  <2> QED BY <1>5, <2>2, <2>3 DEF openPipe
<1>6. CASE openPipeFull
  <2>1. call[current].at = "openFull"
    BY <1>6 DEF openPipeFull, At
  <2>2. CASE UNCHANGED allVars
    BY <1>3, <1>4, <2>1, <2>2 DEF allVars, semVars
  <2>3. CASE semOpen(FULL)
    <3>1. /\ value'[LOCK] = value[LOCK] /\ isOpen'[LOCK] = isOpen[LOCK] /\ UNCHANGED <<entering, holding>>
      BY <2>3, TwoSems DEF semOpen, SemTypes
    <3> QED BY <1>3, <1>4, <2>1, <3>1
  <2> QED BY <1>6, <2>2, <2>3 DEF openPipeFull
<1>7. ASSUME InUserCode, semWait(LOCK), call[current].at \notin Atomic,
             call'[current].at \in {"put", "get", "close"}
      PROVE  LockInv'
  <2>1. /\ \A p \in Pid : LOCK \notin holding[p]
        /\ value' = [value EXCEPT ![LOCK] = 0]
        /\ holding' = [holding EXCEPT ![current] = @ \union {LOCK}]
        /\ UNCHANGED <<isOpen, entering>>
    BY <1>7, TakesLock
  <2>2. value'[LOCK] = 0 /\ \A p \in Pid : LOCK \in holding'[p] <=> p = current
    BY <1>1, <1>7, <2>1, TwoSems DEF SemTypes
  <2> QED BY <1>1, <1>7, <2>1, <2>2 DEF LockInv
<1>8. CASE closePipe
  <2>1. InUserCode /\ call[current].at = "user"
    BY <1>8 DEF closePipe, UserCall, Settled
  <2>2. call'[current].at = "close"
    BY <1>1, <1>8, <2>1 DEF closePipe, PipeTypes
  <2>3. CASE semWait(LOCK)
    BY <1>7, <2>1, <2>2, <2>3 DEF Atomic
  <2>4. CASE UNCHANGED allVars
    BY <1>3, <1>4, <2>1, <2>4 DEF allVars, semVars
  <2> QED BY <1>8, <2>3, <2>4 DEF closePipe
<1>9. CASE writePipe \/ readPipeLock
  <2>1. InUserCode /\ call[current].at \in {"writePipe", "readLock"} /\ semWait(LOCK)
    BY <1>9 DEF writePipe, readPipeLock, At
  <2>2. call'[current].at \in {"put", "get"}
    BY <1>9, <2>1, GotoCall DEF writePipe, readPipeLock
  <2> QED BY <1>7, <2>1, <2>2 DEF Atomic
<1>10. CASE closePipeUnlink
  <2>1. semClose(LOCK)
    BY <1>10 DEF closePipeUnlink
  <2>2. /\ entering'[LOCK] = << >> /\ ~isOpen'[LOCK] /\ \A p \in Pid : LOCK \notin holding'[p]
    BY <2>1, TwoSems DEF semClose, SemTypes
  <2> QED BY <2>2 DEF LockInv
<1>11. CASE closePipeFull
  <2>1. semClose(FULL) /\ call[current].at = "closeFull"
    BY <1>11 DEF closePipeFull, At
  <2>2. /\ entering'[LOCK] = entering[LOCK] /\ isOpen'[LOCK] = isOpen[LOCK]
        /\ value'[LOCK] = value[LOCK] /\ \A p \in Pid : LOCK \in holding'[p] => LOCK \in holding[p]
    BY <2>1, TwoSems DEF semClose, SemTypes
  <2> QED BY <1>3, <1>4, <2>1, <2>2
<1>12. CASE write \/ read
  BY <1>3, <1>4, <1>12 DEF write, read, UserCall, Settled, allVars, semVars
<1>13. CASE writePipePut \/ readPipeGet
  <2>1. semPost(LOCK) /\ InUserCode
    BY <1>13 DEF writePipePut, readPipeGet, At
  <2>2. /\ \A p \in Pid : LOCK \in holding[p] => p = current
        /\ value' = [value EXCEPT ![LOCK] = 1]
        /\ holding' = [holding EXCEPT ![current] = @ \ {LOCK}]
        /\ UNCHANGED <<isOpen, entering>>
    BY <2>1, GivesLock
  <2>3. value'[LOCK] = 1 /\ \A p \in Pid : LOCK \notin holding'[p]
    BY <1>1, <2>1, <2>2, TwoSems DEF SemTypes
  <2> QED BY <2>2, <2>3 DEF LockInv
<1>14. CASE readPipe
  <2>1. semWait(FULL) /\ call[current].at = "readPipe" /\ current \in Pid
    BY <1>1, <1>14 DEF readPipe, At
  <2>2. /\ entering'[LOCK] = entering[LOCK] /\ isOpen'[LOCK] = isOpen[LOCK]
        /\ value'[LOCK] = value[LOCK] /\ \A p \in Pid : LOCK \in holding'[p] => LOCK \in holding[p]
    <3>1. CASE value[FULL] > 0
      <4>1. /\ value' = [value EXCEPT ![FULL] = @ - 1]
            /\ holding' = [holding EXCEPT ![current] = @ \union {FULL}]
            /\ UNCHANGED <<isOpen, entering>>
        BY <2>1, <3>1 DEF semWait
      <4> QED BY <2>1, <4>1, TwoSems DEF SemTypes
    <3>2. CASE value[FULL] = 0
      BY <2>1, <3>2, TwoSems DEF semWait, SemTypes
    <3> QED BY <2>1, <3>1, <3>2 DEF semWait
  <2> QED BY <1>3, <1>4, <2>1, <2>2
<1>15. CASE writePipePost
  <2>1. semPost(FULL) /\ call[current].at = "postFull" /\ current \in Pid
    BY <1>1, <1>15 DEF writePipePost, At
  <2>2. /\ entering'[LOCK] = entering[LOCK] /\ isOpen'[LOCK] = isOpen[LOCK]
        /\ value'[LOCK] = value[LOCK] /\ \A p \in Pid : LOCK \in holding'[p] => LOCK \in holding[p]
    BY <2>1, TwoSems DEF semPost, SemTypes
  <2> QED BY <1>3, <1>4, <2>1, <2>2
<1>16. CASE semWaitResume /\ UNCHANGED pipeVars
  <2>1. mode = "user" /\ waitingOn[current] # NoSem /\ current \in Pid
    BY <1>16, UserFacts DEF semWaitResume
  <2>2. waitingOn[current] = FULL \/ waitingOn[current] = Freed
    BY <2>1, PipesAssumption DEF CallsInv, SemTypes
  <2>3. /\ entering'[LOCK] = entering[LOCK] /\ isOpen'[LOCK] = isOpen[LOCK]
        /\ value'[LOCK] = value[LOCK] /\ \A p \in Pid : LOCK \in holding'[p] => LOCK \in holding[p]
    <3>1. CASE waitingOn[current] = Freed
      BY <1>16, <3>1 DEF semWaitResume
    <3>2. CASE waitingOn[current] = FULL
      <4>1. /\ value' = [value EXCEPT ![FULL] = (@ - 1) % SemMod]
            /\ holding' = [holding EXCEPT ![current] = @ \union {FULL}]
            /\ UNCHANGED <<isOpen, entering>>
        BY <1>16, <3>2, TwoSems DEF semWaitResume
      <4> QED BY <2>1, <4>1, TwoSems DEF SemTypes
    <3> QED BY <2>2, <3>1, <3>2
  <2>4. Nobody
    BY <2>1, OnlyCurrentHolds DEF HasCPU, Nobody
  <2> QED BY <1>3, <2>3, <2>4
<1>17. CASE UseAfterClose \/ UNCHANGED <<allVars, pipeVars>>
  <2>1. UNCHANGED <<semVars, call>>
    BY <1>17 DEF UseAfterClose, allVars, pipeVars
  <2> QED BY <2>1 DEF semVars, LockInv
<1>18. CASE PipesSchedulerStep
  <2>1. /\ \A p \in Pid : /\ call'[p] = (IF state'[p] = "DEAD" THEN NoCall ELSE call[p])
                          /\ holding'[p] = (IF state'[p] = "DEAD" THEN {} ELSE holding[p])
        /\ UNCHANGED <<isOpen, value, entering>>
    BY <1>18 DEF PipesSchedulerStep, SchedulerStep
  <2>2. CASE UNCHANGED <<state, current, mode, pids>>
    <3>1. \A p \in Pid : LOCK \in holding[p] => state[p] # "DEAD" /\ call[p].at \in {"put", "get", "close"}
      BY DEF LockInv, CallsInv
    <3> QED BY <2>1, <2>2, <3>1, LockSame
  <2>3. CASE \A p \in Pid : call[p].at \notin Atomic
    <3>1. \A p \in Pid : LOCK \notin holding[p]
      BY <2>3 DEF LockInv, Atomic
    <3> QED BY <2>1, <3>1, LockSame
  <2> QED BY <1>18, <2>2, <2>3, SchedulerAway
<1> QED BY <1>5, <1>6, <1>8, <1>9, <1>10, <1>11, <1>12, <1>13, <1>14, <1>15, <1>16, <1>17, <1>18
        DEF PipesNext

-----------------------------------------------------------------------------
(* The invariants of the semaphores.                                       *)

\* Whatever a step does to the pipes, it is a step of the semaphores, or the use
\* of freed memory.
LEMMA SemStep == [PipesNext]_<<allVars, pipeVars>> => [SemNext]_allVars \/ UseAfterClose
<1>1. LOCK \in Sems /\ FULL \in Sems
  BY TwoSems
<1>2. CASE openPipe \/ openPipeFull \/ closePipe \/ write \/ read
  BY <1>1, <1>2 DEF openPipe, openPipeFull, closePipe, write, read, SemNext
<1>3. CASE closePipeUnlink \/ closePipeFull
  BY <1>1, <1>3 DEF closePipeUnlink, closePipeFull, SemNext
<1>4. CASE writePipe \/ writePipePut \/ writePipePost \/ readPipe \/ readPipeLock \/ readPipeGet
  BY <1>1, <1>4 DEF writePipe, writePipePut, writePipePost, readPipe, readPipeLock, readPipeGet, SemNext
<1>5. CASE semWaitResume \/ PipesSchedulerStep
  BY <1>5 DEF PipesSchedulerStep, SemNext
<1> QED BY <1>2, <1>3, <1>4, <1>5 DEF PipesNext

\* Corruption is final.
LEMMA CorruptStays ==
  ASSUME SafetyInv, SemTypes, CallsInv, mode = "corrupt", [PipesNext]_<<allVars, pipeVars>>
  PROVE  mode' = "corrupt" /\ UNCHANGED slips
<1>1. CASE PipesSchedulerStep
  BY <1>1, SchedulerAway DEF PipesSchedulerStep
<1>2. CASE UNCHANGED <<allVars, pipeVars>>
  BY <1>2 DEF allVars, vars, pipeVars
<1>3. ~(openPipe \/ openPipeFull \/ closePipe \/ closePipeUnlink \/ closePipeFull \/ write \/ writePipe
        \/ writePipePut \/ writePipePost \/ read \/ readPipe \/ readPipeLock \/ readPipeGet
        \/ semWaitResume \/ UseAfterClose)
  BY DEF openPipe, openPipeFull, closePipe, closePipeUnlink, closePipeFull, write, writePipe,
         writePipePut, writePipePost, read, readPipe, readPipeLock, readPipeGet, semWaitResume,
         UseAfterClose, UserCall, Settled, At, InUserCode
<1> QED BY <1>1, <1>2, <1>3 DEF PipesNext

\* The step into undefined behaviour changes nothing else.
LEMMA CorruptSafe == SafetyInv /\ SemTypes /\ UseAfterClose => SafetyInv' /\ SemTypes'
<1> SUFFICES ASSUME SafetyInv, SemTypes, UseAfterClose
             PROVE  SafetyInv' /\ SemTypes'
  OBVIOUS
<1>1. /\ UNCHANGED <<procs, procVars, cpuVars, pids, sleeping, scan, lapses, semVars>>
      /\ mode = "user" /\ mode' = "corrupt" /\ firstBlockedIteration = NULL
  BY UserFacts DEF UseAfterClose, InUserCode
<1>2. SemTypes'
  BY <1>1 DEF SemTypes, semVars
<1>3. TypeOK' /\ MarkInLoop' /\ ScanInList'
  BY <1>1 DEF SafetyInv, TypeOK, MarkInLoop, ScanInList, procVars, cpuVars, Modes
<1>4. ListWellFormed' /\ NoDanglingProcess' /\ RunningIsReady'
  <2>1. UNCHANGED <<procs, pids, state, current, firstBlockedIteration>>
    BY <1>1 DEF procVars, cpuVars
  <2> QED BY <1>1, <2>1, SameProcesses DEF SafetyInv, NoDanglingProcess, RunningIsReady, Live
<1> QED BY <1>2, <1>3, <1>4 DEF SafetyInv

LEMMA SemInvNext ==
  SemInv /\ CallsInv /\ [PipesNext]_<<allVars, pipeVars>> => SemInv'
<1> SUFFICES ASSUME SemInv, CallsInv, [PipesNext]_<<allVars, pipeVars>>
             PROVE  SemInv'
  OBVIOUS
<1>1. SafetyInv /\ SemTypes
  BY DEF SemInv
<1>2. CASE UseAfterClose
  BY <1>1, <1>2, CorruptSafe DEF SemInv, UseAfterClose
<1>3. CASE [SemNext]_allVars
  <2>1. SafetyInv' /\ SemTypes'
    BY <1>1, <1>3, SemSafetyNext, SemTypesNext
  <2>2. CASE mode = "corrupt"
    BY <1>1, <2>1, <2>2, CorruptStays DEF SemInv
  <2>3. CASE mode # "corrupt"
    BY <1>1, <1>3, <2>1, <2>3, QueueNext, ValueNext DEF SemInv
  <2> QED BY <2>2, <2>3
<1> QED BY <1>2, <1>3, SemStep

\* What is recorded of the waiters and of the pipes is never forgotten.
LEMMA FaultsGrow == [PipesNext]_<<allVars, pipeVars>> => faults \subseteq faults' /\ slips \subseteq slips'
<1>1. [SemNext]_allVars => faults \subseteq faults'
  BY DEF SemNext, semOpen, semClose, semWait, semPost, semWaitResume, SchedulerStep, allVars, semVars
<1>2. UseAfterClose => faults \subseteq faults' /\ UNCHANGED slips
  BY DEF UseAfterClose, semVars, pipeVars
<1>3. [PipesNext]_<<allVars, pipeVars>> => slips \subseteq slips'
  BY <1>2 DEF PipesNext, openPipe, openPipeFull, closePipe, closePipeUnlink, closePipeFull, write,
         writePipe, writePipePut, writePipePost, read, readPipe, readPipeLock, readPipeGet,
         PipesSchedulerStep, pipeVars
<1> QED BY <1>1, <1>2, <1>3, SemStep

-----------------------------------------------------------------------------
(* What the steps of the calls do.                                         *)

\* A call goes from one place to the next.
Moves(from, to) ==
  \/ from.at = "user" /\ to.at = "openFull"
  \/ from.at = "user" /\ to.at = "close" /\ to.pipe \in firstPipe
  \/ from.at = "user" /\ to.at = "writePipe" /\ to.pipe = fd[current].out /\ to.pipe # TERMINAL
  \/ from.at = "user" /\ to.at = "readPipe" /\ to.pipe = fd[current].in /\ to.pipe # TERMINAL
  \/ from.at = "writePipe" /\ to.at = "put" /\ to.pipe = from.pipe
  \/ from.at = "readLock" /\ to.at = "get" /\ to.pipe = from.pipe

\* The steps that enter a call or take the lock leave pipes and count alone.
LEMMA EnterFacts ==
  ASSUME SafetyInv, SemTypes, PipeTypes, CallsInv, LockInv,
         openPipe \/ closePipe \/ write \/ read \/ writePipe \/ readPipeLock
  PROVE  /\ InUserCode /\ current \in Pid
         /\ UNCHANGED <<fd, listVars, dataVars, slips, vars, entering, waitingOn, faults>>
         /\ isOpen'[FULL] = isOpen[FULL] /\ value'[FULL] = value[FULL]
         /\ \A p \in Pid \ {current} : call'[p] = call[p]
         /\ Moves(call[current], call'[current])
<1>1. InUserCode /\ current \in Pid
  BY AtFacts DEF openPipe, closePipe, write, read, writePipe, readPipeLock, UserCall, Settled, At
<1>2. UNCHANGED <<fd, listVars, dataVars, slips>>
  BY DEF openPipe, closePipe, write, read, writePipe, readPipeLock
<1>3. UNCHANGED allVars => /\ UNCHANGED <<vars, entering, waitingOn, faults>>
                           /\ isOpen'[FULL] = isOpen[FULL] /\ value'[FULL] = value[FULL]
  BY DEF allVars, semVars
<1>4. semOpen(LOCK) => /\ UNCHANGED <<vars, entering, waitingOn, faults>>
                       /\ isOpen'[FULL] = isOpen[FULL] /\ value'[FULL] = value[FULL]
  BY TwoSems DEF semOpen, SemTypes
<1>5. semWait(LOCK) /\ call[current].at \notin Atomic =>
                       /\ UNCHANGED <<vars, entering, waitingOn, faults>>
                       /\ isOpen'[FULL] = isOpen[FULL] /\ value'[FULL] = value[FULL]
  BY TakesLock, TwoSems DEF SemTypes
<1>6. CASE openPipe
  BY <1>1, <1>2, <1>3, <1>4, <1>6, GotoCall DEF openPipe, UserCall, Settled, Moves
<1>7. CASE closePipe
  <2>1. PICK n \in firstPipe :
          call' = [call EXCEPT ![current] = [at |-> "close", pipe |-> n, todo |-> 0]]
    BY <1>7 DEF closePipe
  <2>2. call'[current] = [at |-> "close", pipe |-> n, todo |-> 0]
        /\ \A p \in Pid \ {current} : call'[p] = call[p]
    BY <1>1, <2>1 DEF PipeTypes
  <2>3. call[current].at = "user" /\ (semWait(LOCK) \/ UNCHANGED allVars)
    BY <1>7 DEF closePipe, UserCall, Settled
  <2>4. Moves(call[current], call'[current])
    BY <2>2, <2>3 DEF Moves
  <2> QED BY <1>1, <1>2, <1>3, <1>5, <2>2, <2>3, <2>4 DEF Atomic
<1>8. CASE write
  <2>1. PICK todo : call' = [call EXCEPT ![current] =
                               [at |-> "writePipe", pipe |-> fd[current].out, todo |-> todo]]
    BY <1>8 DEF write
  <2>2. call'[current] = [at |-> "writePipe", pipe |-> fd[current].out, todo |-> todo]
        /\ \A p \in Pid \ {current} : call'[p] = call[p]
    BY <1>1, <2>1 DEF PipeTypes
  <2>3. Moves(call[current], call'[current])
    BY <1>8, <2>2 DEF write, UserCall, Settled, Moves
  <2> QED BY <1>1, <1>2, <1>3, <1>8, <2>2, <2>3 DEF write
<1>9. CASE read
  <2>1. PICK todo : call' = [call EXCEPT ![current] =
                               [at |-> "readPipe", pipe |-> fd[current].in, todo |-> todo]]
    BY <1>9 DEF read
  <2>2. call'[current] = [at |-> "readPipe", pipe |-> fd[current].in, todo |-> todo]
        /\ \A p \in Pid \ {current} : call'[p] = call[p]
    BY <1>1, <2>1 DEF PipeTypes
  <2>3. Moves(call[current], call'[current])
    BY <1>9, <2>2 DEF read, UserCall, Settled, Moves
  <2> QED BY <1>1, <1>2, <1>3, <1>9, <2>2, <2>3 DEF read
<1>10. CASE writePipe \/ readPipeLock
  <2>1. /\ semWait(LOCK)
        /\ \/ call[current].at = "writePipe" /\ Goto("put")
           \/ call[current].at = "readLock" /\ Goto("get")
    BY <1>10 DEF writePipe, readPipeLock, At
  <2>2. call[current].at \notin Atomic
    BY <2>1 DEF Atomic
  <2>3. Moves(call[current], call'[current]) /\ \A p \in Pid \ {current} : call'[p] = call[p]
    BY <1>1, <2>1, GotoCall DEF Moves
  <2> QED BY <1>1, <1>2, <1>5, <2>1, <2>2, <2>3
<1> QED BY <1>6, <1>7, <1>8, <1>9, <1>10

\* A character goes into the buffer or comes out of it, and the lock is released.
LEMMA TransferFacts ==
  ASSUME SafetyInv, SemTypes, PipeTypes, CallsInv, LockInv, writePipePut \/ readPipeGet
  PROVE  /\ InUserCode /\ current \in Pid
         /\ UNCHANGED <<fd, listVars, vars, entering, waitingOn, faults>>
         /\ isOpen'[FULL] = isOpen[FULL] /\ value'[FULL] = value[FULL]
         /\ \A p \in Pid \ {current} : call'[p] = call[p]
         /\ call[current].pipe = here /\ here \in firstPipe /\ here \in PipeId
         /\ writePipePut => /\ call[current].at = "put" /\ call'[current].at = "postFull"
                            /\ call'[current].pipe = here
         /\ readPipeGet => /\ call[current].at = "get"
                           /\ \/ call'[current].at = "user"
                              \/ call'[current].at = "readPipe" /\ call'[current].pipe = here
<1>1. InUserCode /\ Valid(here) /\ semPost(LOCK) /\ UNCHANGED <<fd, listVars>>
  BY DEF writePipePut, readPipeGet, At
<1>2. current \in Pid /\ call[current].pipe = here /\ here \in firstPipe /\ here \in PipeId
  BY <1>1, AtFacts
<1>3. /\ UNCHANGED <<vars, entering, waitingOn, faults>>
      /\ isOpen'[FULL] = isOpen[FULL] /\ value'[FULL] = value[FULL]
  BY <1>1, GivesLock, TwoSems DEF SemTypes
<1>4. CASE writePipePut
  <2>1. Goto("postFull") /\ call[current].at = "put" /\ UNCHANGED currentR
    BY <1>4 DEF writePipePut, At
  <2>2. ~readPipeGet
    BY <2>1 DEF readPipeGet, At
  <2> QED BY <1>1, <1>2, <1>3, <2>1, <2>2, GotoCall
<1>5. CASE readPipeGet
  <2>1. call[current].at = "get"
    BY <1>5 DEF readPipeGet, At
  <2>2. ~writePipePut
    BY <2>1 DEF writePipePut, At
  <2>3. PICK next \in {NoCall, [at |-> "readPipe", pipe |-> here, todo |-> call[current].todo - 1]} :
          call' = [call EXCEPT ![current] = next]
    BY <1>5 DEF readPipeGet, NextRead
  <2>4. call'[current] = next /\ \A p \in Pid \ {current} : call'[p] = call[p]
    BY <1>2, <2>3 DEF PipeTypes
  <2>5. next.at = "user" \/ (next.at = "readPipe" /\ next.pipe = here)
    BY <2>3 DEF NoCall
  <2> QED BY <1>1, <1>2, <1>3, <2>1, <2>2, <2>4, <2>5
<1> QED BY <1>4, <1>5

\* Waiting for a character and announcing one.
LEMMA CountFacts ==
  ASSUME SafetyInv, SemTypes, PipeTypes, readPipe \/ writePipePost
  PROVE  /\ InUserCode /\ current \in Pid
         /\ UNCHANGED <<fd, listVars, dataVars, slips, isOpen, faults>>
         /\ \A p \in Pid \ {current} : call'[p] = call[p]
         /\ call[current].pipe = here /\ here \in firstPipe /\ here \in PipeId
         /\ readPipe => /\ call[current].at = "readPipe" /\ call'[current].at = "readLock"
                        /\ call'[current].pipe = here /\ semWait(FULL)
         /\ writePipePost => /\ call[current].at = "postFull" /\ semPost(FULL)
                             /\ \/ call'[current].at = "user"
                                \/ call'[current].at = "writePipe" /\ call'[current].pipe = here
<1>1. InUserCode /\ Valid(here) /\ UNCHANGED <<fd, listVars, dataVars, slips, isOpen, faults>>
  BY DEF readPipe, writePipePost, At, semWait, semPost
<1>2. current \in Pid /\ call[current].pipe = here /\ here \in firstPipe /\ here \in PipeId
  BY <1>1, AtFacts
<1>3. CASE readPipe
  <2>1. Goto("readLock") /\ call[current].at = "readPipe" /\ semWait(FULL)
    BY <1>3 DEF readPipe, At
  <2>2. ~writePipePost
    BY <2>1 DEF writePipePost, At
  <2> QED BY <1>1, <1>2, <2>1, <2>2, GotoCall
<1>4. CASE writePipePost
  <2>1. call[current].at = "postFull" /\ semPost(FULL) /\ call' = [call EXCEPT ![current] = NextChar]
    BY <1>4 DEF writePipePost, At
  <2>2. ~readPipe
    BY <2>1 DEF readPipe, At
  <2>3. call'[current] = NextChar /\ \A p \in Pid \ {current} : call'[p] = call[p]
    BY <1>2, <2>1 DEF PipeTypes
  <2>4. NextChar.at = "user" \/ (NextChar.at = "writePipe" /\ NextChar.pipe = here)
    BY DEF NextChar, NoCall
  <2> QED BY <1>1, <1>2, <2>1, <2>2, <2>3, <2>4
<1> QED BY <1>3, <1>4

\* A step of the scheduler leaves the pipes and the semaphores alone; a process
\* that it kills leaves its call, and was not in one that others depend on.
LEMMA AwayFacts ==
  ASSUME SafetyInv, SemTypes, PipeTypes, CallsInv, PipesSchedulerStep
  PROVE  /\ UNCHANGED <<listVars, dataVars, slips, isOpen, value, entering>>
         /\ \A p \in Pid : \/ call'[p] = call[p] /\ waitingOn'[p] = waitingOn[p]
                           \/ call'[p].at = "user" /\ waitingOn'[p] = NoSem
         /\ Closing' <=> Closing
         /\ \A p \in Pid : Owes(p)' <=> Owes(p)
<1>1. UNCHANGED <<listVars, dataVars, slips, isOpen, value, entering>>
  BY DEF PipesSchedulerStep, SchedulerStep
<1>2. \A p \in Pid : /\ call'[p] = IF state'[p] = "DEAD" THEN NoCall ELSE call[p]
                     /\ waitingOn'[p] = IF state'[p] = "DEAD" THEN NoSem ELSE waitingOn[p]
  BY DEF PipesSchedulerStep, SchedulerStep
<1>3. NoCall.at = "user"
  BY DEF NoCall
<1>4. \A p \in Pid : \/ call'[p] = call[p] /\ waitingOn'[p] = waitingOn[p]
                     \/ call'[p].at = "user" /\ waitingOn'[p] = NoSem
  BY <1>2, <1>3
<1>5. UNCHANGED firstPipe
  BY <1>1 DEF listVars
<1>6. (Closing' => Closing) /\ \A p \in Pid : Owes(p)' => Owes(p)
  BY <1>4, <1>5 DEF Closing, Owes
<1>7. CASE UNCHANGED <<state, current, mode, pids>>
  <2>1. \A p \in Pid : call[p].at # "user" => call'[p] = call[p] /\ waitingOn'[p] = waitingOn[p]
    BY <1>2, <1>7 DEF CallsInv
  <2> QED BY <1>1, <1>4, <1>5, <1>6, <2>1 DEF Closing, Owes
<1>8. CASE \A p \in Pid : /\ call[p].at \notin Atomic
                          /\ call[p].at = "readLock" => waitingOn[p] # NoSem
  BY <1>1, <1>4, <1>6, <1>8 DEF Closing, Owes, Atomic
<1> QED BY <1>7, <1>8, SchedulerAway

\* Who has changed something that others have to see is the current process.
LEMMA OnlyCurrentActs ==
  ASSUME CallsInv, NEW p \in Pid, call[p].at = "closeFull" \/ Owes(p)
  PROVE  p = current /\ HasCPU(p)
BY DEF CallsInv, HasCPU, Owes, Atomic

-----------------------------------------------------------------------------
(* Freed memory.                                                           *)

\* Steps that leave the list of pipes and the count's existence alone.
LEMMA ListSame ==
  ASSUME ListInv, slips \subseteq slips', UNCHANGED <<firstPipe, semsOf, opening>>,
         isOpen'[FULL] = isOpen[FULL], Closing' <=> Closing
  PROVE  ListInv'
BY DEF ListInv

LEMMA ListNext ==
  SafetyInv /\ SemTypes /\ PipeTypes /\ CallsInv /\ LockInv /\ ListInv
    /\ [PipesNext]_<<allVars, pipeVars>> => ListInv'
<1> SUFFICES ASSUME SafetyInv, SemTypes, PipeTypes, CallsInv, LockInv, ListInv,
                    [PipesNext]_<<allVars, pipeVars>>
             PROVE  ListInv'
  OBVIOUS
<1>1. slips \subseteq slips'
  BY FaultsGrow
<1>2. ASSUME current \in Pid, \A p \in Pid \ {current} : call'[p] = call[p],
             call[current].at # "closeFull", call'[current].at # "closeFull",
             UNCHANGED listVars, isOpen'[FULL] = isOpen[FULL]
      PROVE  ListInv'
  <2>1. ~Closing /\ ~Closing'
    BY <1>2, OnlyCurrentActs DEF Closing
  <2> QED BY <1>1, <1>2, <2>1, ListSame DEF listVars
<1>3. CASE openPipe \/ closePipe \/ write \/ read \/ writePipe \/ readPipeLock
  <2>1. /\ current \in Pid /\ \A p \in Pid \ {current} : call'[p] = call[p]
        /\ Moves(call[current], call'[current]) /\ UNCHANGED listVars /\ isOpen'[FULL] = isOpen[FULL]
    BY <1>3, EnterFacts
  <2> QED BY <1>2, <2>1 DEF Moves
<1>4. CASE writePipePut \/ readPipeGet
  BY <1>2, <1>4, TransferFacts
<1>5. CASE readPipe \/ writePipePost
  BY <1>2, <1>5, CountFacts
<1>6. CASE openPipeFull
  <2>1. /\ InUserCode /\ current \in Pid /\ call[current].at = "openFull"
        /\ opening' = (IF isOpen[FULL] THEN opening ELSE opening + 1)
        /\ fdIndex' = fdIndex + 1 /\ firstPipe' = firstPipe \union {fdIndex'}
        /\ semsOf' = [semsOf EXCEPT ![fdIndex'] = opening']
        /\ call' = [call EXCEPT ![current] = NoCall]
        /\ "shared" \notin slips' => firstPipe = {}
    BY <1>6, AtFacts DEF openPipeFull, At, Return
  <2>2. fdIndex' \in PipeId
    BY <2>1, PipesAssumption DEF PipeTypes, PipeId
  <2>3. semsOf'[fdIndex'] = opening'
    BY <2>1, <2>2 DEF PipeTypes
  <2>4. ~Closing'
    BY <2>1, OnlyCurrentActs DEF Closing, PipeTypes, NoCall
  <2> QED BY <2>1, <2>3, <2>4 DEF ListInv
<1>7. CASE closePipeUnlink
  <2>1. /\ InUserCode /\ current \in Pid /\ here \in firstPipe
        /\ firstPipe' = firstPipe \ {here} /\ Goto("closeFull")
    BY <1>7, AtFacts DEF closePipeUnlink, At
  <2>2. Closing'
    BY <2>1, GotoCall DEF Closing
  <2>3. "shared" \notin slips' => firstPipe' = {}
    BY <1>1, <2>1 DEF ListInv
  <2> QED BY <2>2, <2>3 DEF ListInv
<1>8. CASE closePipeFull
  <2>1. /\ InUserCode /\ current \in Pid /\ call[current].at = "closeFull" /\ UNCHANGED firstPipe
        /\ semClose(FULL) /\ call' = [call EXCEPT ![current] = NoCall]
    BY <1>8, AtFacts DEF closePipeFull, At, Return
  <2>2. "shared" \notin slips' => firstPipe' = {}
    BY <1>1, <2>1 DEF ListInv, Closing
  <2>3. ~isOpen'[FULL]
    BY <2>1, TwoSems DEF semClose, SemTypes
  <2> QED BY <2>2, <2>3 DEF ListInv
<1>9. CASE PipesSchedulerStep
  BY <1>1, <1>9, AwayFacts, ListSame DEF listVars
<1>10. CASE (semWaitResume /\ UNCHANGED pipeVars) \/ UseAfterClose \/ UNCHANGED <<allVars, pipeVars>>
  <2>1. UNCHANGED <<pipeVars, isOpen>>
    BY <1>10 DEF semWaitResume, UseAfterClose, allVars, semVars
  <2> QED BY <2>1 DEF ListInv, Closing, pipeVars, listVars
<1> QED BY <1>3, <1>4, <1>5, <1>6, <1>7, <1>8, <1>9, <1>10 DEF PipesNext

\* The pipe that a call c of process p is on, given the descriptors of p.
OnOwnPipe(c, p) ==
  /\ c.at \in {"writePipe", "put", "postFull"} => c.pipe = fd[p].out /\ fd[p].out # TERMINAL
  /\ c.at \in {"readPipe", "readLock", "get"} => c.pipe = fd[p].in /\ fd[p].in # TERMINAL
  /\ c.at = "close" => c.pipe \in firstPipe

\* Steps of a call that close no pipe.
LEMMA UseSame ==
  ASSUME UseInv, slips \subseteq slips', firstPipe \subseteq firstPipe', UNCHANGED fd,
         \A p \in Pid \ {current} : call'[p] = call[p],
         current \in Pid,
         OnOwnPipe(call[current], current) => OnOwnPipe(call'[current], current)
  PROVE  UseInv'
<1> SUFFICES ASSUME slips' \intersect {"closedInUse", "shared"} = {}, NEW p \in Pid
             PROVE  /\ fd'[p].in \in firstPipe' \union {TERMINAL} /\ fd'[p].out \in firstPipe' \union {TERMINAL}
                    /\ call'[p].at \in {"writePipe", "put", "postFull"} =>
                         call'[p].pipe = fd'[p].out /\ fd'[p].out # TERMINAL
                    /\ call'[p].at \in {"readPipe", "readLock", "get"} =>
                         call'[p].pipe = fd'[p].in /\ fd'[p].in # TERMINAL
                    /\ call'[p].at = "close" => call'[p].pipe \in firstPipe'
  BY DEF UseInv
<1>1. slips \intersect {"closedInUse", "shared"} = {}
  OBVIOUS
<1>2. fd[p].in \in firstPipe \union {TERMINAL} /\ fd[p].out \in firstPipe \union {TERMINAL}
  BY <1>1 DEF UseInv
<1>3. OnOwnPipe(call[p], p)
  BY <1>1 DEF UseInv, OnOwnPipe
<1>4. OnOwnPipe(call'[p], p)
  BY <1>3
<1> QED BY <1>2, <1>4 DEF OnOwnPipe

LEMMA UseNext ==
  SafetyInv /\ SemTypes /\ PipeTypes /\ CallsInv /\ LockInv /\ UseInv
    /\ [PipesNext]_<<allVars, pipeVars>> => UseInv'
<1> SUFFICES ASSUME SafetyInv, SemTypes, PipeTypes, CallsInv, LockInv, UseInv,
                    [PipesNext]_<<allVars, pipeVars>>
             PROVE  UseInv'
  OBVIOUS
<1>1. slips \subseteq slips'
  BY FaultsGrow
<1>2. CASE openPipe \/ closePipe \/ write \/ read \/ writePipe \/ readPipeLock
  <2>1. /\ current \in Pid /\ \A p \in Pid \ {current} : call'[p] = call[p]
        /\ Moves(call[current], call'[current]) /\ UNCHANGED <<fd, firstPipe>>
    BY <1>2, EnterFacts DEF listVars
  <2>2. OnOwnPipe(call[current], current) => OnOwnPipe(call'[current], current)
    BY <2>1 DEF OnOwnPipe, Moves
  <2> QED BY <1>1, <2>1, <2>2, UseSame
<1>3. CASE writePipePut \/ readPipeGet
  <2>1. OnOwnPipe(call[current], current) => OnOwnPipe(call'[current], current)
    BY <1>3, TransferFacts DEF OnOwnPipe
  <2> QED BY <1>1, <1>3, <2>1, TransferFacts, UseSame DEF listVars
<1>4. CASE readPipe \/ writePipePost
  <2>1. OnOwnPipe(call[current], current) => OnOwnPipe(call'[current], current)
    BY <1>4, CountFacts DEF OnOwnPipe
  <2> QED BY <1>1, <1>4, <2>1, CountFacts, UseSame DEF listVars
<1>5. CASE openPipeFull \/ closePipeFull
  <2>1. /\ current \in Pid /\ UNCHANGED fd /\ firstPipe \subseteq firstPipe'
        /\ call' = [call EXCEPT ![current] = NoCall]
    BY <1>5, AtFacts DEF openPipeFull, closePipeFull, At, Return
  <2>2. call'[current].at = "user" /\ \A p \in Pid \ {current} : call'[p] = call[p]
    BY <2>1 DEF PipeTypes, NoCall
  <2>3. OnOwnPipe(call'[current], current)
    BY <2>2 DEF OnOwnPipe
  <2> QED BY <1>1, <2>1, <2>2, <2>3, UseSame
<1>6. CASE closePipeUnlink
  <2>1. /\ InUserCode /\ current \in Pid /\ Goto("closeFull") /\ UNCHANGED fd
        /\ firstPipe' = firstPipe \ {here}
        /\ "closedInUse" \notin slips' => \A p \in Pid : here \notin {fd[p].in, fd[p].out}
    BY <1>6, AtFacts DEF closePipeUnlink, At
  <2>2. call'[current].at = "closeFull" /\ \A p \in Pid \ {current} : call'[p] = call[p]
    BY <2>1, GotoCall
  <2>3. \A p \in Pid \ {current} : call[p].at # "close"
    BY DEF CallsInv, HasCPU, Atomic
  <2> QED BY <1>1, <2>1, <2>2, <2>3 DEF UseInv
<1>7. CASE PipesSchedulerStep
  <2>1. firstPipe' = firstPipe /\ Next
    BY <1>7 DEF PipesSchedulerStep, SchedulerStep, listVars
  <2>2. SUFFICES ASSUME slips \intersect {"closedInUse", "shared"} = {}, NEW p \in Pid
                 PROVE  /\ fd'[p].in \in firstPipe \union {TERMINAL} /\ fd'[p].out \in firstPipe \union {TERMINAL}
                        /\ call'[p].at \in {"writePipe", "put", "postFull"} =>
                             call'[p].pipe = fd'[p].out /\ fd'[p].out # TERMINAL
                        /\ call'[p].at \in {"readPipe", "readLock", "get"} =>
                             call'[p].pipe = fd'[p].in /\ fd'[p].in # TERMINAL
                        /\ call'[p].at = "close" => call'[p].pipe \in firstPipe
    BY <1>1, <2>1 DEF UseInv
  <2>3. PICK ends \in [in : firstPipe \union {TERMINAL}, out : firstPipe \union {TERMINAL}] :
          fd'[p] = IF state'[p] = "DEAD" THEN fd[IDLE_PID]
                   ELSE IF p = pids /\ pids' # pids THEN ends ELSE fd[p]
    BY <1>7 DEF PipesSchedulerStep
  <2>4. \A q \in {p, IDLE_PID} : /\ fd[q].in \in firstPipe \union {TERMINAL}
                                 /\ fd[q].out \in firstPipe \union {TERMINAL}
    BY <2>2, IdlePid DEF UseInv
  <2>5. CASE state'[p] = "DEAD"
    <3>1. call'[p].at = "user"
      BY <1>7, <2>5, SchedulerCalls DEF NoCall
    <3> QED BY <2>3, <2>4, <2>5, <3>1
  <2>6. CASE state'[p] # "DEAD" /\ p = pids /\ pids' # pids
    <3>1. state[p] = "NONE"
      BY <2>6 DEF SafetyInv, ListWellFormed, Pid
    <3>2. call'[p] = call[p] /\ call[p].at = "user"
      BY <1>7, <2>6, <3>1, SchedulerCalls DEF CallsInv
    <3> QED BY <2>3, <2>6, <3>2
  <2>7. CASE state'[p] # "DEAD" /\ ~(p = pids /\ pids' # pids)
    <3>1. call'[p] = call[p] /\ fd'[p] = fd[p]
      BY <1>7, <2>3, <2>7, SchedulerCalls
    <3> QED BY <2>2, <3>1 DEF UseInv
  <2> QED BY <2>5, <2>6, <2>7
<1>8. CASE (semWaitResume /\ UNCHANGED pipeVars) \/ UseAfterClose \/ UNCHANGED <<allVars, pipeVars>>
  <2>1. UNCHANGED pipeVars
    BY <1>8 DEF UseAfterClose
  <2> QED BY <2>1 DEF UseInv, pipeVars, listVars
<1> QED BY <1>2, <1>3, <1>4, <1>5, <1>6, <1>7, <1>8 DEF PipesNext

\* A call works on a pipe that is gone only after a pipe in use was closed.
LEMMA CorruptNext ==
  SemInv /\ CallsInv /\ ListInv /\ UseInv /\ CorruptOnlyAfterClose
    /\ [PipesNext]_<<allVars, pipeVars>> => CorruptOnlyAfterClose'
<1> SUFFICES ASSUME SemInv, CallsInv, ListInv, UseInv, CorruptOnlyAfterClose,
                    [PipesNext]_<<allVars, pipeVars>>,
                    mode' = "corrupt", slips' \intersect {"closedInUse", "shared"} = {},
                    "spuriousWake" \notin faults'
             PROVE  FALSE
  BY DEF CorruptOnlyAfterClose
<1>1. SafetyInv /\ SemTypes
  BY DEF SemInv
<1>2. slips \intersect {"closedInUse", "shared"} = {} /\ "spuriousWake" \notin faults
  BY FaultsGrow
<1>3. mode # "corrupt"
  BY <1>2 DEF CorruptOnlyAfterClose
<1>4. CASE UseAfterClose
  <2>1. /\ call[current].at \in {"writePipe", "put", "postFull", "readPipe", "readLock", "get", "close"}
        /\ ~Valid(call[current].pipe) /\ current \in Pid
    BY <1>1, <1>4, UserFacts DEF UseAfterClose, InUserCode, here
  <2>2. call[current].pipe \in firstPipe
    BY <1>2, <2>1 DEF UseInv
  <2>3. semsOf[call[current].pipe] = opening
    BY <1>2, <2>2 DEF ListInv
  <2> QED BY <2>1, <2>2, <2>3 DEF Valid
<1>5. CASE [SemNext]_allVars
  <2>1. QueueInv'
    BY <1>1, <1>3, <1>5, QueueNext DEF SemInv
  <2> QED BY <2>1 DEF QueueInv
<1> QED BY <1>4, <1>5, SemStep

-----------------------------------------------------------------------------
(* The memory of the pipes.                                                *)

\* Only the process that has the CPU is making or freeing a pipe.
LEMMA OnlyCurrentBuilds ==
  ASSUME CallsInv, NEW p \in Pid, call[p].at \in {"openFull", "closeFull"}
  PROVE  p = current /\ HasCPU(p)
BY DEF CallsInv, HasCPU, Atomic

\* Steps outside of openPipe and closePipe.
LEMMA BlocksSame ==
  ASSUME SafetyInv, SemTypes, PipeTypes, CallsInv, BlocksInv, current \in Pid,
         UNCHANGED <<firstPipe, fdIndex, blocks>>,
         \A p \in Pid \ {current} : call'[p] = call[p],
         call[current].at \notin {"openFull", "closeFull"},
         call'[current].at \notin {"openFull", "closeFull"}
  PROVE  BlocksInv'
<1>1. \A p \in Pid : call[p].at \notin {"openFull", "closeFull"} /\ call'[p].at \notin {"openFull", "closeFull"}
  BY OnlyCurrentBuilds
<1> QED BY <1>1 DEF BlocksInv, BlocksAreListed

LEMMA BlocksNext ==
  SafetyInv /\ SemTypes /\ PipeTypes /\ CallsInv /\ LockInv /\ BlocksInv
    /\ [PipesNext]_<<allVars, pipeVars>> => BlocksInv'
<1> SUFFICES ASSUME SafetyInv, SemTypes, PipeTypes, CallsInv, LockInv, BlocksInv,
                    [PipesNext]_<<allVars, pipeVars>>
             PROVE  BlocksInv'
  OBVIOUS
<1>1. CASE openPipe
  <2>1. /\ current \in Pid /\ \A p \in Pid \ {current} : call'[p] = call[p]
        /\ call[current].at = "user" /\ call'[current].at = "openFull"
    <3>1. InUserCode /\ call[current].at = "user" /\ Goto("openFull")
      BY <1>1 DEF openPipe, UserCall, Settled
    <3> QED BY <3>1, AtFacts, GotoCall
  <2>2. \A p \in Pid : call[p].at \notin {"openFull", "closeFull"}
    BY <2>1, OnlyCurrentBuilds
  <2>3. UNCHANGED <<firstPipe, fdIndex>>
    BY <1>1 DEF openPipe, listVars
  <2>4. blocks' = [of : firstPipe, kind : Kinds] \union BlocksOf(fdIndex + 1, {"pipe_t", "name", "buffer"})
    BY <1>1, <2>2 DEF openPipe, BlocksInv, BlocksAreListed
  <2>5. \A p \in Pid : call'[p].at # "closeFull" /\ (call'[p].at = "openFull" => p = current)
    BY <2>1, <2>2
  <2> QED BY <2>1, <2>3, <2>4, <2>5 DEF BlocksInv, BlocksOf
<1>2. CASE closePipe \/ write \/ read \/ writePipe \/ readPipeLock
  <2>1. /\ current \in Pid /\ \A p \in Pid \ {current} : call'[p] = call[p]
        /\ Moves(call[current], call'[current]) /\ UNCHANGED listVars
    BY <1>2, EnterFacts
  <2>2. UNCHANGED blocks /\ call'[current].at # "openFull"
    <3>1. CASE closePipe
      <4>1. PICK n \in firstPipe :
              call' = [call EXCEPT ![current] = [at |-> "close", pipe |-> n, todo |-> 0]]
        BY <3>1 DEF closePipe
      <4> QED BY <2>1, <3>1, <4>1 DEF closePipe, PipeTypes
    <3>2. CASE write
      <4>1. PICK n : call' = [call EXCEPT ![current] = [at |-> "writePipe", pipe |-> fd[current].out, todo |-> n]]
        BY <3>2 DEF write
      <4> QED BY <2>1, <3>2, <4>1 DEF write, PipeTypes
    <3>3. CASE read
      <4>1. PICK n : call' = [call EXCEPT ![current] = [at |-> "readPipe", pipe |-> fd[current].in, todo |-> n]]
        BY <3>3 DEF read
      <4> QED BY <2>1, <3>3, <4>1 DEF read, PipeTypes
    <3>4. CASE writePipe
      BY <3>4, GotoCall DEF writePipe, At
    <3>5. CASE readPipeLock
      BY <3>5, GotoCall DEF readPipeLock, At
    <3> QED BY <1>2, <3>1, <3>2, <3>3, <3>4, <3>5
  <2> QED BY <2>1, <2>2, BlocksSame DEF Moves, listVars
<1>3. CASE writePipePut \/ readPipeGet
  <2>1. UNCHANGED blocks
    BY <1>3 DEF writePipePut, readPipeGet
  <2> QED BY <1>3, <2>1, TransferFacts, BlocksSame DEF listVars
<1>4. CASE readPipe \/ writePipePost
  <2>1. UNCHANGED blocks
    BY <1>4 DEF readPipe, writePipePost
  <2> QED BY <1>4, <2>1, CountFacts, BlocksSame DEF listVars
<1>5. CASE openPipeFull
  <2>1. /\ current \in Pid /\ call[current].at = "openFull"
        /\ fdIndex' = fdIndex + 1 /\ firstPipe' = firstPipe \union {fdIndex + 1}
        /\ blocks' = blocks \union BlocksOf(fdIndex + 1, {"node_t"})
        /\ call' = [call EXCEPT ![current] = NoCall]
    BY <1>5, AtFacts DEF openPipeFull, At, Return
  <2>2. \A p \in Pid : call'[p].at \notin {"openFull", "closeFull"}
    BY <2>1, OnlyCurrentBuilds DEF PipeTypes, NoCall
  <2>3. blocks = [of : firstPipe, kind : Kinds] \union BlocksOf(fdIndex + 1, {"pipe_t", "name", "buffer"})
    BY <2>1 DEF BlocksInv
  <2>4. blocks' = [of : firstPipe', kind : Kinds]
    BY <2>1, <2>3 DEF BlocksOf, Kinds
  <2> QED BY <2>2, <2>4 DEF BlocksInv, BlocksAreListed
<1>6. CASE closePipeUnlink
  <2>1. /\ InUserCode /\ current \in Pid /\ here \in firstPipe /\ call[current].at = "close"
        /\ firstPipe' = firstPipe \ {here} /\ Goto("closeFull") /\ UNCHANGED blocks
        /\ here = call[current].pipe
    BY <1>6, AtFacts DEF closePipeUnlink, At
  <2>2. /\ call'[current].at = "closeFull" /\ call'[current].pipe = here
        /\ \A p \in Pid \ {current} : call'[p] = call[p]
    BY <2>1, GotoCall
  <2>3. \A p \in Pid : call[p].at \notin {"openFull", "closeFull"}
    BY <2>1, OnlyCurrentBuilds
  <2>4. blocks' = [of : firstPipe', kind : Kinds] \union BlocksOf(here, Kinds)
    BY <2>1, <2>3 DEF BlocksInv, BlocksAreListed, BlocksOf
  <2>5. \A p \in Pid : call'[p].at # "openFull" /\ (call'[p].at = "closeFull" => p = current)
    BY <2>2, <2>3
  <2> QED BY <2>1, <2>2, <2>4, <2>5 DEF BlocksInv, BlocksOf
<1>7. CASE closePipeFull
  <2>1. /\ current \in Pid /\ call[current].at = "closeFull" /\ UNCHANGED firstPipe
        /\ here = call[current].pipe /\ call' = [call EXCEPT ![current] = NoCall]
    BY <1>7, AtFacts DEF closePipeFull, At, Return
  <2>2. \A p \in Pid : call'[p].at \notin {"openFull", "closeFull"}
    BY <2>1, OnlyCurrentBuilds DEF PipeTypes, NoCall
  <2>3. here \notin firstPipe /\ blocks = [of : firstPipe, kind : Kinds] \union BlocksOf(here, Kinds)
    BY <2>1 DEF BlocksInv
  <2>4. blocks' = blocks \ BlocksOf(here, Kinds)
    BY <1>7 DEF closePipeFull, vPortFree, BlocksOf, Kinds
  <2>5. blocks' = [of : firstPipe', kind : Kinds]
    BY <2>1, <2>3, <2>4 DEF BlocksOf
  <2> QED BY <2>2, <2>5 DEF BlocksInv, BlocksAreListed
<1>8. CASE PipesSchedulerStep
  <2>1. UNCHANGED <<firstPipe, fdIndex, blocks>>
    BY <1>8 DEF PipesSchedulerStep, listVars
  <2>2. \A p \in Pid : call'[p] = call[p] \/ call'[p].at = "user"
    BY <1>8 DEF PipesSchedulerStep, NoCall
  <2>3. CASE UNCHANGED <<state, current, mode, pids>>
    <3>1. \A p \in Pid : call[p].at # "user" => call'[p] = call[p]
      BY <1>8, <2>3 DEF PipesSchedulerStep, CallsInv
    <3>2. \A p \in Pid : call[p].at \in {"openFull", "closeFull"}
                          \/ call'[p].at \in {"openFull", "closeFull"} => call'[p] = call[p]
      BY <2>2, <3>1
    <3> QED BY <2>1, <3>2 DEF BlocksInv, BlocksAreListed
  <2>4. CASE \A p \in Pid : call[p].at \notin Atomic
    BY <2>1, <2>2, <2>4 DEF BlocksInv, BlocksAreListed, Atomic
  <2> QED BY <1>8, <2>3, <2>4, SchedulerAway
<1>9. CASE (semWaitResume /\ UNCHANGED pipeVars) \/ UseAfterClose \/ UNCHANGED <<allVars, pipeVars>>
  <2>1. UNCHANGED pipeVars
    BY <1>9 DEF UseAfterClose
  <2> QED BY <2>1 DEF BlocksInv, BlocksAreListed, pipeVars, listVars
<1> QED BY <1>1, <1>2, <1>3, <1>4, <1>5, <1>6, <1>7, <1>8, <1>9 DEF PipesNext

-----------------------------------------------------------------------------
(* The count of unread characters.                                         *)

\* Only the process that has the CPU is between the pipe and the count.
LEMMA DebtStep ==
  ASSUME CallsInv, current \in Pid, UNCHANGED current,
         \A p \in Pid \ {current} : /\ call'[p] = call[p]
                                    /\ waitingOn'[p] = NoSem => waitingOn[p] = NoSem
  PROVE  /\ Debt = IF Owes(current) THEN 1 ELSE 0
         /\ Debt' = IF Owes(current)' THEN 1 ELSE 0
<1>1. \A p \in Pid \ {current} : ~Owes(p) /\ ~Owes(p)'
  BY DEF CallsInv, HasCPU, Owes, Atomic
<1> QED BY <1>1 DEF Debt

\* Steps after which nobody waits who did not, on the same pipes.
LEMMA WaitersSame ==
  ASSUME WaitersOnPipe, UNCHANGED firstPipe, Closing => Closing',
         \A p \in Pid : waitingOn'[p] # NoSem =>
           waitingOn'[p] = waitingOn[p] /\ call'[p].pipe = call[p].pipe
  PROVE  WaitersOnPipe'
BY TwoSems DEF WaitersOnPipe

LEMMA CountNext ==
  SemInv /\ PipeTypes /\ CallsInv /\ LockInv /\ ListInv /\ CountInv
    /\ [PipesNext]_<<allVars, pipeVars>> => CountInv'
<1> SUFFICES ASSUME SemInv, PipeTypes, CallsInv, LockInv, ListInv, CountInv,
                    [PipesNext]_<<allVars, pipeVars>>,
                    "shared" \notin slips', "spuriousWake" \notin faults', mode' # "corrupt"
             PROVE  Counted' /\ WaitersOnPipe'
  BY DEF CountInv
<1>1. SafetyInv /\ SemTypes
  BY DEF SemInv
<1>2. "shared" \notin slips /\ "spuriousWake" \notin faults /\ mode # "corrupt"
  BY <1>1, FaultsGrow, CorruptStays
<1>3. Counted /\ WaitersOnPipe /\ QueueInv /\ ValueInv
  BY <1>2 DEF CountInv, SemInv
<1>4. \A n, m \in firstPipe : n = m
  BY <1>2 DEF ListInv
<1>5. \A n \in firstPipe : n \in PipeId /\ currentW[n] \in Nat /\ currentR[n] \in Nat
  BY PipesAssumption DEF PipeTypes, PipeId
<1>6. value[FULL] \in 0..(SemMod - 1) /\ SemMod \in Nat
  BY <1>1, TwoSems, SemaphoresAssumption DEF SemTypes
<1>7. InUserCode => current \in Pid /\ waitingOn[current] = NoSem
  BY <1>1, AtFacts
<1>8. ASSUME UNCHANGED vars
      PROVE  UNCHANGED current
  BY <1>8 DEF vars, cpuVars
<1>9. InUserCode /\ call[current].at # "closeFull" => ~Closing
  BY OnlyCurrentActs DEF Closing
<1>10. CASE openPipe \/ closePipe \/ write \/ read \/ writePipe \/ readPipeLock
  <2>1. /\ InUserCode /\ current \in Pid
        /\ UNCHANGED <<firstPipe, currentW, currentR, vars, waitingOn>> /\ value'[FULL] = value[FULL]
        /\ \A p \in Pid \ {current} : call'[p] = call[p]
        /\ Moves(call[current], call'[current])
    BY <1>1, <1>10, EnterFacts DEF listVars, dataVars
  <2>2. Owes(current)' <=> Owes(current)
    BY <1>7, <1>8, <2>1 DEF Owes, Moves
  <2>3. Debt' = Debt
    BY <1>8, <2>1, <2>2, DebtStep
  <2>4. ~Closing
    BY <1>9, <2>1 DEF Moves
  <2>5. WaitersOnPipe'
    BY <1>3, <1>7, <2>1, <2>4, WaitersSame
  <2> QED BY <1>3, <2>1, <2>3, <2>5 DEF Counted
<1>11. CASE writePipePut \/ readPipeGet
  <2>1. /\ InUserCode /\ current \in Pid
        /\ UNCHANGED <<firstPipe, vars, waitingOn>> /\ value'[FULL] = value[FULL]
        /\ \A p \in Pid \ {current} : call'[p] = call[p]
        /\ call[current].pipe = here /\ here \in firstPipe /\ here \in PipeId
    BY <1>1, <1>11, TransferFacts DEF listVars
  <2>2. call[current].at # "closeFull"
    BY <1>1, <1>11, TransferFacts
  <2>3. WaitersOnPipe'
    BY <1>3, <1>7, <1>9, <2>1, <2>2, WaitersSame
  <2>4. /\ Debt = IF Owes(current) THEN 1 ELSE 0
        /\ Debt' = IF Owes(current)' THEN 1 ELSE 0
    BY <1>8, <2>1, DebtStep
  <2>5. CASE writePipePut
    <3>1. currentW'[here] = currentW[here] + 1 /\ UNCHANGED currentR
      BY <2>1, <2>5 DEF writePipePut, PipeTypes
    <3>2. ~Owes(current) /\ Owes(current)'
      BY <1>1, <1>8, <2>1, <2>5, TransferFacts DEF Owes
    <3> QED BY <1>3, <1>4, <1>5, <1>6, <2>1, <2>3, <2>4, <3>1, <3>2 DEF Counted
  <2>6. CASE readPipeGet
    <3>1. currentR'[here] = currentR[here] + 1 /\ UNCHANGED currentW
      BY <2>1, <2>6 DEF readPipeGet, PipeTypes
    <3>2. Owes(current) /\ ~Owes(current)'
      BY <1>1, <1>8, <2>1, <2>6, TransferFacts DEF Owes
    <3> QED BY <1>3, <1>4, <1>5, <1>6, <2>1, <2>3, <2>4, <3>1, <3>2 DEF Counted
  <2> QED BY <1>11, <2>5, <2>6
<1>12. CASE readPipe
  <2>1. /\ InUserCode /\ current \in Pid /\ UNCHANGED <<firstPipe, currentW, currentR>>
        /\ \A p \in Pid \ {current} : call'[p] = call[p]
        /\ call[current].pipe = here /\ here \in firstPipe /\ call[current].at = "readPipe"
        /\ call'[current].at = "readLock" /\ call'[current].pipe = here /\ semWait(FULL)
    BY <1>1, <1>12, CountFacts DEF listVars, dataVars
  <2>2. ~Closing /\ ~Owes(current)
    BY <1>9, <2>1 DEF Owes
  <2>3. CASE value[FULL] > 0
    <3>1. /\ value'[FULL] = value[FULL] - 1 /\ UNCHANGED <<vars, waitingOn>>
      <4>1. value' = [value EXCEPT ![FULL] = @ - 1] /\ UNCHANGED <<vars, waitingOn>>
        BY <2>1, <2>3 DEF semWait
      <4> QED BY <1>1, <4>1, TwoSems DEF SemTypes
    <3>2. Owes(current)'
      BY <1>7, <1>8, <2>1, <3>1 DEF Owes
    <3>3. Debt = 0 /\ Debt' = 1
      BY <1>8, <2>1, <2>2, <3>1, <3>2, DebtStep
    <3>4. WaitersOnPipe'
      BY <1>3, <1>7, <2>1, <2>2, <3>1, WaitersSame
    <3> QED BY <1>3, <1>5, <1>6, <2>1, <3>1, <3>3, <3>4 DEF Counted
  <2>4. CASE value[FULL] = 0
    <3>1. /\ UNCHANGED <<value, current>> /\ waitingOn' = [waitingOn EXCEPT ![current] = FULL]
      BY <1>1, <2>1, <2>4, WaitBlocks, TwoSems DEF semWait, cpuVars
    <3>2. waitingOn'[current] = FULL /\ \A p \in Pid \ {current} : waitingOn'[p] = waitingOn[p]
      BY <1>1, <2>1, <3>1 DEF SemTypes
    <3>3. ~Owes(current)'
      BY <2>1, <3>1, <3>2, TwoSems DEF Owes
    <3>4. Debt' = Debt
      BY <2>1, <2>2, <3>1, <3>2, <3>3, DebtStep
    <3>5. WaitersOnPipe'
      BY <1>3, <2>1, <2>2, <3>2, TwoSems DEF WaitersOnPipe
    <3> QED BY <1>3, <2>1, <3>1, <3>4, <3>5 DEF Counted
  <2> QED BY <1>6, <2>3, <2>4
<1>13. CASE writePipePost
  <2>1. /\ InUserCode /\ current \in Pid /\ UNCHANGED <<firstPipe, currentW, currentR>>
        /\ \A p \in Pid \ {current} : call'[p] = call[p]
        /\ call[current].pipe = here /\ here \in firstPipe /\ call[current].at = "postFull"
        /\ call'[current].at \in {"user", "writePipe"} /\ semPost(FULL)
    BY <1>1, <1>13, CountFacts DEF listVars, dataVars
  <2>2. UNCHANGED <<waitingOn, current>>
    BY <2>1 DEF semPost, vars, cpuVars
  <2>3. value'[FULL] = value[FULL] + 1
    <3>1. value'[FULL] = (value[FULL] + 1) % SemMod
      BY <1>1, <2>1, TwoSems DEF semPost, SemTypes
    <3>2. value[FULL] <= SemMod \div 2 /\ value[FULL] # SemMod \div 2
      BY <1>2, <1>3, <2>1, TwoSems DEF ValueInv, semPost
    <3>3. value[FULL] + 1 \in Nat /\ value[FULL] + 1 < SemMod
      BY <1>6, <3>2, HalfFacts
    <3> QED BY <3>1, <3>3, SmallMod
  <2>4. Owes(current) /\ ~Owes(current)' /\ ~Closing
    BY <1>9, <2>1, <2>2 DEF Owes
  <2>5. Debt = 1 /\ Debt' = 0
    BY <2>1, <2>2, <2>4, DebtStep
  <2>6. WaitersOnPipe'
    BY <1>3, <1>7, <2>1, <2>2, <2>4, WaitersSame
  <2> QED BY <1>3, <1>5, <1>6, <2>1, <2>3, <2>5, <2>6 DEF Counted
<1>14. CASE openPipeFull
  <2>1. /\ InUserCode /\ current \in Pid /\ call[current].at = "openFull"
        /\ fdIndex' = fdIndex + 1 /\ firstPipe' = firstPipe \union {fdIndex'}
        /\ IF isOpen[FULL] THEN UNCHANGED allVars ELSE semOpen(FULL)
        /\ call' = [call EXCEPT ![current] = NoCall] /\ UNCHANGED dataVars
        /\ "shared" \notin slips' => firstPipe = {}
    BY <1>1, <1>14, AtFacts DEF openPipeFull, At, Return
  <2>2. ~Closing /\ firstPipe = {} /\ ~isOpen[FULL]
    BY <1>2, <1>9, <2>1 DEF ListInv
  <2>3. value'[FULL] = 0 /\ UNCHANGED waitingOn
    BY <1>1, <2>1, <2>2, TwoSems DEF semOpen, SemTypes
  <2>4. fdIndex' \in PipeId /\ currentW'[fdIndex'] = 0 /\ currentR'[fdIndex'] = 0
    <3>1. fdIndex \in Nat /\ fdIndex < MaxPipes /\ MaxPipes \in Nat
      BY <2>1, PipesAssumption DEF PipeTypes
    <3>2. fdIndex' \in PipeId /\ fdIndex' > fdIndex
      BY <2>1, <3>1 DEF PipeId
    <3> QED BY <2>1, <3>2 DEF PipeTypes, dataVars
  <2>5. call'[current] = NoCall /\ \A p \in Pid \ {current} : call'[p] = call[p]
    BY <2>1 DEF PipeTypes
  <2>6. \A p \in Pid : p # current => call'[p].pipe \notin firstPipe'
    <3>1. \A p \in Pid : call[p].pipe \in 0..fdIndex /\ fdIndex \in Nat
      BY PipesAssumption DEF PipeTypes
    <3> QED BY <2>1, <2>2, <2>5, <3>1
  <2>7. \A p \in Pid : ~Owes(p)'
    BY <2>5, <2>6 DEF Owes, NoCall
  <2>8. WaitersOnPipe'
    BY <1>3, <1>7, <2>1, <2>2, <2>3, <2>6, TwoSems DEF WaitersOnPipe
  <2> QED BY <2>1, <2>2, <2>3, <2>4, <2>7, <2>8 DEF Counted, Debt
<1>15. CASE closePipeUnlink
  <2>1. /\ InUserCode /\ current \in Pid /\ here \in firstPipe
        /\ firstPipe' = firstPipe \ {here} /\ Goto("closeFull")
    BY <1>1, <1>15, AtFacts DEF closePipeUnlink, At
  <2>2. Closing'
    BY <1>1, <2>1, GotoCall DEF Closing
  <2>3. firstPipe' = {}
    BY <1>4, <2>1
  <2> QED BY <2>2, <2>3 DEF Counted, WaitersOnPipe
<1>16. CASE closePipeFull
  <2>1. InUserCode /\ current \in Pid /\ call[current].at = "closeFull" /\ UNCHANGED firstPipe /\ semClose(FULL)
    BY <1>1, <1>16, AtFacts DEF closePipeFull, At
  <2>2. firstPipe' = {}
    BY <1>2, <2>1 DEF ListInv, Closing
  <2>3. \A p \in Pid : waitingOn'[p] # FULL
    BY <2>1, TwoSems DEF semClose
  <2> QED BY <2>2, <2>3 DEF Counted, WaitersOnPipe
<1>17. CASE semWaitResume /\ UNCHANGED pipeVars
  <2>1. /\ mode = "user" /\ current \in Pid /\ state[current] = "READY" /\ waitingOn[current] # NoSem
        /\ waitingOn' = [waitingOn EXCEPT ![current] = NoSem]
        /\ UNCHANGED <<vars, call, firstPipe, currentW, currentR>>
    BY <1>1, <1>17, UserFacts DEF semWaitResume, pipeVars, listVars, dataVars
  <2>2. call[current].at = "readLock" /\ waitingOn[current] \in {FULL, Freed}
    BY <1>1, <2>1, PipesAssumption DEF CallsInv, SemTypes
  <2>3. waitingOn'[current] = NoSem /\ \A p \in Pid \ {current} : waitingOn'[p] = waitingOn[p]
    BY <1>1, <2>1 DEF SemTypes
  <2>4. ~Closing /\ ~Owes(current)
    BY <2>1, <2>2, OnlyCurrentActs DEF Closing, Owes
  <2>5. Owes(current)' <=> call[current].pipe \in firstPipe
    BY <1>8, <2>1, <2>2, <2>3 DEF Owes
  <2>6. Debt = 0 /\ Debt' = IF call[current].pipe \in firstPipe THEN 1 ELSE 0
    BY <1>8, <2>1, <2>3, <2>4, <2>5, DebtStep
  <2>7. WaitersOnPipe'
    BY <1>3, <2>1, <2>3, <2>4, WaitersSame
  <2>8. CASE waitingOn[current] = Freed
    <3>1. UNCHANGED value
      BY <1>17, <2>8 DEF semWaitResume
    <3>2. call[current].pipe \notin firstPipe
      BY <1>3, <2>1, <2>8 DEF WaitersOnPipe
    <3> QED BY <1>3, <2>1, <2>6, <2>7, <3>1, <3>2 DEF Counted
  <2>9. CASE waitingOn[current] = FULL
    <3>1. value'[FULL] = (value[FULL] - 1) % SemMod
      BY <1>1, <1>17, <2>9, TwoSems DEF semWaitResume, SemTypes
    <3>2. value[FULL] > 0
      <4>1. HandedOn(FULL)
        BY <2>1, <2>9 DEF HandedOn, Handed
      <4> QED BY <1>2, <1>3, <4>1, TwoSems DEF ValueInv
    <3>3. value'[FULL] = value[FULL] - 1
      <4>1. value[FULL] - 1 \in Nat /\ value[FULL] - 1 < SemMod
        BY <1>6, <3>2
      <4> QED BY <3>1, <4>1, SmallMod
    <3>4. call[current].pipe \in firstPipe
      BY <1>3, <2>1, <2>4, <2>9 DEF WaitersOnPipe
    <3> QED BY <1>3, <1>5, <1>6, <2>1, <2>6, <2>7, <3>3, <3>4 DEF Counted
  <2> QED BY <2>2, <2>8, <2>9
<1>18. CASE PipesSchedulerStep
  <2>1. /\ UNCHANGED <<firstPipe, currentW, currentR, value>> /\ (Closing' <=> Closing)
        /\ \A p \in Pid : \/ call'[p] = call[p] /\ waitingOn'[p] = waitingOn[p]
                          \/ call'[p].at = "user" /\ waitingOn'[p] = NoSem
        /\ \A p \in Pid : Owes(p)' <=> Owes(p)
    BY <1>1, <1>18, AwayFacts DEF listVars, dataVars
  <2>2. Debt' = Debt
    BY <2>1 DEF Debt
  <2>3. WaitersOnPipe'
    BY <1>3, <2>1, WaitersSame
  <2> QED BY <1>3, <2>1, <2>2, <2>3 DEF Counted
<1>19. CASE UNCHANGED <<allVars, pipeVars>>
  <2>1. UNCHANGED <<firstPipe, currentW, currentR, value, call, waitingOn>>
    BY <1>19 DEF allVars, semVars, pipeVars, listVars, dataVars
  <2> QED BY <1>3, <2>1 DEF Counted, WaitersOnPipe, Debt, Owes, Closing
<1>20. ~UseAfterClose
  BY DEF UseAfterClose
<1> QED BY <1>10, <1>11, <1>12, <1>13, <1>14, <1>15, <1>16, <1>17, <1>18, <1>19, <1>20 DEF PipesNext

-----------------------------------------------------------------------------
(* The order of the characters.                                            *)

\* Positions less than a whole buffer apart are different places in it.
LEMMA PlacesDiffer ==
  ASSUME NEW i \in Nat, NEW w \in Nat, i < w, w - i < PIPE_MAX_SIZE
  PROVE  i % PIPE_MAX_SIZE # w % PIPE_MAX_SIZE
<1> DEFINE S == PIPE_MAX_SIZE
<1>1. S \in Nat /\ S > 0
  BY PipesAssumption
<1>2. \A a \in Nat : a = S * (a \div S) + (a % S) /\ (a \div S) \in Int
  BY <1>1
<1> HIDE DEF S
<1>3. SUFFICES ASSUME i % S = w % S PROVE FALSE
  BY DEF S
<1>4. PICK k \in Int : k = (w \div S) - (i \div S)
  BY <1>2
<1>5. w - i = S * k
  <2>1. PICK a \in Int, b \in Int : a = i \div S /\ b = w \div S
    BY <1>2
  <2>2. i = S * a + (i % S) /\ w = S * b + (w % S) /\ (i % S) \in Int /\ k = b - a
    BY <1>1, <1>2, <1>4, <2>1
  <2>3. S * k = S * b - S * a
    BY <1>1, <2>1, <2>2
  <2>4. S * a \in Int /\ S * b \in Int
    BY <1>1, <2>1
  <2> QED BY <1>3, <2>2, <2>3, <2>4
<1>6. CASE k <= 0
  <2>1. S * k <= 0
    BY <1>1, <1>6
  <2> QED BY <1>5, <2>1
<1>7. CASE k >= 1
  <2>1. S * k >= S
    BY <1>1, <1>7
  <2> QED BY <1>1, <1>5, <2>1 DEF S
<1> QED BY <1>4, <1>6, <1>7

\* A place in the buffer.
LEMMA PlaceInBuffer ==
  ASSUME NEW i \in Nat
  PROVE  i % PIPE_MAX_SIZE \in 0..(PIPE_MAX_SIZE - 1)
BY PipesAssumption

\* What a writer puts in does not run over what is unread.
LEMMA PutInOrder ==
  ASSUME SafetyInv, SemTypes, PipeTypes, OrderInv, writePipePut,
         slips' \intersect {"overrun", "shared"} = {}, "spuriousWake" \notin faults
  PROVE  \A n \in PipeId : InOrder(n)'
<1>1. InUserCode /\ here \in PipeId /\ UNCHANGED <<currentR, received>>
  BY AtFacts DEF writePipePut, At
<1>2. PICK n \in PipeId : n = here
  BY <1>1
<1>3. PICK c \in Chars : /\ buffer' = [buffer EXCEPT ![n][currentW[n] % PIPE_MAX_SIZE] = c]
                         /\ sent' = [sent EXCEPT ![n] = Append(@, c)]
  BY <1>2 DEF writePipePut
<1>4. /\ currentW' = [currentW EXCEPT ![n] = @ + 1]
      /\ ~(currentW[n] - currentR[n] >= PIPE_MAX_SIZE)
      /\ slips \intersect {"overrun", "shared"} = {}
  BY <1>2 DEF writePipePut
<1>5. \A m \in PipeId : InOrder(m)
  BY <1>4 DEF OrderInv
<1>6. ASSUME NEW m \in PipeId, m # n
      PROVE  InOrder(m)'
  BY <1>1, <1>3, <1>4, <1>5, <1>6 DEF InOrder, PipeTypes
<1>7. InOrder(n)'
  <2> DEFINE w == currentW[n]
             r == currentR[n]
  <2>1. /\ w \in Nat /\ r \in Nat /\ PIPE_MAX_SIZE \in Nat
        /\ r <= w /\ w - r < PIPE_MAX_SIZE /\ Len(sent[n]) = w /\ sent[n] \in Seq(Chars)
    BY <1>4, <1>5, PipesAssumption DEF PipeTypes, InOrder
  <2>2. currentW'[n] = w + 1 /\ currentR'[n] = r /\ received'[n] = received[n]
    BY <1>1, <1>4 DEF PipeTypes
  <2>3. sent'[n] = Append(sent[n], c)
    BY <1>3 DEF PipeTypes
  <2>4. sent'[n][w + 1] = c /\ \A i \in 1..w : sent'[n][i] = sent[n][i]
    BY <2>1, <2>3
  <2>5. /\ buffer'[n][w % PIPE_MAX_SIZE] = c
        /\ \A j \in 0..(PIPE_MAX_SIZE - 1) : j # w % PIPE_MAX_SIZE => buffer'[n][j] = buffer[n][j]
    BY <1>3, <2>1, PlaceInBuffer DEF PipeTypes
  <2>6. ASSUME NEW i \in r..w
        PROVE  buffer'[n][i % PIPE_MAX_SIZE] = sent'[n][i + 1]
    <3>1. CASE i = w
      BY <2>4, <2>5, <3>1
    <3>2. CASE i # w
      <4>1. i \in Nat /\ i < w /\ w - i < PIPE_MAX_SIZE /\ i \in r..(w - 1) /\ i + 1 \in 1..w
        BY <2>1, <3>2
      <4>2. i % PIPE_MAX_SIZE # w % PIPE_MAX_SIZE /\ i % PIPE_MAX_SIZE \in 0..(PIPE_MAX_SIZE - 1)
        BY <2>1, <4>1, PlacesDiffer, PlaceInBuffer
      <4>3. buffer[n][i % PIPE_MAX_SIZE] = sent[n][i + 1]
        BY <1>5, <4>1 DEF InOrder
      <4> QED BY <2>4, <2>5, <4>1, <4>2, <4>3
    <3> QED BY <3>1, <3>2
  <2>7. \A i \in 1..r : received'[n][i] = sent'[n][i]
    <3>1. \A i \in 1..r : received[n][i] = sent[n][i] /\ i \in 1..w
      BY <1>5, <2>1 DEF InOrder
    <3> QED BY <2>2, <2>4, <3>1
  <2>8. r <= w + 1 /\ (w + 1) - r <= PIPE_MAX_SIZE /\ (w + 1) - 1 = w
    BY <2>1
  <2> HIDE DEF w, r
  <2> QED BY <2>2, <2>6, <2>7, <2>8 DEF InOrder
<1> QED BY <1>6, <1>7

\* What a reader gets is the first unread character: the count says there is one.
LEMMA GetInOrder ==
  ASSUME SafetyInv, SemTypes, PipeTypes, CallsInv, LockInv, CountInv, OrderInv, readPipeGet,
         slips \intersect {"overrun", "shared"} = {}, "spuriousWake" \notin faults
  PROVE  \A n \in PipeId : InOrder(n)'
<1>1. /\ InUserCode /\ current \in Pid /\ here \in PipeId /\ here \in firstPipe
      /\ call[current].pipe = here /\ call[current].at = "get"
  BY TransferFacts
<1>2. PICK n \in PipeId : n = here
  BY <1>1
<1>3. /\ UNCHANGED <<buffer, currentW, sent>> /\ currentR' = [currentR EXCEPT ![n] = @ + 1]
      /\ received' = [received EXCEPT ![n] = Append(@, buffer[n][currentR[n] % PIPE_MAX_SIZE])]
  BY <1>2 DEF readPipeGet
<1>4. \A m \in PipeId : InOrder(m)
  BY DEF OrderInv
<1>5. ASSUME NEW m \in PipeId, m # n
      PROVE  InOrder(m)'
  BY <1>3, <1>4, <1>5 DEF InOrder, PipeTypes
<1>6. InOrder(n)'
  <2> DEFINE w == currentW[n]
             r == currentR[n]
             c == buffer[n][r % PIPE_MAX_SIZE]
  <2>1. /\ w \in Nat /\ r \in Nat /\ PIPE_MAX_SIZE \in Nat /\ w - r <= PIPE_MAX_SIZE
        /\ Len(received[n]) = r /\ received[n] \in Seq(Chars \union {Junk})
    BY <1>4, PipesAssumption DEF PipeTypes, InOrder
  <2>2. r < w
    <3>1. Owes(current)
      BY <1>1 DEF Owes
    <3>2. Debt = 1
      BY <1>1, <3>1 DEF Debt
    <3>3. value[FULL] = (w - r) - 1
      BY <1>1, <1>2, <3>2 DEF CountInv, Counted, InUserCode
    <3>4. value[FULL] \in Nat
      BY TwoSems, SemaphoresAssumption DEF SemTypes
    <3> QED BY <2>1, <3>3, <3>4
  <2>3. c = sent[n][r + 1]
    BY <1>4, <2>1, <2>2 DEF InOrder
  <2>4. currentR'[n] = r + 1 /\ received'[n] = Append(received[n], c)
    BY <1>3 DEF PipeTypes
  <2>5. c \in Chars \union {Junk}
    BY <2>1, PlaceInBuffer DEF PipeTypes
  <2> HIDE DEF c
  <2>6. received'[n][r + 1] = c /\ \A i \in 1..r : received'[n][i] = received[n][i]
    BY <2>1, <2>4, <2>5
  <2>7. \A i \in 1..(r + 1) : received'[n][i] = sent[n][i]
    <3>1. \A i \in 1..r : received[n][i] = sent[n][i]
      BY <1>4 DEF InOrder
    <3>2. \A i \in 1..(r + 1) : i = r + 1 \/ i \in 1..r
      BY <2>1
    <3> QED BY <2>3, <2>6, <3>1, <3>2
  <2>8. \A i \in (r + 1)..(w - 1) : buffer[n][i % PIPE_MAX_SIZE] = sent[n][i + 1]
    BY <1>4, <2>1 DEF InOrder
  <2>9. r + 1 <= w /\ w - (r + 1) <= PIPE_MAX_SIZE
    BY <2>1, <2>2
  <2>10. currentW'[n] = w /\ buffer'[n] = buffer[n] /\ sent'[n] = sent[n]
    BY <1>3
  <2> HIDE DEF w, r
  <2> QED BY <2>4, <2>7, <2>8, <2>9, <2>10 DEF InOrder
<1> QED BY <1>5, <1>6

LEMMA OrderNext ==
  SafetyInv /\ SemTypes /\ PipeTypes /\ CallsInv /\ LockInv /\ CountInv /\ OrderInv
    /\ [PipesNext]_<<allVars, pipeVars>> => OrderInv'
<1> SUFFICES ASSUME SafetyInv, SemTypes, PipeTypes, CallsInv, LockInv, CountInv, OrderInv,
                    [PipesNext]_<<allVars, pipeVars>>,
                    slips' \intersect {"overrun", "shared"} = {}, "spuriousWake" \notin faults'
             PROVE  \A n \in PipeId : InOrder(n)'
  BY DEF OrderInv
<1>1. slips \intersect {"overrun", "shared"} = {} /\ "spuriousWake" \notin faults
  BY FaultsGrow
<1>2. CASE UNCHANGED dataVars
  BY <1>1, <1>2 DEF OrderInv, InOrder, dataVars
<1>3. CASE writePipePut
  BY <1>1, <1>3, PutInOrder
<1>4. CASE readPipeGet
  BY <1>1, <1>4, GetInOrder
<1>5. [PipesNext]_<<allVars, pipeVars>> => UNCHANGED dataVars \/ writePipePut \/ readPipeGet
  BY DEF PipesNext, openPipe, openPipeFull, closePipe, closePipeUnlink, closePipeFull, write,
         writePipe, writePipePost, read, readPipe, readPipeLock, PipesSchedulerStep, UseAfterClose,
         pipeVars
<1> QED BY <1>2, <1>3, <1>4, <1>5

-----------------------------------------------------------------------------
(* The theorems.                                                           *)

PipesInv ==
  /\ SemInv /\ PipeTypes /\ CallsInv /\ LockInv
  /\ ListInv /\ UseInv /\ CorruptOnlyAfterClose /\ BlocksInv /\ CountInv /\ OrderInv

LEMMA PipesInitially == PipesInit => PipesInv
<1> SUFFICES ASSUME PipesInit
             PROVE  PipesInv
  OBVIOUS
<1>1. SemInit /\ Init /\ mode = "checkSleeping" /\ slips = {} /\ firstPipe = {}
  BY DEF PipesInit, SemInit, Init
<1>2. SemInv
  <2>1. SafetyInv /\ SemTypes
    BY <1>1, SemInitTypes
  <2>2. \A p \in Pid : waitingOn[p] = NoSem
    BY <1>1 DEF SemInit
  <2>3. QueueInv
    BY <1>1, <2>2, TwoSems, SemaphoresAssumption
       DEF SemInit, QueueInv, WaitersStopped, HandedIsNext, Handed, QueuesExact, BlockedIsQueued,
           Distinct, In
  <2>4. ValueInv
    BY <1>1, <2>2, HalfFacts DEF SemInit, ValueInv, HandedOn, Handed
  <2> QED BY <2>1, <2>3, <2>4 DEF SemInv
<1>3. \A p \in Pid : /\ call[p] = NoCall /\ call[p].at = "user" /\ waitingOn[p] = NoSem
                     /\ holding[p] = {} /\ fd[p] = [in |-> TERMINAL, out |-> TERMINAL]
  BY <1>1 DEF PipesInit, SemInit, NoCall
<1>4. PipeTypes
  <2>1. /\ fdIndex = 0 /\ MaxPipes \in Nat /\ opening = 0 /\ Junk \in Chars \union {Junk}
        /\ fd = [p \in Pid |-> [in |-> TERMINAL, out |-> TERMINAL]] /\ call = [p \in Pid |-> NoCall]
        /\ semsOf = [n \in PipeId |-> 0]
        /\ buffer = [n \in PipeId |-> [i \in 0..(PIPE_MAX_SIZE - 1) |-> Junk]]
        /\ currentR = [n \in PipeId |-> 0] /\ currentW = [n \in PipeId |-> 0]
        /\ sent = [n \in PipeId |-> << >>] /\ received = [n \in PipeId |-> << >>]
    BY PipesAssumption DEF PipesInit
  <2>2. fd \in [Pid -> [in : 0..fdIndex, out : 0..fdIndex]]
    BY <2>1 DEF TERMINAL
  <2>3. call \in [Pid -> [at : Labels, pipe : 0..fdIndex, todo : Int]]
    BY <2>1 DEF TERMINAL, NoCall, Labels
  <2>4. fdIndex \in 0..MaxPipes /\ firstPipe \subseteq 1..fdIndex
    BY <1>1, <2>1
  <2>5. /\ semsOf \in [PipeId -> Nat] /\ opening \in Nat
        /\ buffer \in [PipeId -> [0..(PIPE_MAX_SIZE - 1) -> Chars \union {Junk}]]
        /\ currentR \in [PipeId -> Nat] /\ currentW \in [PipeId -> Nat]
        /\ sent \in [PipeId -> Seq(Chars)] /\ received \in [PipeId -> Seq(Chars \union {Junk})]
    BY <2>1
  <2> QED BY <1>3, <2>1, <2>2, <2>3, <2>4, <2>5 DEF PipeTypes
<1>5. CallsInv
  BY <1>3 DEF CallsInv, Atomic
<1>6. LockInv
  BY <1>1, <1>3, TwoSems DEF SemInit, LockInv
<1>7. ListInv
  BY <1>1, <1>3, TwoSems DEF ListInv, Closing, SemInit
<1>8. UseInv
  BY <1>3 DEF UseInv
<1>9. CorruptOnlyAfterClose
  BY <1>1 DEF CorruptOnlyAfterClose
<1>10. CountInv
  BY <1>1, <1>3, TwoSems DEF CountInv, Counted, WaitersOnPipe
<1>11. OrderInv
  <2>1. \A n \in PipeId : currentR[n] = 0 /\ currentW[n] = 0
    BY DEF PipesInit
  <2> QED BY <2>1, PipesAssumption DEF OrderInv, InOrder
<1>12. BlocksInv
  <2>1. blocks = {} /\ [of : firstPipe, kind : Kinds] = {}
    BY <1>1 DEF PipesInit
  <2> QED BY <1>3, <2>1 DEF BlocksInv, BlocksAreListed
<1> QED BY <1>2, <1>4, <1>5, <1>6, <1>7, <1>8, <1>9, <1>10, <1>11, <1>12 DEF PipesInv

LEMMA PipesStep == PipesInv /\ [PipesNext]_<<allVars, pipeVars>> => PipesInv'
<1> SUFFICES ASSUME PipesInv, [PipesNext]_<<allVars, pipeVars>>
             PROVE  PipesInv'
  OBVIOUS
<1>1. SemInv /\ SafetyInv /\ SemTypes /\ PipeTypes /\ CallsInv /\ LockInv
  BY DEF PipesInv, SemInv
<1>2. SemInv' /\ PipeTypes' /\ CallsInv' /\ LockInv'
  BY <1>1, SemInvNext, PipeTypesNext, CallsNext, LockNext
<1>3. ListInv' /\ UseInv' /\ CorruptOnlyAfterClose'
  BY <1>1, ListNext, UseNext, CorruptNext DEF PipesInv
<1>4. CountInv' /\ OrderInv' /\ BlocksInv'
  BY <1>1, CountNext, OrderNext, BlocksNext DEF PipesInv
<1> QED BY <1>2, <1>3, <1>4 DEF PipesInv

LEMMA PipesAlways == PipesSpec => []PipesInv
BY PipesInitially, PipesStep, PTL DEF PipesSpec

\* No process leaves a call, blocks, is switched away or is killed with the lock
\* of the pipes taken, so that nobody ever waits for it, closePipe neither.
THEOREM LockIsFree == PipesSpec => []LockNeverKept
<1>1. PipesInv => LockNeverKept
  <2> SUFFICES ASSUME PipesInv, Settled, isOpen[LOCK]
               PROVE  value[LOCK] = 1 /\ entering[LOCK] = << >> /\ Holders(LOCK) = {}
    BY DEF LockNeverKept
  <2>1. CallsInv /\ LockInv /\ call[current].at = "user"
    BY DEF PipesInv, Settled
  <2>2. \A p \in Pid : LOCK \notin holding[p]
    BY <2>1, OnlyCurrentHolds
  <2> QED BY <2>1, <2>2 DEF LockInv, Holders
<1> QED BY <1>1, PipesAlways, PTL

\* No call outlives the memory of its pipe unless that was closed while a process
\* had it or two pipes shared the semaphores, and between calls the blocks of the
\* pipes in the list are all there and no others, for any number of pipes and
\* processes, although closePipe frees each pipe_t twice.
THEOREM PipesKeepMemory == PipesSpec => []PipeMemory
<1>1. PipesInv => PipeMemory
  <2> SUFFICES ASSUME PipesInv, Settled PROVE BlocksAreListed
    BY DEF PipesInv, PipeMemory
  <2>1. CallsInv /\ BlocksInv /\ call[current].at = "user"
    BY DEF PipesInv, Settled
  <2>2. \A p \in Pid : call[p].at \notin {"openFull", "closeFull"}
    BY <2>1, OnlyCurrentBuilds
  <2> QED BY <2>1, <2>2 DEF BlocksInv
<1> QED BY <1>1, PipesAlways, PTL

\* FullSem counts the unread characters of the pipe, and no reader stays blocked
\* on a pipe that has something to read.
THEOREM FullSemCounts == PipesSpec => []CountIsUnread
<1>1. PipesInv => CountIsUnread
  <2> SUFFICES ASSUME PipesInv, Settled, "shared" \notin slips, "spuriousWake" \notin faults
               PROVE  /\ \A n \in firstPipe : value[FULL] = currentW[n] - currentR[n]
                      /\ faults \intersect {"killedWaiter", "closedWaiter"} = {} =>
                           \A p \in Pid : waitingOn[p] = FULL =>
                             currentR[call[p].pipe] = currentW[call[p].pipe]
    BY DEF CountIsUnread
  <2>1. /\ InUserCode /\ call[current].at = "user" /\ mode = "user"
        /\ SafetyInv /\ SemTypes /\ QueueInv /\ ValueInv /\ PipeTypes /\ CallsInv
        /\ Counted /\ WaitersOnPipe
    BY DEF PipesInv, Settled, InUserCode, SemInv, CountInv
  <2>2. ~Closing /\ \A p \in Pid : ~Owes(p)
    BY <2>1, OnlyCurrentActs DEF Closing, Owes
  <2>3. \A n \in firstPipe : n \in PipeId /\ currentW[n] \in Nat /\ currentR[n] \in Nat
    BY <2>1, PipesAssumption DEF PipeTypes, PipeId
  <2>4. \A n \in firstPipe : value[FULL] = currentW[n] - currentR[n]
    BY <2>1, <2>2, <2>3 DEF Counted, Debt
  <2>5. ASSUME "killedWaiter" \notin faults, NEW p \in Pid, waitingOn[p] = FULL
        PROVE  currentR[call[p].pipe] = currentW[call[p].pipe]
    <3>1. call[p].pipe \in firstPipe
      BY <2>1, <2>2, <2>5 DEF WaitersOnPipe
    <3>2. \A q \in Pid : ~Handed(q)
      BY <2>1, NoneHanded DEF QueueInv
    <3>3. state[p] = "BLOCKED"
      BY <2>1, <2>5, <3>2, TwoSems DEF QueueInv, WaitersStopped, Handed
    <3>4. entering[FULL] # << >>
      BY <2>1, <2>5, <3>3, TwoSems DEF QueueInv, BlockedIsQueued, In
    <3>5. value[FULL] = 0
      BY <2>1, <2>5, <3>2, <3>4, TwoSems DEF ValueInv, HandedOn
    <3> QED BY <2>3, <2>4, <3>1, <3>5
  <2> QED BY <2>4, <2>5
<1> QED BY <1>1, PipesAlways, PTL

\* What comes out of a pipe is what went in, in order and nothing twice.
THEOREM PipesKeepOrder == PipesSpec => []ReadsInOrder
<1>1. PipesInv => ReadsInOrder
  <2> SUFFICES ASSUME PipesInv, slips \intersect {"overrun", "shared"} = {},
                      "spuriousWake" \notin faults, NEW n \in PipeId
               PROVE  IsPrefix(received[n], sent[n])
    BY DEF ReadsInOrder
  <2>1. /\ currentR[n] \in Nat /\ currentW[n] \in Nat
        /\ sent[n] \in Seq(Chars) /\ received[n] \in Seq(Chars \union {Junk})
        /\ Len(sent[n]) = currentW[n] /\ Len(received[n]) = currentR[n]
    BY DEF PipesInv, PipeTypes
  <2>2. currentR[n] <= currentW[n] /\ \A i \in 1..currentR[n] : received[n][i] = sent[n][i]
    BY DEF PipesInv, OrderInv, InOrder
  <2>3. SubSeq(received[n], 1, currentR[n]) = SubSeq(sent[n], 1, currentR[n])
    BY <2>1, <2>2
  <2> QED BY <2>1, <2>2, <2>3 DEF IsPrefix
<1> QED BY <1>1, PipesAlways, PTL
=============================================================================
