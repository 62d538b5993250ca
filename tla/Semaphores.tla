----------------------------- MODULE Semaphores -----------------------------
(***************************************************************************)
(* Named counting semaphores: Kernel/utils/sem.c on top of the scheduler.  *)
(*                                                                         *)
(* semWait() and semPost() are system calls and run with interrupts off,   *)
(* except that semWait() on a zero semaphore blocks the caller in the      *)
(* middle of the call: the rest of the call (value--) runs when the        *)
(* scheduler next picks the process.  waitingOn[p] is that pending rest.   *)
(* The spin lock semLock is released before every switch and is therefore  *)
(* never found taken; it is left out.                                      *)
(***************************************************************************)
EXTENDS Scheduler

CONSTANTS
  Sems,         \* the names of the semaphores
  Mutexes,      \* those used as locks: created with 1, posted by who waited
  SemMod,       \* 2^32 in the code: value is an unsigned int
  NoSem, Freed

ASSUME SemaphoresAssumption ==
  /\ Mutexes \subseteq Sems
  /\ SemMod \in Nat /\ SemMod >= 2
  /\ NoSem \notin Sems /\ Freed \notin Sems /\ NoSem # Freed

VARIABLES
  isOpen,       \* in the list at firstSem
  value,
  entering,     \* the queue of pids entering .. last
  waitingOn,    \* the semaphore p is blocked on inside semWait
  holding,      \* history: the semaphores p waited for and has not posted
  faults        \* history: events that void one of the guarantees below

semVars == <<isOpen, value, entering, waitingOn, holding, faults>>
allVars == <<vars, semVars>>

SemInit ==
  /\ Init
  /\ isOpen = [s \in Sems |-> FALSE]
  /\ value = [s \in Sems |-> 0]
  /\ entering = [s \in Sems |-> << >>]
  /\ waitingOn = [p \in Pid |-> NoSem]
  /\ holding = [p \in Pid |-> {}]
  /\ faults = {}

\* The current process executes its own code, and not the rest of a semWait.
InUserCode == mode = "user" /\ waitingOn[current] = NoSem

SemCalling(s) == InUserCode /\ current # IDLE_PID /\ isOpen[s]

-----------------------------------------------------------------------------
\* Mutant: opening a semaphore again resets it.
semOpen_mutant(s) ==
  /\ InUserCode /\ current # IDLE_PID
  /\ isOpen' = [isOpen EXCEPT ![s] = TRUE]
  /\ value' = [value EXCEPT ![s] = IF s \in Mutexes THEN 1 ELSE 0]
  /\ UNCHANGED <<vars, entering, waitingOn, holding, faults>>

(* A semaphore that exists already keeps its value.  The caller of the     *)
(* first semOpen chooses it: 1 for a mutex, 0 for the others.              *)
semOpen(s) ==
  /\ InUserCode /\ current # IDLE_PID
  /\ ~isOpen[s]
  /\ isOpen' = [isOpen EXCEPT ![s] = TRUE]
  /\ value' = [value EXCEPT ![s] = IF s \in Mutexes THEN 1 ELSE 0]
  /\ UNCHANGED <<vars, entering, waitingOn, holding, faults>>

\* The queue is freed and whoever was in it stays blocked.
semClose(s) ==
  /\ SemCalling(s)
  /\ isOpen' = [isOpen EXCEPT ![s] = FALSE]
  /\ value' = [value EXCEPT ![s] = 0]
  /\ entering' = [entering EXCEPT ![s] = << >>]
  /\ waitingOn' = [p \in Pid |-> IF waitingOn[p] = s THEN Freed ELSE waitingOn[p]]
  /\ holding' = [p \in Pid |-> holding[p] \ {s}]
  /\ faults' = IF entering[s] # << >> THEN faults \union {"closedWaiter"} ELSE faults
  /\ UNCHANGED vars

\* A process does not wait for a mutex that it holds.
semWait(s) ==
  /\ SemCalling(s)
  /\ s \in Mutexes => s \notin holding[current]
  /\ \/ /\ value[s] > 0
        /\ value' = [value EXCEPT ![s] = @ - 1]
        /\ holding' = [holding EXCEPT ![current] = @ \union {s}]
        /\ UNCHANGED <<vars, entering, waitingOn>>
     \/ /\ value[s] = 0
        /\ entering' = [entering EXCEPT ![s] = Append(@, current)]
        /\ waitingOn' = [waitingOn EXCEPT ![current] = s]
        /\ block(current)
        /\ UNCHANGED <<procs, ppid, priority, children, cpuVars, pids, sleeping, lapses>>
        /\ UNCHANGED <<value, holding>>
  /\ UNCHANGED <<isOpen, faults>>

\* The rest of semWait, when the scheduler picks the waiter again.  On a
\* semaphore closed meanwhile, it decrements memory that was freed.
semWaitResume ==
  /\ mode = "user"
  /\ waitingOn[current] # NoSem
  /\ LET s == waitingOn[current]
     IN  IF s = Freed
         THEN UNCHANGED <<value, holding>>
         ELSE /\ value' = [value EXCEPT ![s] = (@ - 1) % SemMod]
              /\ holding' = [holding EXCEPT ![current] = @ \union {s}]
  /\ waitingOn' = [waitingOn EXCEPT ![current] = NoSem]
  /\ UNCHANGED <<vars, isOpen, entering, faults>>

\* Mutant: nobody is woken.
semPost_mutant(s) ==
  /\ SemCalling(s)
  /\ s \in Mutexes => s \in holding[current]
  /\ value[s] # SemMod \div 2
  /\ value' = [value EXCEPT ![s] = (@ + 1) % SemMod]
  /\ holding' = [holding EXCEPT ![current] = @ \ {s}]
  /\ UNCHANGED <<vars, isOpen, entering, waitingOn, faults>>

\* The first of the queue is to run at once; unblockFirst does nothing when it
\* is no longer alive, and the caller goes on.
semPost(s) ==
  /\ SemCalling(s)
  /\ s \in Mutexes => s \in holding[current]
  /\ value[s] # SemMod \div 2          \* bound: the posts nobody waited for
  /\ value' = [value EXCEPT ![s] = (@ + 1) % SemMod]
  /\ holding' = [holding EXCEPT ![current] = @ \ {s}]
  /\ \/ /\ entering[s] = << >>
        /\ UNCHANGED <<vars, entering>>
     \/ /\ entering[s] # << >>
        /\ entering' = [entering EXCEPT ![s] = Tail(@)]
        /\ IF Alive(Head(entering[s]))
           THEN /\ unblockFirst(Head(entering[s]))
                /\ UNCHANGED <<ppid, priority, children, cpuVars, pids, sleeping, lapses>>
           ELSE UNCHANGED vars
  /\ UNCHANGED <<isOpen, waitingOn, faults>>

\* A step of the scheduler.  While the rest of a semWait is pending interrupts
\* are off, and only the clock may advance.  A wake-up that is not a semPost (a
\* sys_unblock, a sleep that was cut short earlier) and a kill are recorded.
SchedulerStep ==
  /\ mode = "user" /\ ~InUserCode => UNCHANGED <<procs, procVars, cpuVars, mode, scan>>
  /\ Next
  /\ waitingOn' = [p \in Pid |-> IF state'[p] = "DEAD" THEN NoSem ELSE waitingOn[p]]
  /\ holding' = [p \in Pid |-> IF state'[p] = "DEAD" THEN {} ELSE holding[p]]
  /\ faults' = faults \union
       {f \in {"spuriousWake", "killedWaiter", "killedHolder"} : \E p \in Pid :
          \/ /\ f = "spuriousWake"
             /\ waitingOn[p] # NoSem /\ state[p] # "READY" /\ state'[p] = "READY"
          \/ f = "killedWaiter" /\ waitingOn[p] # NoSem /\ state'[p] = "DEAD"
          \/ f = "killedHolder" /\ holding[p] # {} /\ state'[p] = "DEAD"}
  /\ UNCHANGED <<isOpen, value, entering>>

SemNext ==
  \/ \E s \in Sems : semOpen(s) \/ semClose(s) \/ semWait(s) \/ semPost(s)
  \/ semWaitResume
  \/ SchedulerStep

SemSpec == SemInit /\ [][SemNext]_allVars

-----------------------------------------------------------------------------
(* Properties.                                                             *)

Holders(s) == {p \in Pid : s \in holding[p]}
Queued(p, s) == {i \in 1..Len(entering[s]) : entering[s][i] = p}

\* No two processes are past semWait on a mutex, although a woken waiter takes
\* the semaphore in a step of its own, after the poster released it: value-- is
\* done without testing value again.  (A waiter woken by anything but semPost
\* breaks it.)
MutualExclusion ==
  "spuriousWake" \notin faults =>
    \A s \in Mutexes : \A p, q \in Holders(s) : p = q

\* A mutex excludes, and is never lost: whenever user code runs it is free or
\* held by exactly one process, unless its holder was killed.
MutexConserved ==
  /\ MutualExclusion
  /\ faults = {} /\ InUserCode =>
       \A s \in Mutexes : isOpen[s] => value[s] + Cardinality(Holders(s)) = 1

\* The semaphore given by a post goes to the waiter before any process can run
\* code of its own: unblockFirst leaves no room for barging, and it relinks the
\* process list without cutting it (mode "corrupt").
HandoffIsImmediate ==
  "spuriousWake" \notin faults =>
    /\ InUserCode => \A p \in Pid : waitingOn[p] # NoSem => state[p] # "READY"
    /\ mode # "corrupt"

\* No wake-up is lost: while a process runs, no one is queued on a semaphore
\* that is available, and who is blocked in semWait is in the queue of that
\* semaphore, once, so that some later post will find it.
WaitersAreServed ==
  "spuriousWake" \notin faults =>
    /\ \A p \in Pid, s \in Sems :
         waitingOn[p] = s /\ state[p] = "BLOCKED" => Cardinality(Queued(p, s)) = 1
    /\ "killedWaiter" \notin faults /\ InUserCode =>
         \A s \in Sems : value[s] > 0 => entering[s] = << >>
=============================================================================
