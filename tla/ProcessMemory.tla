---------------------------- MODULE ProcessMemory ----------------------------
(***************************************************************************)
(* What a process holds of the heap and what its end gives back, in the    *)
(* build made with FREE_EXIT: scheduler.c (enqueueProcess, kill,           *)
(* processMallocs, processFrees) and system calls 8 and 9.                 *)
(*                                                                         *)
(* Each system call runs with interrupts off and is one step; which process*)
(* runs next is left open.  Of what a process is made of, the stack and    *)
(* the fd of its creator are kept; name, and an fd the kernel makes itself,*)
(* are allocated and freed with the stack.                                 *)
(*                                                                         *)
(* The shell mallocs the fd it passes, so that it is registered as the     *)
(* shell's, and kill of the command frees it.  The shell goes on           *)
(* registering a block that is free, or by then another's, and would free  *)
(* it again at its own end.                                                *)
(*                                                                         *)
(* mmRegs is a local array of enqueueProcess(), so that it lies below the  *)
(* stack pointer of the process that called it, in the same place for all  *)
(* that process creates, and whatever that process does next may overwrite *)
(* it.                                                                     *)
(***************************************************************************)
EXTENDS Integers, FiniteSets

CONSTANTS
  Pids, Blocks,
  Boot,          \* the kernel's own stack, on which the first process is made
  NULL,
  MAX_MALLOCS,   \* 40
  MaxSlips       \* bound: how many kinds of slips a behaviour has

MemoryAssumption ==
  /\ Boot \notin Pids /\ NULL \notin Blocks \union Pids \union {Boot}
  /\ MAX_MALLOCS \in Nat \ {0} /\ MaxSlips \in Nat

VARIABLES
  owner,     \* who a block was given to, NULL when it is free
  state,     \* "none", "READY", "DEAD" or "gone", out of the list
  creator,   \* whose stack mmRegs lies in
  bPointer,  \* the block of the stack
  fd,        \* the block the creator passed, NULL when the kernel made one
  mmRegs,    \* the array in the stack of each creator
  mmRegsQty,
  given,     \* history: the blocks passed as fd
  slips      \* history: what voided one of the guarantees

vars == <<owner, state, creator, bPointer, fd, mmRegs, mmRegsQty, given, slips>>

Free == {b \in Blocks : owner[b] = NULL}
Registered(p) == {mmRegs[creator[p]][i] : i \in 0..(mmRegsQty[p] - 1)}

Unused == [i \in 0..(MAX_MALLOCS - 1) |-> NULL]

Init ==
  \E first \in Pids, b \in Blocks :
    /\ owner = [x \in Blocks |-> IF x = b THEN first ELSE NULL]
    /\ state = [p \in Pids |-> IF p = first THEN "READY" ELSE "none"]
    /\ creator = [p \in Pids |-> Boot]
    /\ bPointer = [p \in Pids |-> IF p = first THEN b ELSE NULL]
    /\ fd = [p \in Pids |-> NULL]
    /\ mmRegs = [c \in Pids \union {Boot} |-> Unused]
    /\ mmRegsQty = [p \in Pids |-> 0]
    /\ given = {} /\ slips = {}

\* vPortFree: NULL and what is not allocated are let pass.
vPortFree(bs) == owner' = [b \in Blocks |-> IF b \in bs THEN NULL ELSE owner[b]]

-----------------------------------------------------------------------------
\* p creates q, and may pass it a block of its own as fd.  The allocations are not
\* tested: with no block left the kernel writes through a null pointer, which is
\* not followed.
enqueueProcess(p, q) ==
  /\ state[p] = "READY" /\ state[q] = "none"
  /\ \E b \in Free :
       /\ owner' = [owner EXCEPT ![b] = q]
       /\ bPointer' = [bPointer EXCEPT ![q] = b]
  /\ \E f \in {NULL} \union ({b \in Blocks : owner[b] = p} \ {bPointer[p]}) :
       /\ fd' = [fd EXCEPT ![q] = f]
       /\ given' = given \union ({f} \ {NULL})
  /\ state' = [state EXCEPT ![q] = "READY"]
  /\ creator' = [creator EXCEPT ![q] = p]
  /\ mmRegsQty' = [mmRegsQty EXCEPT ![q] = 0]
  /\ slips' = slips \union
                (IF \E s \in Pids : state[s] = "READY" /\ creator[s] = p THEN {"shared"} ELSE {})
  /\ UNCHANGED mmRegs

\* p runs on, or is interrupted, and its stack grows over the array one of its
\* children uses.  Bound: once.
Overwrite(p) ==
  /\ state[p] = "READY" /\ "overwritten" \notin slips
  /\ \E s \in Pids : state[s] = "READY" /\ creator[s] = p
  /\ \E i \in 0..(MAX_MALLOCS - 1), v \in Blocks \union {NULL} :
       mmRegs' = [mmRegs EXCEPT ![p][i] = v]
  /\ slips' = slips \union {"overwritten"}
  /\ UNCHANGED <<owner, state, creator, bPointer, fd, mmRegsQty, given>>

\* A full array keeps its last place unused and the block goes unregistered.
processMallocs(p, ptr) ==
  IF mmRegsQty[p] + 1 = MAX_MALLOCS
  THEN slips' = slips \union {"full"} /\ UNCHANGED <<mmRegs, mmRegsQty>>
  ELSE /\ mmRegs' = [mmRegs EXCEPT ![creator[p]][mmRegsQty[p]] = ptr]
       /\ mmRegsQty' = [mmRegsQty EXCEPT ![p] = @ + 1]
       /\ UNCHANGED slips

sys_malloc(p) ==
  /\ state[p] = "READY"
  /\ \E ptr \in (IF Free = {} THEN {NULL} ELSE Free) :
       /\ owner' = [b \in Blocks |-> IF b = ptr THEN p ELSE owner[b]]
       /\ processMallocs(p, ptr)
  /\ UNCHANGED <<state, creator, bPointer, fd, given>>

\* The first place that holds ptr is closed by moving the later ones down.
\* Mutant: the places are not moved.
processFrees_mutant(p, ptr) ==
  IF ptr \in Registered(p)
  THEN mmRegsQty' = [mmRegsQty EXCEPT ![p] = @ - 1] /\ UNCHANGED mmRegs
  ELSE UNCHANGED <<mmRegs, mmRegsQty>>
processFrees(p, ptr) ==
  LET last == mmRegsQty[p] - 1
      regs == mmRegs[creator[p]]
      moved == [i \in 0..(MAX_MALLOCS - 1) |->
                  IF i > last \/ \A j \in 0..i : regs[j] # ptr THEN regs[i]
                  ELSE IF i = last THEN NULL ELSE regs[i + 1]]
  IN  IF ptr \in Registered(p)
      THEN /\ mmRegs' = [mmRegs EXCEPT ![creator[p]] = moved]
           /\ mmRegsQty' = [mmRegsQty EXCEPT ![p] = last]
      ELSE UNCHANGED <<mmRegs, mmRegsQty>>

\* p frees a pointer it has: its own, one it was handed, or one gone stale.
sys_free(p, ptr) ==
  /\ state[p] = "READY"
  /\ \A q \in Pids : state[q] = "READY" => bPointer[q] # ptr
  /\ processFrees(p, ptr)
  /\ vPortFree({ptr})
  /\ slips' = slips \union (IF owner[ptr] = p THEN {} ELSE {"notOwn"})
  /\ UNCHANGED <<state, creator, bPointer, fd, given>>

\* exit() is kill() of oneself.  fd is freed whoever allocated it.  A process
\* that is dead and still in the list is found again and its blocks are freed a
\* second time.
\* Mutant: the stack of the process that kills is freed.
kill_mutant(p, q) ==
  /\ state[p] = "READY" /\ state[q] \in {"READY", "DEAD"}
  /\ vPortFree({bPointer[p], fd[q]} \union Registered(q))
  /\ state' = [state EXCEPT ![q] = "DEAD"]
  /\ slips' = slips \union (IF state[q] = "DEAD" THEN {"killDead"} ELSE {})
  /\ UNCHANGED <<creator, bPointer, fd, mmRegs, mmRegsQty, given>>
kill(p, q) ==
  /\ state[p] = "READY" /\ state[q] \in {"READY", "DEAD"}
  /\ vPortFree({bPointer[q], fd[q]} \union Registered(q))
  /\ state' = [state EXCEPT ![q] = "DEAD"]
  /\ slips' = slips \union (IF state[q] = "DEAD" THEN {"killDead"} ELSE {})
  /\ UNCHANGED <<creator, bPointer, fd, mmRegs, mmRegsQty, given>>

\* The scheduler takes a dead process out of the list and frees its record;
\* an array nobody uses is forgotten.
dequeue(q) ==
  /\ state[q] = "DEAD"
  /\ state' = [state EXCEPT ![q] = "gone"]
  /\ creator' = [creator EXCEPT ![q] = Boot]
  /\ bPointer' = [bPointer EXCEPT ![q] = NULL]
  /\ fd' = [fd EXCEPT ![q] = NULL]
  /\ mmRegsQty' = [mmRegsQty EXCEPT ![q] = 0]
  /\ mmRegs' = IF \E s \in Pids \ {q} : creator[s] = creator[q] THEN mmRegs
               ELSE [mmRegs EXCEPT ![creator[q]] = Unused]
  /\ UNCHANGED <<owner, given, slips>>

Next ==
  /\ \/ \E p \in Pids : sys_malloc(p) \/ Overwrite(p) \/ dequeue(p)
     \/ \E p \in Pids, ptr \in Blocks : sys_free(p, ptr)
     \/ \E p, q \in Pids : enqueueProcess(p, q) \/ kill(p, q)
  /\ Cardinality(slips') <= MaxSlips

Spec == Init /\ [][Next]_vars

-----------------------------------------------------------------------------
\* Through any order of mallocs and frees the array registers every block the
\* process holds, and besides these only blocks that were passed as fd and freed
\* with the process they were passed to; unless it was overwritten, shared, full
\* or a block was freed by someone else.
BooksExact ==
  slips = {} =>
    \A p \in Pids : state[p] = "READY" =>
      LET held == {b \in Blocks : owner[b] = p} \ {bPointer[p]}
      IN  /\ held \subseteq Registered(p)
          /\ Registered(p) \ {NULL} \subseteq held \union given

\* The end of a process frees no block of another, its stack included, but one
\* that was passed as fd, then or earlier; unless the array was overwritten or
\* shared, a block was freed by who does not own it, or a dead process is killed
\* again.
FreesOnlyOwn ==
  slips' \subseteq {"full"} =>
    \A q \in Pids : state[q] = "READY" /\ state'[q] = "DEAD" =>
      \A b \in Blocks \ given : owner'[b] # owner[b] => owner[b] = q

OnlyOwnFreed == [][FreesOnlyOwn]_vars
=============================================================================
