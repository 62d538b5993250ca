---------------------------- MODULE Philosophers ----------------------------
(***************************************************************************)
(* The dining philosophers of the shell: shell/commands/phylo.c.  Every    *)
(* philosopher is a process, and so is phylo() itself, which adds and      *)
(* removes philosophers as keys are pressed.  This is user code: it can be *)
(* preempted between any two statements, and the ring is one structure in  *)
(* memory that all of them share.                                          *)
(*                                                                         *)
(* The semaphores are abstract here: a post hands the semaphore to the     *)
(* first of the queue before anyone else can take it, which is what module *)
(* Semaphores shows of sem.c (HandoffIsImmediate).  A killed process stays *)
(* in the queue; the post that reaches it wakes nobody and leaves the      *)
(* semaphore free.                                                         *)
(*                                                                         *)
(* The command is modelled from its first run since the shell was loaded.  *)
(* Its globals keep their values, and a second run keeps the firstPhil of  *)
(* the first one (phylo.c:149), a structure that end() freed or that the   *)
(* philosophers of the first run still use: that run is not modelled, nor  *)
(* are the keys once removePhilo() has freed firstPhil itself.             *)
(***************************************************************************)
EXTENDS Integers, Sequences, SequencesExt

CONSTANTS
  MAX_PHILO_SIZE,   \* the largest argument accepted
  STARTING,         \* how many without an argument
  Args,             \* the arguments the command is started with; NoArg for none
  NoArg,
  Keys,             \* the keys pressed: a subset of {"a", "r", "q", "EOF"}
  MaxPhils          \* bound: philosopher_t structures ever allocated

ASSUME PhilosophersAssumption ==
  /\ MAX_PHILO_SIZE \in Nat /\ STARTING \in Nat \ {0} /\ MaxPhils \in Nat
  /\ Args \subseteq Int \union {NoArg} /\ NoArg \notin Int
  /\ Keys \subseteq {"a", "r", "q", "EOF"}

VARIABLES
  argv,         \* the argument of the command
  state,        \* EATING, HUNGRY or THINKING
  left, right,  \* the links of each philosopher_t
  firstPhil,
  count,        \* structures allocated so far: 1..count
  alive,        \* the process exists
  pc,           \* what each process is about to do
  granting,     \* the philosopher that a test() in progress found able to eat
  mutex, queue, \* the semaphore "Mutex": its value and the processes in semWait
  sem,          \* the value of each philosopher's own semaphore
  del,          \* the philosopher that phylo() is adding, removing or freeing
  lapses        \* history: what removePhilo(), addPhilo() and end() run into

vars == <<argv, state, left, right, firstPhil, count, alive, pc, granting, mutex, queue, sem,
          del, lapses>>
ringVars == <<argv, left, right, firstPhil, count>>

Phils == 1..MaxPhils
NULL == 0
PHYLO == MaxPhils + 1      \* the process that runs phylo()
Procs == Phils \union {PHYLO}

\* Where semWait(mutex) is called, and what follows it.
Entered == [asleep |-> "hungry", eating |-> "putLeft", quit |-> "free"]
Critical == {"hungry", "grantSelf", "leaveTake", "putLeft", "grantLeft", "putRight",
             "grantRight", "leavePut"}
Lapses == {"killedHolder", "killedWaiter", "killedEater", "joinedEaters", "relinkRace",
           "splitPair", "removedLast", "reused"}

Init ==
  /\ argv \in Args
  /\ state = [p \in Phils |-> "THINKING"]
  /\ left = [p \in Phils |-> NULL] /\ right = [p \in Phils |-> NULL]
  /\ firstPhil = NULL /\ count = 0 /\ del = NULL
  /\ alive = [p \in Procs |-> p = PHYLO]
  /\ pc = [p \in Procs |-> IF p = PHYLO THEN "start" ELSE "asleep"]
  /\ granting = [p \in Phils |-> NULL]
  /\ mutex = 1 /\ queue = << >>
  /\ sem = [p \in Phils |-> 0]
  /\ lapses = {}

Goto(p, l) == pc' = [pc EXCEPT ![p] = l]

-----------------------------------------------------------------------------
(* phylo(): the ring is linked before any philosopher is loaded.           *)

Accepted(arg) == arg >= 1 /\ arg <= MAX_PHILO_SIZE

phylo ==
  /\ pc[PHYLO] = "start"
  /\ IF argv # NoArg /\ ~Accepted(argv)
     THEN /\ Goto(PHYLO, "refused")
          /\ UNCHANGED <<left, right, firstPhil, count, alive>>
     ELSE LET n == IF argv = NoArg THEN STARTING ELSE argv
          IN  /\ n <= MaxPhils
              /\ count' = n
              /\ firstPhil' = 1
              /\ left' = [p \in Phils |-> IF p \in 2..n THEN p - 1 ELSE IF p = 1 THEN n ELSE NULL]
              /\ right' = [p \in Phils |-> IF p < n THEN p + 1 ELSE IF p = n THEN 1 ELSE NULL]
              /\ alive' = [p \in Procs |-> p <= n \/ p = PHYLO]
              /\ Goto(PHYLO, "keys")
  /\ UNCHANGED <<argv, state, granting, mutex, queue, sem, del, lapses>>

-----------------------------------------------------------------------------
(* The semaphore "Mutex".                                                  *)

semWaitMutex(p) ==
  /\ alive[p] /\ pc[p] \in DOMAIN Entered /\ p \notin ToSet(queue)
  /\ IF mutex > 0
     THEN mutex' = mutex - 1 /\ Goto(p, Entered[pc[p]]) /\ UNCHANGED queue
     ELSE queue' = Append(queue, p) /\ UNCHANGED <<mutex, pc>>
  /\ UNCHANGED <<state, ringVars, alive, granting, sem, del, lapses>>

\* p posts it and goes on at l.
semPostMutex(p, l) ==
  LET woken == queue # << >> /\ alive[Head(queue)]
  IN  /\ queue' = IF queue = << >> THEN queue ELSE Tail(queue)
      /\ mutex' = IF woken THEN mutex ELSE mutex + 1
      /\ pc' = IF woken THEN [pc EXCEPT ![p] = l, ![Head(queue)] = Entered[@]]
               ELSE [pc EXCEPT ![p] = l]

-----------------------------------------------------------------------------
(* A philosopher.                                                          *)

At(p, l) == alive[p] /\ pc[p] = l

\* Mutant: only one side is looked at.
CanEat_mutant(p, st) == st[p] = "HUNGRY" /\ st[left[p]] # "EATING"

\* The condition of test(), on the states st.
CanEat(p, st) ==
  st[p] = "HUNGRY" /\ st[left[p]] # "EATING" /\ st[right[p]] # "EATING"

\* The links are in the middle of a change.
Torn == pc[PHYLO] \in {"addLeft", "removeLeft"}
Races == IF Torn THEN lapses \union {"relinkRace"} ELSE lapses

\* test(q), up to its if; grant is the rest of it, and after what follows it.
test(p, q, st, grant, after) ==
  /\ state' = st
  /\ granting' = [granting EXCEPT ![p] = IF CanEat(q, st) THEN q ELSE NULL]
  /\ Goto(p, IF CanEat(q, st) THEN grant ELSE after)
  /\ lapses' = Races
  /\ UNCHANGED <<ringVars, alive, mutex, queue, sem, del>>

Hungry(p) ==
  At(p, "hungry") /\ test(p, p, [state EXCEPT ![p] = "HUNGRY"], "grantSelf", "leaveTake")

\* Mutant: a philosopher that finishes looks at no neighbour.
PutLeft_mutant(p) ==
  At(p, "putLeft") /\ test(p, p, [state EXCEPT ![p] = "THINKING"], "leavePut", "leavePut")

PutLeft(p) ==
  At(p, "putLeft") /\ test(p, left[p], [state EXCEPT ![p] = "THINKING"], "grantLeft", "putRight")

PutRight(p) == At(p, "putRight") /\ test(p, right[p], state, "grantRight", "leavePut")

\* The rest of test(): the state, and the post on which the philosopher waits.
After == [grantSelf |-> "leaveTake", grantLeft |-> "putRight", grantRight |-> "leavePut"]
Grant(p) ==
  /\ alive[p] /\ pc[p] \in DOMAIN After
  /\ state' = [state EXCEPT ![granting[p]] = "EATING"]
  /\ sem' = [sem EXCEPT ![granting[p]] = @ + 1]
  /\ granting' = [granting EXCEPT ![p] = NULL]
  /\ Goto(p, After[pc[p]])
  /\ UNCHANGED <<ringVars, alive, mutex, queue, del, lapses>>

Leave(p) ==
  /\ \/ At(p, "leaveTake") /\ semPostMutex(p, "ownSem")
     \/ At(p, "leavePut") /\ semPostMutex(p, "asleep")
  /\ UNCHANGED <<state, ringVars, alive, granting, sem, del, lapses>>

\* semWait(phil->sem); only its owner waits on it.
OwnSem(p) ==
  /\ At(p, "ownSem") /\ sem[p] > 0
  /\ sem' = [sem EXCEPT ![p] = @ - 1]
  /\ Goto(p, "eating")
  /\ UNCHANGED <<state, ringVars, alive, granting, mutex, queue, del, lapses>>

\* One turn of the loop is sleep, take_fork, sleep, put_fork.
philosopher(p) ==
  semWaitMutex(p) \/ Hungry(p) \/ PutLeft(p) \/ PutRight(p) \/ Grant(p) \/ Leave(p) \/ OwnSem(p)

-----------------------------------------------------------------------------
(* phylo() on a key.  It changes the links without the mutex, which is a   *)
(* race when a philosopher is between its tests.                           *)

Key(k, l) == k \in Keys /\ pc[PHYLO] = "keys" /\ Goto(PHYLO, l)

InCritical == \E p \in Phils : alive[p] /\ pc[p] \in Critical
RelinkLapse == IF InCritical THEN {"relinkRace"} ELSE {}

\* addPhilo: the links of the new structure, then the first of the old links.
addPhilo ==
  /\ Key("a", "addLeft")
  /\ "removedLast" \notin lapses
  /\ count < MaxPhils
  /\ LET new == count + 1
     IN  /\ count' = new /\ del' = new
         /\ left' = [left EXCEPT ![new] = left[firstPhil]]
         /\ right' = [right EXCEPT ![new] = firstPhil, ![left[firstPhil]] = new]
  /\ lapses' = lapses \union RelinkLapse
  /\ UNCHANGED <<argv, state, firstPhil, alive, granting, mutex, queue, sem>>

\* The second of the old links, and the process.  If one of the two neighbours
\* is eating and the other hungry, the first will not look at the second when
\* it finishes.
AddLoad ==
  /\ pc[PHYLO] = "addLeft" /\ Goto(PHYLO, "keys")
  /\ left' = [left EXCEPT ![firstPhil] = del]
  /\ alive' = [alive EXCEPT ![del] = TRUE]
  /\ del' = NULL
  /\ lapses' = lapses \union RelinkLapse \union
       (IF {state[left[del]], state[firstPhil]} = {"EATING", "HUNGRY"} THEN {"splitPair"} ELSE {})
  /\ UNCHANGED <<argv, state, right, firstPhil, count, granting, mutex, queue, sem>>

\* removePhilo takes the left neighbour of the first one.
removePhilo ==
  /\ Key("r", "removeLeft")
  /\ "removedLast" \notin lapses
  /\ del' = left[firstPhil]
  /\ right' = [right EXCEPT ![left[del']] = right[del']]
  /\ lapses' = lapses \union RelinkLapse
  /\ UNCHANGED <<argv, state, left, firstPhil, count, alive, granting, mutex, queue, sem>>

RemoveUnlink ==
  /\ pc[PHYLO] = "removeLeft" /\ Goto(PHYLO, "removeFree")
  /\ left' = [left EXCEPT ![right[del]] = left[del]]
  /\ lapses' = lapses \union RelinkLapse \union
       (IF left[del] # right[del] /\ state[left[del]] = "EATING" /\ state[right[del]] = "EATING"
        THEN {"joinedEaters"} ELSE {})
  /\ UNCHANGED <<argv, state, right, firstPhil, count, alive, granting, mutex, queue, sem, del>>

\* removePhilo() and freePhilo() close the semaphore and free the structure before
\* they read what they need of it: the pid, the other blocks, the next one.
Freed(l, m) ==
  /\ pc[PHYLO] = l /\ Goto(PHYLO, m)
  /\ UNCHANGED <<state, ringVars, alive, granting, mutex, queue, sem, del, lapses>>

RemoveFree == Freed("removeFree", "removeKill")

\* Freed memory keeps its contents until another sys_malloc, or a semWait() that
\* queues, is given it.  Then the pid that is killed is anybody's or nobody's, and
\* the next structure any word: what phylo() does with it is not followed.
Reused ==
  /\ \E v \in Procs \union {NULL} : alive' = [p \in Procs |-> alive[p] /\ p # v]
  /\ Goto(PHYLO, "astray")
  /\ lapses' = lapses \union {"reused"}

KillDel == alive' = [alive EXCEPT ![del] = FALSE]

\* The process is killed, wherever it is.
RemoveKill ==
  /\ pc[PHYLO] = "removeKill"
  /\ \/ /\ KillDel /\ Goto(PHYLO, "keys")
        /\ lapses' = lapses \union {l \in Lapses :
             \/ l = "killedHolder" /\ pc[del] \in Critical
             \/ l = "killedWaiter" /\ del \in ToSet(queue)
             \/ l = "killedEater" /\ state[del] = "EATING"
             \/ l = "removedLast" /\ del = firstPhil}
     \/ Reused
  /\ del' = NULL
  /\ UNCHANGED <<state, ringVars, granting, mutex, queue, sem>>

\* q: end() waits for the mutex, then frees and kills them one by one.
Quit ==
  /\ "removedLast" \notin lapses
  /\ Key("q", "quit")
  /\ del' = right[firstPhil]
  /\ UNCHANGED <<state, ringVars, alive, granting, mutex, queue, sem, lapses>>

\* freePhilo up to its frees, in the loop of end() and after it.
FreeInLoop == Freed("free", "freeKill")
FreeLast == Freed("last", "lastKill")

\* Mutant: the loop of end() is not followed by the first one.
freePhilo_mutant ==
  /\ pc[PHYLO] \in {"freeKill", "lastKill"}
  /\ \/ /\ KillDel
        /\ Goto(PHYLO, IF right[del] = firstPhil THEN "leave" ELSE "free")
        /\ UNCHANGED lapses
     \/ Reused
  /\ del' = right[del]
  /\ UNCHANGED <<state, ringVars, granting, mutex, queue, sem>>

\* The kill of freePhilo and, in the loop, the next one: do ... while from the
\* second to the first, then the first; a single one is freed and killed twice.
freePhilo ==
  /\ pc[PHYLO] \in {"freeKill", "lastKill"}
  /\ \/ /\ KillDel
        /\ Goto(PHYLO, IF pc[PHYLO] = "lastKill" THEN "leave"
                       ELSE IF right[del] = firstPhil THEN "last" ELSE "free")
        /\ UNCHANGED lapses
     \/ Reused
  /\ del' = right[del]
  /\ UNCHANGED <<state, ringVars, granting, mutex, queue, sem>>

\* The post of end() and its exit, or the exit at the end of the keys, which
\* leaves the philosophers running.
Exit ==
  /\ \/ pc[PHYLO] = "leave" /\ semPostMutex(PHYLO, "exited")
     \/ Key("EOF", "gone") /\ UNCHANGED <<mutex, queue>>
  /\ alive' = [alive EXCEPT ![PHYLO] = FALSE]
  /\ UNCHANGED <<state, ringVars, granting, sem, del, lapses>>

\* phylo() goes on with what it does on a key.
Working ==
  \/ AddLoad \/ RemoveUnlink \/ RemoveFree \/ RemoveKill
  \/ FreeInLoop \/ FreeLast \/ freePhilo \/ (pc[PHYLO] = "leave" /\ Exit) \/ semWaitMutex(PHYLO)

Next ==
  \/ phylo
  \/ \E p \in Phils : philosopher(p)
  \/ semWaitMutex(PHYLO)
  \/ addPhilo \/ AddLoad \/ removePhilo \/ RemoveUnlink \/ RemoveFree \/ RemoveKill
  \/ Quit \/ FreeInLoop \/ FreeLast \/ freePhilo \/ Exit

Spec == Init /\ [][Next]_vars

\* The scheduler starves no ready process (MCLiveness, ReadyRunsAwake) and every
\* sleeper wakes (SleeperWakes); nobody has to press a key.
FairSpec == Spec /\ (\A p \in Phils : WF_vars(philosopher(p))) /\ WF_vars(Working)

-----------------------------------------------------------------------------
(* Properties.                                                             *)

\* No two neighbours eat at the same time, whatever is added or removed around
\* them, unless a removal joined two that were eating, a change of the links met a
\* philosopher between its tests, or a wrong process was killed.
NeighboursNeverEat ==
  lapses \intersect {"joinedEaters", "relinkRace", "reused"} = {} =>
    \A p, q \in Phils : /\ p # q /\ alive[p] /\ alive[q]
                        /\ right[p] = q /\ left[q] = p
                        => ~(state[p] = "EATING" /\ state[q] = "EATING")

Stuck(p) == p \in ToSet(queue) \/ (pc[p] = "ownSem" /\ sem[p] = 0)

\* The philosophers are never all waiting for each other, unless removePhilo()
\* killed one that was eating, or in the mutex or its queue, or addPhilo() came
\* between one that was eating and one that waited for it: phylo() takes no lock
\* before it kills or relinks.
NotAllStuck ==
  lapses \subseteq {"joinedEaters", "removedLast"} =>
    \/ \E p \in Procs : alive[p] /\ pc[p] # "keys" /\ ~Stuck(p)
    \/ \A p \in Phils : ~alive[p]

\* The dinner goes on: no two neighbours eat at once and not everybody waits.
DinnerGoesOn == NeighboursNeverEat /\ NotAllStuck

\* Among up to three philosophers whoever is hungry eats, or is killed by end() or
\* removePhilo(), also while others come and go: a finished one looks at both
\* neighbours, its left one first.  A removal or an addition in the wrong moment
\* voids it.  (Among four a philosopher can starve, its neighbours eating in turns.)
HungryEats ==
  \A p \in Phils :
    state[p] = "HUNGRY" ~> state[p] = "EATING" \/ ~alive[p] \/ lapses # {} \/ count > 3

\* end() ends: it gets the mutex and goes once round a ring that it has freed behind
\* it, and leaves no philosopher, as long as nobody is given what it freed before it
\* has read the pid and the link there.
EndLeavesNobody == pc[PHYLO] = "quit" ~> (\A p \in Procs : ~alive[p]) \/ lapses # {}
=============================================================================
