-------------------------- MODULE PhilosopherProofs --------------------------
(***************************************************************************)
(* Proofs about Philosophers, for any number of philosophers and any keys. *)
(***************************************************************************)
EXTENDS Philosophers, SequenceTheorems, TLAPS

-----------------------------------------------------------------------------
(* The inductive invariant.                                                *)

PhilLabels == {"asleep", "ownSem", "eating"} \union Critical
Ends == {"free", "freeKill", "last", "lastKill", "leave"}    \* end() has the mutex
PhyloLabels == {"start", "refused", "keys", "addLeft", "removeLeft", "removeFree", "removeKill",
                "quit", "exited", "gone", "astray"} \union Ends

Labels == PhilLabels \union PhyloLabels

PcTypes ==
  /\ pc \in [Procs -> Labels] /\ pc[PHYLO] \in PhyloLabels
  /\ \A p \in Phils : pc[p] \in PhilLabels

PhilTypes ==
  /\ argv \in Args /\ PcTypes
  /\ state \in [Phils -> {"EATING", "HUNGRY", "THINKING"}]
  /\ left \in [Phils -> 0..MaxPhils] /\ right \in [Phils -> 0..MaxPhils]
  /\ count \in 0..MaxPhils /\ firstPhil \in 0..1 /\ del \in 0..MaxPhils
  /\ alive \in [Procs -> BOOLEAN]
  /\ granting \in [Phils -> 0..MaxPhils]
  /\ mutex \in {0, 1} /\ queue \in Seq(Procs)
  /\ sem \in [Phils -> {0, 1}] /\ lapses \subseteq Lapses

\* Where a process has the mutex; a killed one keeps it.
Inside == Critical \union Ends

MutexInv ==
  /\ \A p, q \in Procs : pc[p] \in Inside /\ pc[q] \in Inside => p = q
  /\ mutex = 1 => \A p \in Procs : pc[p] \notin Inside
  /\ \A i \in 1..Len(queue) : pc[queue[i]] \in {"asleep", "eating", "quit"}
  /\ \A i, j \in 1..Len(queue) : queue[i] = queue[j] => i = j

\* The state of a philosopher is the one of where it is, up to the one step that a
\* neighbour takes for it while it waits.
StateOf(p, l) ==
  /\ l \in {"asleep", "hungry"} => state[p] = "THINKING" /\ sem[p] = 0
  /\ l = "grantSelf" => state[p] = "HUNGRY" /\ sem[p] = 0 /\ granting[p] = p
  /\ l \in {"leaveTake", "ownSem"} => \/ state[p] = "HUNGRY" /\ sem[p] = 0
                                      \/ state[p] = "EATING" /\ sem[p] = 1
  /\ l \in {"eating", "putLeft"} => state[p] = "EATING" /\ sem[p] = 0
  /\ l \in {"grantLeft", "putRight", "grantRight", "leavePut"} =>
       state[p] = "THINKING" /\ sem[p] = 0
  /\ l \in {"grantSelf", "grantLeft", "grantRight"} =>
       granting[p] \in Phils /\ state[granting[p]] = "HUNGRY"

StateInv == \A p \in Phils : StateOf(p, pc[p])

\* The members of A in order of their numbers, each linked with the next one and
\* the last with the first.
Follows(p, A, r) ==
  IF r[p] = 1 THEN \A q \in A : q <= p
  ELSE r[p] \in A /\ p < r[p] /\ \A q \in A : q <= p \/ r[p] <= q

Linked(A, l, r) ==
  /\ 1 \in A
  /\ \A p \in A : /\ l[p] \in A /\ r[p] \in A /\ r[l[p]] = p /\ l[r[p]] = p
                  /\ Follows(p, A, r)

Alive == {p \in Phils : alive[p]}

\* Not allocated, or allocated and not loaded.
Fresh(p) == p > count \/ (pc[PHYLO] = "addLeft" /\ p = del)

\* A structure is linked to structures; a fresh philosopher does nothing.
RingBase ==
  /\ \A p \in Alive : p <= count
  /\ \A p \in Phils : Fresh(p) => state[p] = "THINKING" /\ pc[p] = "asleep"
  /\ \A p \in 1..count : left[p] \in 1..count /\ right[p] \in 1..count
  /\ firstPhil = 0 => count = 0
  /\ firstPhil = 1 => 1 \in 1..count

\* The ring, which keeps the first philosopher when it was removed, and what is
\* changed of it between two statements of phylo().
PhaseInv ==
  /\ pc[PHYLO] \in {"start", "refused"} <=> firstPhil = 0
  /\ pc[PHYLO] = "astray" => "reused" \in lapses
  /\ pc[PHYLO] \notin {"exited", "gone", "astray"} => alive[PHYLO]
  /\ pc[PHYLO] \in {"keys", "addLeft", "removeLeft", "removeFree", "removeKill", "quit", "gone"} =>
       alive[1] \/ "removedLast" \in lapses
  /\ pc[PHYLO] \in {"removeLeft", "removeFree", "removeKill", "quit"} => "removedLast" \notin lapses
  /\ pc[PHYLO] \in {"keys", "quit", "gone"} => Linked(Alive \union {1}, left, right)
  /\ pc[PHYLO] = "quit" => del = right[1]
  /\ pc[PHYLO] = "addLeft" =>
       /\ del = count /\ del \notin Alive \union {1} /\ del \in 1..count
       /\ left[del] = left[1] /\ right[del] = 1 /\ right[left[1]] = del
       /\ Linked(Alive \union {1}, left, [right EXCEPT ![left[1]] = 1])
  /\ pc[PHYLO] = "removeLeft" =>
       /\ del = left[1] /\ right[del] = 1 /\ right[left[del]] = 1
       /\ Linked(Alive \union {1}, left, [right EXCEPT ![left[del]] = del])
  /\ pc[PHYLO] \in {"removeFree", "removeKill"} =>
       /\ del \in Alive /\ (del = 1 => Alive = {1})
       /\ Linked((Alive \ {del}) \union {1}, left, right)
  /\ pc[PHYLO] \in {"free", "freeKill"} =>
       /\ 1 \in Alive /\ del \in Alive /\ (del = 1 => right[1] = 1)
       /\ \A q \in Alive \ {1} : del # 1 /\ del <= q /\ Follows(q, Alive, right)
  /\ pc[PHYLO] \in {"last", "lastKill"} => del = 1 /\ Alive \subseteq {1}
  /\ pc[PHYLO] \in {"leave", "exited"} => Alive = {}

RingInv == RingBase /\ PhaseInv

\* What a test() found is still true when it grants: nobody else can change the
\* states meanwhile, and nobody has changed the links.
GrantInv ==
  "relinkRace" \notin lapses =>
    \A p \in Alive : pc[p] \in {"grantSelf", "grantLeft", "grantRight"} => CanEat(granting[p], state)

\* end() does not return to the keys, nor does phylo() once it has gone astray.
Ending == pc[PHYLO] \in Ends \union {"exited", "astray"}

\* As long as nobody was killed with the mutex or in its queue, somebody alive has
\* it or it is free, and then nobody queues.
HolderInv ==
  lapses \intersect {"killedHolder", "killedWaiter"} = {} /\ ~Ending =>
    /\ \A i \in 1..Len(queue) : alive[queue[i]]
    /\ queue # << >> => mutex = 0
    /\ mutex = 0 => \E p \in Procs : alive[p] /\ pc[p] \in Inside

\* q eats next to p or is on its way to test p.
Serves(q, p) ==
  \/ state[q] = "EATING" /\ (left[q] = p \/ right[q] = p)
  \/ pc[q] \in {"grantLeft", "putRight"} /\ right[q] = p
  \/ pc[q] \in {"grantLeft", "grantRight"} /\ granting[q] = p
  \/ pc[PHYLO] = "addLeft" /\ q = left[del] /\ p = 1 /\ state[q] = "EATING"

Waits(p) == pc[p] \in {"leaveTake", "ownSem"} /\ state[p] = "HUNGRY"

\* phylo() is about to kill p, which is not in the ring any more.
Leaving(p) == pc[PHYLO] \in {"removeLeft", "removeFree", "removeKill"} /\ del = p /\ p # 1

Orderly == lapses \subseteq {"joinedEaters", "removedLast"} /\ ~Ending

\* Whoever waits is served by somebody alive; a first philosopher that was removed
\* is not in anybody's way.
ServedInv ==
  Orderly =>
    /\ \A p \in Alive : Waits(p) /\ ~Leaving(p) => \E q \in Alive : Serves(q, p)
    /\ firstPhil = 1 => alive[1] \/ state[1] = "THINKING"

PhilInv ==
  /\ PhilTypes /\ MutexInv /\ StateInv /\ RingInv
  /\ GrantInv /\ NeighboursNeverEat /\ HolderInv /\ ServedInv

-----------------------------------------------------------------------------
(* The mutex.                                                              *)

LEMMA Numbered ==
  /\ MaxPhils \in Nat /\ Phils = 1..MaxPhils /\ PHYLO = MaxPhils + 1
  /\ Procs = Phils \union {PHYLO} /\ PHYLO \notin Phils /\ 0 \notin Procs
BY PhilosophersAssumption DEF Phils, PHYLO, Procs

\* What a process does next when it gets the mutex.
Takes(l, m) ==
  \/ l = "asleep" /\ m = "hungry"
  \/ l = "eating" /\ m = "putLeft"
  \/ l = "quit" /\ m = "free"

LEMMA EnteredFacts ==
  /\ DOMAIN Entered = {"asleep", "eating", "quit"}
  /\ \A l \in DOMAIN Entered : Takes(l, Entered[l])
<1>1. DOMAIN Entered = {"asleep", "eating", "quit"}
  BY DEF Entered
<1>2. /\ Entered["asleep"] = "hungry" /\ Entered["eating"] = "putLeft"
      /\ Entered["quit"] = "free"
  BY DEF Entered
<1> QED BY <1>1, <1>2 DEF Takes

LEMMA AfterFacts ==
  /\ DOMAIN After = {"grantSelf", "grantLeft", "grantRight"}
  /\ After["grantSelf"] = "leaveTake" /\ After["grantLeft"] = "putRight"
  /\ After["grantRight"] = "leavePut"
BY DEF After

\* p asks for the mutex: it gets it, or queues.
LEMMA WaitFacts ==
  ASSUME PhilTypes, NEW p \in Procs, semWaitMutex(p)
  PROVE  /\ alive[p] /\ pc[p] \in {"asleep", "eating", "quit"}
         /\ \/ /\ mutex = 1 /\ mutex' = 0 /\ queue' = queue
               /\ \E m \in Labels : Takes(pc[p], m) /\ pc' = [pc EXCEPT ![p] = m]
            \/ /\ mutex = 0 /\ mutex' = 0 /\ pc' = pc /\ queue' = Append(queue, p)
               /\ \A i \in 1..Len(queue) : queue[i] # p
<1>1. alive[p] /\ pc[p] \in {"asleep", "eating", "quit"}
  BY EnteredFacts DEF semWaitMutex
<1>2. CASE mutex > 0
  <2>1. mutex = 1 /\ mutex' = 0 /\ queue' = queue /\ pc' = [pc EXCEPT ![p] = Entered[pc[p]]]
    BY <1>2 DEF semWaitMutex, Goto, PhilTypes
  <2>2. Takes(pc[p], Entered[pc[p]]) /\ Entered[pc[p]] \in Labels
    <3>1. Takes(pc[p], Entered[pc[p]])
      BY <1>1, EnteredFacts
    <3> QED BY <3>1 DEF Takes, Labels, PhilLabels, PhyloLabels, Ends, Critical
  <2> QED BY <1>1, <2>1, <2>2
<1>3. CASE ~(mutex > 0)
  <2>1. mutex = 0 /\ mutex' = 0 /\ pc' = pc /\ queue' = Append(queue, p)
    BY <1>3 DEF semWaitMutex, PhilTypes
  <2>2. \A i \in 1..Len(queue) : queue[i] # p
    <3>1. DOMAIN queue = 1..Len(queue)
      BY DEF PhilTypes
    <3> QED BY <3>1 DEF semWaitMutex, ToSet
  <2> QED BY <1>1, <2>1, <2>2
<1> QED BY <1>2, <1>3

\* p posts it and goes on at l: the first of the queue, if alive, has it.
LEMMA PostFacts ==
  ASSUME PhilTypes, MutexInv, NEW p \in Procs, NEW l \in Labels,
         pc[p] \in {"leaveTake", "leavePut", "leave"}, semPostMutex(p, l)
  PROVE  /\ mutex = 0
         /\ \/ /\ queue = << >> /\ queue' = queue
               /\ mutex' = 1 /\ pc' = [pc EXCEPT ![p] = l]
            \/ /\ queue # << >> /\ queue' = Tail(queue) /\ ~alive[queue[1]]
               /\ mutex' = 1 /\ pc' = [pc EXCEPT ![p] = l]
            \/ /\ queue # << >> /\ queue' = Tail(queue) /\ alive[queue[1]]
               /\ mutex' = 0 /\ queue[1] # p /\ queue[1] \in Procs
               /\ \E m \in Labels : /\ Takes(pc[queue[1]], m)
                                    /\ pc' = [pc EXCEPT ![p] = l, ![queue[1]] = m]
<1>1. mutex = 0
  BY DEF MutexInv, PhilTypes, Inside, Ends, Critical
<1>2. CASE queue = << >>
  BY <1>1, <1>2 DEF semPostMutex
<1>3. CASE queue # << >>
  <2> DEFINE h == queue[1]
  <2>1. /\ 1 \in 1..Len(queue) /\ h \in Procs /\ Head(queue) = h
        /\ pc[h] \in {"asleep", "eating", "quit"}
    BY <1>3 DEF PhilTypes, MutexInv
  <2>2. h # p
    BY <2>1
  <2>3. queue' = Tail(queue)
    BY <1>3 DEF semPostMutex
  <2>4. CASE ~alive[h]
    BY <1>1, <1>3, <2>1, <2>3, <2>4 DEF semPostMutex
  <2>5. CASE alive[h]
    <3>1. mutex' = 0 /\ pc' = [pc EXCEPT ![p] = l, ![h] = Entered[@]]
      BY <1>1, <1>3, <2>1, <2>5 DEF semPostMutex
    <3>2. pc' = [pc EXCEPT ![p] = l, ![h] = Entered[pc[h]]]
      BY <3>1, <2>1, <2>2 DEF PhilTypes, PcTypes
    <3>3. Takes(pc[h], Entered[pc[h]])
      BY <2>1, EnteredFacts
    <3>4. Entered[pc[h]] \in Labels
      BY <3>3 DEF Takes, Labels, PhilLabels, PhyloLabels, Ends, Critical
    <3> QED BY <1>1, <1>3, <2>1, <2>2, <2>3, <2>5, <3>1, <3>2, <3>3, <3>4
  <2> QED BY <2>4, <2>5
<1> QED BY <1>2, <1>3

-----------------------------------------------------------------------------
(* Types and mutual exclusion.                                             *)

\* p goes from one place to another of the same kind.
LEMMA MutexMoves ==
  ASSUME PhilTypes, MutexInv, NEW p \in Procs, NEW l \in Labels,
         pc' = [pc EXCEPT ![p] = l], mutex' = mutex, queue' = queue,
         l \in Inside <=> pc[p] \in Inside,
         pc[p] \notin {"asleep", "eating", "quit"}
  PROVE  MutexInv'
<1>1. \A q \in Procs : pc'[q] \in Inside <=> pc[q] \in Inside
  BY DEF PhilTypes, PcTypes
<1>2. \A i \in 1..Len(queue) : queue[i] \in Procs /\ queue[i] # p
  BY DEF PhilTypes, MutexInv
<1>3. \A i \in 1..Len(queue) : pc'[queue[i]] = pc[queue[i]]
  BY <1>2 DEF PhilTypes, PcTypes
<1> QED BY <1>1, <1>3 DEF MutexInv

\* p takes the mutex, or queues for it.
LEMMA MutexWait ==
  ASSUME PhilTypes, MutexInv, NEW p \in Procs, semWaitMutex(p)
  PROVE  MutexInv' /\ PcTypes' /\ queue' \in Seq(Procs) /\ mutex' \in {0, 1}
<1>1. pc \in [Procs -> Labels] /\ queue \in Seq(Procs) /\ Len(queue) \in Nat
  BY DEF PhilTypes, PcTypes
<1>2. CASE mutex = 1
  <2>1. PICK m \in Labels : /\ Takes(pc[p], m) /\ pc' = [pc EXCEPT ![p] = m]
                            /\ mutex' = 0 /\ queue' = queue
    BY <1>2, WaitFacts
  <2>2. \A q \in Procs : q # p => pc'[q] = pc[q] /\ pc[q] \notin Inside
    BY <1>1, <1>2, <2>1 DEF MutexInv
  <2>3. PcTypes'
    BY <1>1, <2>1, Numbered DEF PhilTypes, PcTypes, Takes, PhilLabels, PhyloLabels, Ends, Critical
  <2>4. \A i \in 1..Len(queue) : queue[i] # p
    BY <1>1 DEF semWaitMutex, ToSet
  <2>5. \A i \in 1..Len(queue) : pc'[queue[i]] = pc[queue[i]]
    BY <1>1, <2>2, <2>4
  <2> QED BY <1>1, <2>1, <2>2, <2>3, <2>5 DEF MutexInv
<1>3. CASE mutex = 0
  <2>1. /\ mutex' = 0 /\ pc' = pc /\ queue' = Append(queue, p)
        /\ \A i \in 1..Len(queue) : queue[i] # p
        /\ pc[p] \in {"asleep", "eating", "quit"}
    BY <1>3, WaitFacts
  <2>2. /\ queue' \in Seq(Procs) /\ Len(queue') = Len(queue) + 1
        /\ \A i \in 1..(Len(queue) + 1) : queue'[i] = IF i <= Len(queue) THEN queue[i] ELSE p
    BY <1>1, <2>1
  <2>3. MutexInv'
    BY <1>1, <1>3, <2>1, <2>2 DEF MutexInv
  <2> QED BY <2>1, <2>2, <2>3 DEF PhilTypes, PcTypes
<1> QED BY <1>2, <1>3 DEF PhilTypes

\* p posts it.
LEMMA MutexPost ==
  ASSUME PhilTypes, MutexInv, NEW p \in Procs, NEW l \in {"ownSem", "asleep", "exited"},
         pc[p] \in {"leaveTake", "leavePut", "leave"}, semPostMutex(p, l),
         p = PHYLO <=> l = "exited"
  PROVE  MutexInv' /\ PcTypes' /\ queue' \in Seq(Procs) /\ mutex' \in {0, 1}
<1>1. /\ pc \in [Procs -> Labels] /\ queue \in Seq(Procs) /\ Len(queue) \in Nat
      /\ l \in Labels /\ l \notin Inside /\ pc[p] \in Inside /\ pc[p] \notin {"asleep", "eating", "quit"}
      /\ p \in Phils => l \in PhilLabels
      /\ p = PHYLO => l \in PhyloLabels
  <2>1. /\ pc \in [Procs -> Labels] /\ queue \in Seq(Procs) /\ Len(queue) \in Nat
        /\ pc[p] \in Labels
    BY Numbered DEF PhilTypes, PcTypes
  <2>2. l \in Labels /\ l \notin Inside /\ pc[p] \in Inside /\ pc[p] \notin {"asleep", "eating", "quit"}
    BY Numbered DEF Labels, PhilLabels, PhyloLabels, Inside, Ends, Critical
  <2>3. (p \in Phils => l \in PhilLabels) /\ (p = PHYLO => l \in PhyloLabels)
    BY Numbered DEF PhilLabels, PhyloLabels, Ends
  <2> QED BY <2>1, <2>2, <2>3
<1>2. \A q \in Procs : q # p => pc[q] \notin Inside
  BY <1>1 DEF MutexInv
<1>3. \A i \in 1..Len(queue) : queue[i] \in Procs /\ queue[i] # p
  BY <1>1 DEF MutexInv
<1>4. queue # << >> => /\ Tail(queue) \in Seq(Procs) /\ Len(Tail(queue)) = Len(queue) - 1
                       /\ Len(queue) >= 1 /\ \A i \in 1..(Len(queue) - 1) : Tail(queue)[i] = queue[i + 1]
  BY <1>1
<1>5. \/ /\ mutex' = 1 /\ pc' = [pc EXCEPT ![p] = l]
         /\ \/ queue = << >> /\ queue' = queue
            \/ queue # << >> /\ queue' = Tail(queue)
      \/ /\ queue # << >> /\ queue' = Tail(queue) /\ mutex' = 0
         /\ \E m \in Labels : /\ Takes(pc[queue[1]], m)
                              /\ pc' = [pc EXCEPT ![p] = l, ![queue[1]] = m]
  BY <1>1, PostFacts
<1>6. CASE mutex' = 1
  <2>1. pc' = [pc EXCEPT ![p] = l] /\ \A q \in Procs : pc'[q] \notin Inside
    BY <1>1, <1>2, <1>5, <1>6
  <2>2. PcTypes'
    BY <1>1, <2>1, Numbered DEF PhilTypes, PcTypes
  <2>3. \A i \in 1..Len(queue) : pc'[queue[i]] = pc[queue[i]]
    BY <1>1, <1>3, <2>1
  <2>4. CASE queue' = queue
    BY <1>1, <1>6, <2>1, <2>2, <2>3, <2>4 DEF MutexInv
  <2>5. CASE queue # << >> /\ queue' = Tail(queue)
    <3>1. \A i \in 1..Len(queue') : i + 1 \in 1..Len(queue) /\ queue'[i] = queue[i + 1]
      BY <1>1, <1>4, <2>5
    <3> QED BY <1>1, <1>4, <1>6, <2>1, <2>2, <2>3, <2>5, <3>1 DEF MutexInv
  <2> QED BY <1>5, <1>6, <2>4, <2>5
<1>7. CASE mutex' = 0
  <2> DEFINE h == queue[1]
  <2>1. PICK m \in Labels : Takes(pc[h], m) /\ pc' = [pc EXCEPT ![p] = l, ![h] = m]
    BY <1>5, <1>7
  <2>2. queue # << >> /\ queue' = Tail(queue) /\ h \in Procs /\ h # p
    BY <1>3, <1>4, <1>5, <1>7
  <2>3. \A q \in Procs : q # p /\ q # h => pc'[q] = pc[q]
    BY <1>1, <2>1
  <2>4. pc'[p] = l /\ pc'[h] = m
    BY <1>1, <2>1, <2>2
  <2>5. PcTypes'
    <3>1. h \in Phils => m \in PhilLabels
      BY <2>1 DEF PhilTypes, PcTypes, Takes, PhilLabels, PhyloLabels, Ends, Critical
    <3>2. h = PHYLO => m \in PhyloLabels
      BY <2>1 DEF PhilTypes, PcTypes, Takes, PhilLabels, PhyloLabels, Ends, Critical
    <3> QED BY <1>1, <2>1, <2>2, <2>3, <2>4, <3>1, <3>2, Numbered DEF PhilTypes, PcTypes
  <2>6. \A i \in 1..Len(queue') : /\ i + 1 \in 1..Len(queue) /\ queue'[i] = queue[i + 1]
                                  /\ i \in 1..Len(queue) /\ i + 1 # 1 /\ 1 \in 1..Len(queue)
    BY <1>1, <1>4, <2>2
  <2>7. \A i \in 1..Len(queue') : queue'[i] # h
    BY <2>6 DEF MutexInv
  <2>8. \A i \in 1..Len(queue') : pc'[queue'[i]] = pc[queue'[i]]
    BY <1>3, <2>3, <2>6, <2>7
  <2>9. \A q \in Procs : pc'[q] \in Inside => q = h
    BY <1>1, <1>2, <2>3, <2>4
  <2>10. \A i, j \in 1..Len(queue') : queue'[i] = queue'[j] => i = j
    BY <2>6 DEF MutexInv
  <2>11. \A i \in 1..Len(queue') : pc'[queue'[i]] \in {"asleep", "eating", "quit"}
    BY <2>6, <2>8 DEF MutexInv
  <2> QED BY <1>4, <1>7, <2>2, <2>5, <2>9, <2>10, <2>11 DEF MutexInv
<1> QED BY <1>5, <1>6, <1>7

\* A philosopher and its neighbours have structures.
LEMMA NeighbourFacts ==
  ASSUME PhilTypes, RingInv, NEW p \in Phils, p <= count
  PROVE  /\ left[p] \in Phils /\ right[p] \in Phils
         /\ left[p] <= count /\ right[p] <= count
<1>1. p \in 1..count /\ count \in 0..MaxPhils
  BY Numbered DEF PhilTypes
<1>2. left[p] \in 1..count /\ right[p] \in 1..count
  BY <1>1 DEF RingInv, RingBase, PhaseInv
<1> QED BY <1>1, <1>2, Numbered

\* One of the three tests of a philosopher that has the mutex.
LEMMA TestTypes ==
  ASSUME PhilTypes, MutexInv, NEW p \in Phils, NEW q \in Phils,
         NEW st \in [Phils -> {"EATING", "HUNGRY", "THINKING"}],
         pc[p] \in {"hungry", "putLeft", "putRight"},
         NEW grant \in {"grantSelf", "grantLeft", "grantRight"},
         NEW after \in {"leaveTake", "putRight", "leavePut"},
         test(p, q, st, grant, after)
  PROVE  PhilTypes' /\ MutexInv'
<1>1. PICK l \in {grant, after} : pc' = [pc EXCEPT ![p] = l]
  BY DEF test, Goto
<1>2. /\ l \in PhilLabels /\ l \in Labels /\ l \in Inside /\ pc[p] \in Inside
      /\ pc[p] \notin {"asleep", "eating", "quit"}
  BY <1>1 DEF Labels, PhilLabels, Inside, Ends, Critical
<1>3. MutexInv'
  <2>1. mutex' = mutex /\ queue' = queue
    BY DEF test
  <2> QED BY <1>1, <1>2, <2>1, MutexMoves, Numbered
<1>4. PcTypes'
  BY <1>1, <1>2, Numbered DEF PhilTypes, PcTypes
<1>5. granting' \in [Phils -> 0..MaxPhils]
  <2>1. q \in 0..MaxPhils /\ NULL \in 0..MaxPhils
    BY Numbered DEF NULL
  <2> QED BY <2>1 DEF test, PhilTypes
<1>6. lapses' \subseteq Lapses
  BY DEF test, Races, PhilTypes, Lapses
<1> QED BY <1>3, <1>4, <1>5, <1>6 DEF test, PhilTypes, ringVars

\* The type of a label, by who is there.
LEMMA GotoTypes ==
  ASSUME PhilTypes, MutexInv, NEW p \in Procs, NEW l \in Labels, Goto(p, l),
         mutex' = mutex, queue' = queue,
         (p = PHYLO /\ l \in PhyloLabels) \/ (p \in Phils /\ l \in PhilLabels),
         l \in Inside <=> pc[p] \in Inside,
         pc[p] \notin {"asleep", "eating", "quit"}
  PROVE  PcTypes' /\ MutexInv'
<1>1. pc' = [pc EXCEPT ![p] = l]
  BY DEF Goto
<1>2. PcTypes'
  BY <1>1, Numbered DEF PhilTypes, PcTypes
<1> QED BY <1>1, <1>2, MutexMoves

LEMMA PhyloGoto ==
  ASSUME PhilTypes, MutexInv, NEW l \in PhyloLabels, Goto(PHYLO, l),
         mutex' = mutex, queue' = queue, pc[PHYLO] # "quit",
         l \in Ends <=> pc[PHYLO] \in Ends
  PROVE  PcTypes' /\ MutexInv'
<1>1. /\ pc[PHYLO] \in PhyloLabels /\ PHYLO \in Procs
  BY Numbered DEF PhilTypes, PcTypes
<1>2. /\ l \in Labels
      /\ l \in Inside <=> pc[PHYLO] \in Inside
      /\ pc[PHYLO] \notin {"asleep", "eating", "quit"}
  BY <1>1 DEF Labels, PhyloLabels, Inside, Ends, Critical
<1> QED BY <1>1, <1>2, GotoTypes

\* The frees before the kill, which change nothing but where phylo() is.
Freeing == RemoveFree \/ FreeInLoop \/ FreeLast

LEMMA FreeingFacts ==
  ASSUME Freeing
  PROVE  /\ UNCHANGED <<state, left, right, firstPhil, count, argv, alive, granting, mutex, queue, sem, del, lapses>>
         /\ \E l \in PhyloLabels : /\ Goto(PHYLO, l)
                                  /\ \/ pc[PHYLO] = "removeFree" /\ l = "removeKill"
                                     \/ pc[PHYLO] = "free" /\ l = "freeKill"
                                     \/ pc[PHYLO] = "last" /\ l = "lastKill"
BY DEF Freeing, RemoveFree, FreeInLoop, FreeLast, Freed, ringVars, PhyloLabels, Ends

\* phylo() goes astray: somebody is killed, or nobody.
LEMMA ReusedFacts ==
  ASSUME PhilTypes, Reused
  PROVE  /\ pc' = [pc EXCEPT ![PHYLO] = "astray"] /\ pc'[PHYLO] = "astray"
         /\ \A p \in Phils : pc'[p] = pc[p]
         /\ alive' \in [Procs -> BOOLEAN] /\ \A p \in Procs : alive'[p] => alive[p]
         /\ lapses' = lapses \union {"reused"} /\ lapses' \subseteq Lapses
<1>1. PHYLO \in Procs /\ pc \in [Procs -> Labels] /\ \A p \in Phils : p \in Procs /\ p # PHYLO
  BY Numbered DEF PhilTypes, PcTypes
<1>2. pc' = [pc EXCEPT ![PHYLO] = "astray"] /\ lapses' = lapses \union {"reused"}
  BY DEF Reused, Goto
<1>3. PICK v : alive' = [p \in Procs |-> alive[p] /\ p # v]
  BY DEF Reused
<1>4. alive \in [Procs -> BOOLEAN] /\ lapses \subseteq Lapses
  BY DEF PhilTypes
<1>5. \A p \in Procs : alive'[p] = (alive[p] /\ p # v)
  BY <1>3
<1>6. alive' \in [Procs -> BOOLEAN]
  BY <1>3, <1>4
<1> QED BY <1>1, <1>2, <1>4, <1>5, <1>6 DEF Lapses

\* A kill, of the right one or another, changes no link.
LEMMA KillFacts ==
  ASSUME PhilTypes, RemoveKill \/ freePhilo
  PROVE  /\ UNCHANGED <<state, left, right, firstPhil, count>>
         /\ \A r \in Phils : alive'[r] => alive[r]
<1>1. UNCHANGED <<state, left, right, firstPhil, count>> /\ (KillDel \/ Reused)
  BY DEF RemoveKill, freePhilo, ringVars
<1>2. \A r \in Phils : r \in Procs
  BY Numbered
<1> QED BY <1>1, <1>2, ReusedFacts DEF KillDel, PhilTypes

\* It keeps the mutex when it had it.
LEMMA StrayTypes ==
  ASSUME PhilTypes, MutexInv, Reused, mutex' = mutex, queue' = queue, pc[PHYLO] # "quit"
  PROVE  PcTypes' /\ MutexInv'
<1>1. /\ PHYLO \in Procs /\ pc \in [Procs -> Labels] /\ pc[PHYLO] \in PhyloLabels
      /\ "astray" \in PhyloLabels /\ "astray" \in Labels /\ "astray" \notin Inside
      /\ pc' = [pc EXCEPT ![PHYLO] = "astray"] /\ \A p \in Phils : p # PHYLO
  BY ReusedFacts, Numbered DEF PhilTypes, PcTypes, Labels, PhyloLabels, Ends, Inside, Critical
<1>2. PcTypes'
  BY <1>1, Numbered DEF PhilTypes, PcTypes
<1>3. \A q \in Procs : pc'[q] \in Inside => pc[q] \in Inside
  BY <1>1
<1>4. \A i \in 1..Len(queue) : queue[i] \in Procs /\ queue[i] # PHYLO
  <2>1. pc[PHYLO] \notin {"asleep", "eating", "quit"}
    BY <1>1 DEF PhyloLabels, Ends
  <2> QED BY <2>1 DEF PhilTypes, MutexInv
<1>5. \A i \in 1..Len(queue) : pc'[queue[i]] = pc[queue[i]]
  BY <1>1, <1>4
<1> QED BY <1>2, <1>3, <1>5 DEF MutexInv

LEMMA PhiloTypes ==
  ASSUME PhilTypes, MutexInv, StateInv, RingInv, NEW p \in Phils, philosopher(p)
  PROVE  PhilTypes' /\ MutexInv'
<1> p \in Procs /\ p # PHYLO
  BY Numbered
<1>1. CASE semWaitMutex(p)
  BY <1>1, MutexWait DEF semWaitMutex, ringVars, PhilTypes
<1>2. CASE Hungry(p)
  <2>1. [state EXCEPT ![p] = "HUNGRY"] \in [Phils -> {"EATING", "HUNGRY", "THINKING"}]
    BY DEF PhilTypes
  <2> QED BY <1>2, <2>1, TestTypes DEF Hungry, At
<1>3. CASE PutLeft(p)
  <2>1. [state EXCEPT ![p] = "THINKING"] \in [Phils -> {"EATING", "HUNGRY", "THINKING"}]
    BY DEF PhilTypes
  <2>2. left[p] \in Phils
    BY <1>3, NeighbourFacts DEF PutLeft, At, RingInv, RingBase, PhaseInv, Alive
  <2> QED BY <1>3, <2>1, <2>2, TestTypes DEF PutLeft, At
<1>4. CASE PutRight(p)
  <2>1. state \in [Phils -> {"EATING", "HUNGRY", "THINKING"}]
    BY DEF PhilTypes
  <2>2. right[p] \in Phils
    BY <1>4, NeighbourFacts DEF PutRight, At, RingInv, RingBase, PhaseInv, Alive
  <2> QED BY <1>4, <2>1, <2>2, TestTypes DEF PutRight, At
<1>5. CASE Grant(p)
  <2> DEFINE g == granting[p]
  <2>1. pc[p] \in {"grantSelf", "grantLeft", "grantRight"}
    BY <1>5, AfterFacts DEF Grant
  <2>2. g \in Phils /\ state[g] = "HUNGRY"
    BY <2>1 DEF StateInv, StateOf
  <2>3. sem[g] = 0
    BY <2>2 DEF StateInv, StateOf, PhilTypes, PcTypes, PhilLabels, Critical
  <2>4. /\ state' \in [Phils -> {"EATING", "HUNGRY", "THINKING"}] /\ sem' \in [Phils -> {0, 1}]
        /\ granting' \in [Phils -> 0..MaxPhils]
    BY <1>5, <2>2, <2>3, Numbered DEF Grant, PhilTypes, NULL
  <2>5. PICK l \in {"leaveTake", "putRight", "leavePut"} : Goto(p, l)
    BY <1>5, <2>1, AfterFacts DEF Grant
  <2>6. PcTypes' /\ MutexInv'
    <3>1. l \in Labels /\ l \in PhilLabels /\ l \in Inside /\ pc[p] \in Inside
      BY <2>1 DEF Labels, PhilLabels, Inside, Ends, Critical
    <3>2. mutex' = mutex /\ queue' = queue
      BY <1>5 DEF Grant
    <3> QED BY <2>1, <2>5, <3>1, <3>2, GotoTypes
  <2> QED BY <1>5, <2>4, <2>6 DEF Grant, PhilTypes, ringVars
<1>6. CASE Leave(p)
  <2>1. PICK l \in {"ownSem", "asleep"} : semPostMutex(p, l) /\ pc[p] \in {"leaveTake", "leavePut"}
    BY <1>6 DEF Leave, At
  <2>2. MutexInv' /\ PcTypes' /\ queue' \in Seq(Procs) /\ mutex' \in {0, 1}
    BY <2>1, MutexPost
  <2> QED BY <1>6, <2>2 DEF Leave, PhilTypes, ringVars
<1>7. CASE OwnSem(p)
  <2>1. PcTypes' /\ MutexInv'
    BY <1>7, GotoTypes DEF OwnSem, At, Labels, PhilLabels, Inside, Ends, Critical
  <2>2. sem' \in [Phils -> {0, 1}]
    BY <1>7 DEF OwnSem, PhilTypes
  <2> QED BY <1>7, <2>1, <2>2 DEF OwnSem, PhilTypes, ringVars
<1> QED BY <1>1, <1>2, <1>3, <1>4, <1>5, <1>6, <1>7 DEF philosopher

LEMMA PhyloTypes ==
  ASSUME PhilTypes, MutexInv, RingInv,
         \/ phylo \/ semWaitMutex(PHYLO) \/ addPhilo \/ AddLoad \/ removePhilo
         \/ RemoveUnlink \/ Freeing \/ RemoveKill \/ Quit \/ freePhilo \/ Exit
  PROVE  PhilTypes' /\ MutexInv'
<1> PHYLO \in Procs
  BY Numbered
<1>1. CASE phylo
  <2>1. PICK l \in {"refused", "keys"} : Goto(PHYLO, l)
    BY <1>1 DEF phylo
  <2>2. PcTypes' /\ MutexInv'
    BY <1>1, <2>1, PhyloGoto DEF phylo, PhyloLabels, Ends
  <2>3. CASE l = "refused" /\ UNCHANGED <<left, right, firstPhil, count, alive>>
    BY <1>1, <2>2, <2>3 DEF phylo, PhilTypes
  <2>4. CASE ~(argv # NoArg /\ ~Accepted(argv))
    <3> DEFINE n == IF argv = NoArg THEN STARTING ELSE argv
    <3>1. n \in Int /\ n >= 1
      BY <2>4, PhilosophersAssumption DEF Accepted, PhilTypes
    <3>2. n <= MaxPhils /\ count' = n /\ firstPhil' = 1
      BY <1>1, <2>4 DEF phylo
    <3> HIDE DEF n
    <3>3. /\ left' = [p \in Phils |-> IF p \in 2..n THEN p - 1 ELSE IF p = 1 THEN n ELSE NULL]
          /\ right' = [p \in Phils |-> IF p < n THEN p + 1 ELSE IF p = n THEN 1 ELSE NULL]
          /\ alive' = [p \in Procs |-> p <= n \/ p = PHYLO]
      BY <1>1, <2>4 DEF phylo, n
    <3>4. left' \in [Phils -> 0..MaxPhils] /\ right' \in [Phils -> 0..MaxPhils]
      BY <3>1, <3>2, <3>3, Numbered DEF NULL
    <3>5. alive' \in [Procs -> BOOLEAN]
      BY <3>3
    <3>6. UNCHANGED <<argv, state, granting, mutex, queue, sem, del, lapses>>
      BY <1>1 DEF phylo
    <3>7. count' \in 0..MaxPhils /\ firstPhil' \in 0..1
      BY <3>1, <3>2, Numbered
    <3> QED BY <2>2, <3>4, <3>5, <3>6, <3>7 DEF PhilTypes
  <2>5. \/ ~(argv # NoArg /\ ~Accepted(argv))
        \/ l = "refused" /\ UNCHANGED <<left, right, firstPhil, count, alive>>
    <3> SUFFICES ASSUME argv # NoArg /\ ~Accepted(argv)
                 PROVE  l = "refused" /\ UNCHANGED <<left, right, firstPhil, count, alive>>
      OBVIOUS
    <3>1. Goto(PHYLO, "refused") /\ UNCHANGED <<left, right, firstPhil, count, alive>>
      BY <1>1 DEF phylo, ringVars
    <3>2. l = "refused"
      BY <2>1, <3>1 DEF Goto, PhilTypes, PcTypes
    <3> QED BY <3>1, <3>2
  <2> QED BY <2>3, <2>4, <2>5
<1>2. CASE semWaitMutex(PHYLO)
  BY <1>2, MutexWait DEF semWaitMutex, ringVars, PhilTypes
<1>3. CASE addPhilo
  <2>1. PcTypes' /\ MutexInv'
    BY <1>3, PhyloGoto DEF addPhilo, Key, PhyloLabels, Ends
  <2>2. count' \in 0..MaxPhils /\ del' \in 0..MaxPhils
    BY <1>3, Numbered DEF addPhilo, PhilTypes
  <2>3. firstPhil = 1 /\ 1 \in Phils
    BY <1>3, Numbered DEF addPhilo, Key, RingInv, RingBase, PhaseInv, PhilTypes
  <2>4. left' \in [Phils -> 0..MaxPhils] /\ right' \in [Phils -> 0..MaxPhils]
    <3>1. left[firstPhil] \in 0..MaxPhils /\ count + 1 \in 0..MaxPhils /\ 1 \in 0..MaxPhils
      BY <1>3, <2>3, Numbered DEF addPhilo, PhilTypes
    <3>2. /\ left' = [left EXCEPT ![count + 1] = left[firstPhil]]
          /\ right' = [right EXCEPT ![count + 1] = firstPhil, ![left[firstPhil]] = count + 1]
      BY <1>3 DEF addPhilo
    <3> QED BY <2>3, <3>1, <3>2 DEF PhilTypes
  <2>5. lapses' \subseteq Lapses
    BY <1>3 DEF addPhilo, RelinkLapse, PhilTypes, Lapses
  <2> QED BY <1>3, <2>1, <2>2, <2>4, <2>5 DEF addPhilo, PhilTypes
<1>4. CASE AddLoad
  <2>1. PcTypes' /\ MutexInv'
    BY <1>4, PhyloGoto DEF AddLoad, PhyloLabels, Ends
  <2>2. left' \in [Phils -> 0..MaxPhils] /\ alive' \in [Procs -> BOOLEAN] /\ del' \in 0..MaxPhils
    <3>1. /\ left' = [left EXCEPT ![firstPhil] = del] /\ alive' = [alive EXCEPT ![del] = TRUE]
          /\ del' = 0
      BY <1>4 DEF AddLoad, NULL
    <3>2. left' \in [Phils -> 0..MaxPhils]
      BY <3>1 DEF PhilTypes
    <3>3. alive' \in [Procs -> BOOLEAN]
      BY <3>1 DEF PhilTypes
    <3>4. del' \in 0..MaxPhils
      BY <3>1, Numbered
    <3> QED BY <3>2, <3>3, <3>4
  <2>3. lapses' \subseteq Lapses
    BY <1>4 DEF AddLoad, RelinkLapse, PhilTypes, Lapses
  <2> QED BY <1>4, <2>1, <2>2, <2>3 DEF AddLoad, PhilTypes
<1>5. CASE removePhilo
  <2>1. PcTypes' /\ MutexInv'
    BY <1>5, PhyloGoto DEF removePhilo, Key, PhyloLabels, Ends
  <2>2. firstPhil = 1 /\ 1 \in Phils /\ 1 <= count
    BY <1>5, Numbered DEF removePhilo, Key, RingInv, RingBase, PhaseInv, PhilTypes
  <2>3. del' \in Phils /\ del' <= count
    BY <1>5, <2>2, NeighbourFacts DEF removePhilo
  <2>4. right' \in [Phils -> 0..MaxPhils]
    BY <1>5, <2>3, Numbered DEF removePhilo, PhilTypes
  <2>5. lapses' \subseteq Lapses
    BY <1>5 DEF removePhilo, RelinkLapse, PhilTypes, Lapses
  <2>6. UNCHANGED <<argv, state, left, firstPhil, count, alive, granting, mutex, queue, sem>>
    BY <1>5 DEF removePhilo
  <2>7. del' \in 0..MaxPhils
    BY <2>3, Numbered
  <2> QED BY <2>1, <2>4, <2>5, <2>6, <2>7 DEF PhilTypes
<1>6. CASE RemoveUnlink
  <2>1. PcTypes' /\ MutexInv'
    BY <1>6, PhyloGoto DEF RemoveUnlink, PhyloLabels, Ends
  <2>2. del \in Phils
    <3>1. pc[PHYLO] = "removeLeft"
      BY <1>6 DEF RemoveUnlink
    <3> QED BY <3>1, Numbered DEF RingInv, RingBase, PhaseInv, PhilTypes
  <2>3. left' \in [Phils -> 0..MaxPhils]
    BY <1>6, <2>2, Numbered DEF RemoveUnlink, PhilTypes
  <2>4. lapses' \subseteq Lapses
    BY <1>6 DEF RemoveUnlink, RelinkLapse, PhilTypes, Lapses
  <2> QED BY <1>6, <2>1, <2>3, <2>4 DEF RemoveUnlink, PhilTypes
<1>7. CASE RemoveKill
  <2>1. PcTypes' /\ MutexInv'
    <3>1. pc[PHYLO] = "removeKill" /\ mutex' = mutex /\ queue' = queue
      BY <1>7 DEF RemoveKill
    <3>2. Goto(PHYLO, "keys") \/ Reused
      BY <1>7 DEF RemoveKill
    <3> QED BY <3>1, <3>2, PhyloGoto, StrayTypes DEF PhyloLabels, Ends
  <2>2. alive' \in [Procs -> BOOLEAN] /\ del' \in 0..MaxPhils /\ lapses' \subseteq Lapses
    <3>1. del' = 0 /\ (KillDel \/ Reused)
      BY <1>7 DEF RemoveKill, NULL
    <3>2. lapses' \subseteq Lapses
      <4>1. lapses' \subseteq Lapses \/ Reused
        BY <1>7 DEF RemoveKill, PhilTypes
      <4> QED BY <4>1, ReusedFacts
    <3>3. alive' \in [Procs -> BOOLEAN]
      BY <3>1, ReusedFacts DEF PhilTypes, KillDel
    <3>4. del' \in 0..MaxPhils
      BY <3>1, Numbered
    <3> QED BY <3>2, <3>3, <3>4
  <2> QED BY <1>7, <2>1, <2>2 DEF RemoveKill, PhilTypes, ringVars
<1>8. CASE Quit
  <2>1. PcTypes' /\ MutexInv'
    BY <1>8, PhyloGoto DEF Quit, Key, PhyloLabels, Ends
  <2>2. firstPhil \in Phils
    BY <1>8, Numbered DEF Quit, Key, RingInv, RingBase, PhaseInv, PhilTypes
  <2> QED BY <1>8, <2>1, <2>2, Numbered DEF Quit, PhilTypes, ringVars
<1>9. CASE freePhilo
  <2>1. pc[PHYLO] \in {"freeKill", "lastKill"} /\ mutex' = mutex /\ queue' = queue
    BY <1>9 DEF freePhilo
  <2>2. (\E l \in {"leave", "last", "free"} : Goto(PHYLO, l)) \/ Reused
    BY <1>9 DEF freePhilo
  <2>3. PcTypes' /\ MutexInv'
    BY <2>1, <2>2, PhyloGoto, StrayTypes DEF PhyloLabels, Ends
  <2>4. alive' \in [Procs -> BOOLEAN] /\ lapses' \subseteq Lapses
    <3>1. (KillDel /\ lapses' = lapses) \/ Reused
      BY <1>9 DEF freePhilo
    <3> QED BY <3>1, ReusedFacts DEF PhilTypes, KillDel
  <2>5. del \in Phils /\ del' = right[del]
    <3>1. firstPhil = 1 /\ 1 \in Phils
      BY <2>1, Numbered DEF RingInv, RingBase, PhaseInv, PhilTypes
    <3> QED BY <1>9, <2>1, <3>1 DEF freePhilo, RingInv, PhaseInv, Alive
  <2>6. del' \in 0..MaxPhils
    BY <2>5 DEF PhilTypes
  <2> QED BY <1>9, <2>3, <2>4, <2>6 DEF freePhilo, PhilTypes, ringVars
<1>10. CASE Exit
  <2>1. CASE pc[PHYLO] = "leave" /\ semPostMutex(PHYLO, "exited")
    <3>1. MutexInv' /\ PcTypes' /\ queue' \in Seq(Procs) /\ mutex' \in {0, 1}
      BY <2>1, MutexPost
    <3> QED BY <1>10, <3>1 DEF Exit, PhilTypes, ringVars
  <2>2. CASE Key("EOF", "gone") /\ UNCHANGED <<mutex, queue>>
    <3>1. PcTypes' /\ MutexInv'
      BY <2>2, PhyloGoto DEF Key, PhyloLabels, Ends
    <3> QED BY <1>10, <2>2, <3>1 DEF Exit, PhilTypes, ringVars
  <2> QED BY <1>10, <2>1, <2>2 DEF Exit
<1>11. CASE Freeing
  <2>1. PICK l \in PhyloLabels : /\ Goto(PHYLO, l) /\ pc[PHYLO] # "quit"
                                /\ (l \in Ends <=> pc[PHYLO] \in Ends)
    BY <1>11, FreeingFacts DEF Ends
  <2>2. PcTypes' /\ MutexInv'
    <3>1. mutex' = mutex /\ queue' = queue
      BY <1>11, FreeingFacts
    <3> QED BY <2>1, <3>1, PhyloGoto
  <2> QED BY <1>11, <2>2, FreeingFacts DEF PhilTypes
<1> QED BY <1>1, <1>2, <1>3, <1>4, <1>5, <1>6, <1>7, <1>8, <1>9, <1>10, <1>11

\* The steps by who takes them.
LEMMA StepCases ==
  ASSUME [Next]_vars
  PROVE  \/ \E p \in Phils : philosopher(p)
         \/ \/ phylo \/ semWaitMutex(PHYLO) \/ addPhilo \/ AddLoad \/ removePhilo
            \/ RemoveUnlink \/ Freeing \/ RemoveKill \/ Quit \/ freePhilo \/ Exit
         \/ UNCHANGED vars
BY DEF Next, Freeing

LEMMA TypesNext ==
  PhilTypes /\ MutexInv /\ StateInv /\ RingInv /\ [Next]_vars => PhilTypes' /\ MutexInv'
<1> SUFFICES ASSUME PhilTypes, MutexInv, StateInv, RingInv, [Next]_vars
             PROVE  PhilTypes' /\ MutexInv'
  OBVIOUS
<1>1. CASE UNCHANGED vars
  BY <1>1 DEF vars, ringVars, PhilTypes, PcTypes, MutexInv
<1> QED BY <1>1, StepCases, PhiloTypes, PhyloTypes

-----------------------------------------------------------------------------
(* The state of a philosopher.                                             *)

\* What a step that is not a test, a grant or a wait for the own semaphore does to
\* the place of a philosopher.
Passes(l, m) ==
  \/ l = m \/ Takes(l, m)
  \/ l = "leaveTake" /\ m = "ownSem"
  \/ l = "leavePut" /\ m = "asleep"

LEMMA PostPasses ==
  ASSUME PhilTypes, MutexInv, NEW p \in Procs, NEW l \in Labels, Passes(pc[p], l),
         pc[p] \in {"leaveTake", "leavePut", "leave"}, semPostMutex(p, l)
  PROVE  /\ \A r \in Procs : r # p => pc'[r] = pc[r] \/ Takes(pc[r], pc'[r])
         /\ pc'[p] = l
<1>1. pc \in [Procs -> Labels]
  BY DEF PhilTypes, PcTypes
<1>2. \/ pc' = [pc EXCEPT ![p] = l]
      \/ \E h \in Procs, m \in Labels : h # p /\ Takes(pc[h], m) /\ pc' = [pc EXCEPT ![p] = l, ![h] = m]
  BY PostFacts
<1> QED BY <1>1, <1>2

\* phylo() does not touch the states.
LEMMA PhyloPasses ==
  ASSUME PhilTypes, MutexInv,
         \/ phylo \/ semWaitMutex(PHYLO) \/ addPhilo \/ AddLoad \/ removePhilo
         \/ RemoveUnlink \/ Freeing \/ RemoveKill \/ Quit \/ freePhilo \/ Exit
  PROVE  /\ UNCHANGED <<state, sem, granting>>
         /\ \A r \in Phils : pc'[r] = pc[r] \/ Takes(pc[r], pc'[r])
<1>1. /\ pc \in [Procs -> Labels] /\ PHYLO \in Procs
      /\ \A r \in Phils : r \in Procs /\ r # PHYLO
  BY Numbered DEF PhilTypes, PcTypes
<1>2. UNCHANGED <<state, sem, granting>>
  BY FreeingFacts DEF phylo, semWaitMutex, addPhilo, AddLoad, removePhilo, RemoveUnlink, RemoveKill, Quit,
         freePhilo, Exit
<1>3. ASSUME NEW l, Goto(PHYLO, l)
      PROVE  \A r \in Phils : pc'[r] = pc[r]
  BY <1>1, <1>3 DEF Goto
<1>4. CASE semWaitMutex(PHYLO)
  <2>1. pc' = pc \/ \E m \in Labels : pc' = [pc EXCEPT ![PHYLO] = m]
    BY <1>1, <1>4, WaitFacts
  <2> QED BY <1>1, <1>2, <2>1
<1>5. CASE Exit
  <2>1. CASE pc[PHYLO] = "leave" /\ semPostMutex(PHYLO, "exited")
    <3>1. \/ pc' = [pc EXCEPT ![PHYLO] = "exited"]
          \/ \E h \in Procs, m \in Labels :
               h # PHYLO /\ Takes(pc[h], m) /\ pc' = [pc EXCEPT ![PHYLO] = "exited", ![h] = m]
      <4>1. "exited" \in Labels /\ pc[PHYLO] \in {"leaveTake", "leavePut", "leave"}
        BY <2>1 DEF Labels, PhyloLabels, Ends
      <4> QED BY <1>1, <2>1, <4>1, PostFacts
    <3> QED BY <1>1, <1>2, <3>1
  <2> QED BY <1>2, <1>3, <1>5, <2>1 DEF Exit, Key
<1>6. CASE RemoveKill \/ freePhilo
  <2>1. (\E l : Goto(PHYLO, l)) \/ Reused
    BY <1>6 DEF RemoveKill, freePhilo
  <2> QED BY <1>2, <1>3, <2>1 DEF Reused
<1>7. CASE Freeing
  BY <1>2, <1>3, <1>7, FreeingFacts
<1> QED BY <1>2, <1>3, <1>4, <1>5, <1>6, <1>7 DEF phylo, addPhilo, AddLoad, removePhilo, RemoveUnlink,
                                                 Quit, Key

LEMMA StatePasses ==
  ASSUME StateInv, UNCHANGED <<state, sem, granting>>,
         \A r \in Phils : Passes(pc[r], pc'[r])
  PROVE  StateInv'
<1> SUFFICES ASSUME NEW r \in Phils PROVE StateOf(r, pc[r])'
  BY DEF StateInv
<1>1. StateOf(r, pc[r]) /\ Passes(pc[r], pc'[r])
  BY DEF StateInv
<1> QED BY <1>1 DEF StateOf, Passes, Takes

\* Nobody else is between the wait and the post.
LEMMA OthersOutside ==
  ASSUME PhilTypes, MutexInv, NEW p \in Phils, pc[p] \in Critical
  PROVE  /\ p \in Procs /\ pc[p] \in Inside /\ pc[PHYLO] \notin Ends
         /\ \A r \in Phils : r # p => pc[r] \in {"asleep", "ownSem", "eating"}
<1>1. p \in Procs /\ pc[p] \in Inside /\ PHYLO \in Procs /\ PHYLO # p /\ Phils \subseteq Procs
  BY Numbered DEF Inside, Ends
<1>2. \A r \in Procs : r # p => pc[r] \notin Inside
  BY <1>1 DEF MutexInv
<1> QED BY <1>1, <1>2 DEF PhilTypes, PcTypes, PhilLabels, Inside, Ends

\* A test changes the state of the philosopher that tests, and finds another one,
\* or itself, that can eat.
LEMMA TestState ==
  ASSUME PhilTypes, MutexInv, StateInv, NEW p \in Phils, NEW q \in Phils,
         NEW st \in [Phils -> {"EATING", "HUNGRY", "THINKING"}],
         NEW grant, NEW after, test(p, q, st, grant, after),
         \/ /\ pc[p] = "hungry" /\ q = p /\ grant = "grantSelf" /\ after = "leaveTake"
            /\ st = [state EXCEPT ![p] = "HUNGRY"]
         \/ /\ pc[p] = "putLeft" /\ grant = "grantLeft" /\ after = "putRight"
            /\ st = [state EXCEPT ![p] = "THINKING"]
         \/ /\ pc[p] = "putRight" /\ grant = "grantRight" /\ after = "leavePut"
            /\ st = state
  PROVE  StateInv'
<1>1. \A r \in Phils : r # p => /\ pc[r] \in {"asleep", "ownSem", "eating"}
                                /\ pc'[r] = pc[r] /\ state'[r] = state[r] /\ sem'[r] = sem[r]
  <2>1. pc[p] \in Critical
    BY DEF Critical
  <2>2. \A r \in Phils : r # p => pc[r] \in {"asleep", "ownSem", "eating"}
    BY <2>1, OthersOutside
  <2>3. \A r \in Phils : r # p => pc'[r] = pc[r]
    BY Numbered DEF test, Goto, PhilTypes, PcTypes
  <2>4. state' = st /\ sem' = sem
    BY DEF test
  <2>5. \A r \in Phils : r # p => st[r] = state[r]
    BY DEF PhilTypes
  <2> QED BY <2>2, <2>3, <2>4, <2>5
<1>2. pc'[p] = (IF CanEat(q, st) THEN grant ELSE after) /\ sem'[p] = sem[p] /\ sem[p] = 0
  <2>1. sem[p] = 0
    BY DEF StateInv, StateOf
  <2> QED BY <2>1, Numbered DEF test, Goto, PhilTypes, PcTypes
<1>3. state' = st /\ granting'[p] = (IF CanEat(q, st) THEN q ELSE NULL)
  BY DEF test, PhilTypes
<1>4. CanEat(q, st) => st[q] = "HUNGRY"
  BY DEF CanEat
<1>5. ASSUME NEW r \in Phils, r # p
      PROVE  StateOf(r, pc[r])'
  BY <1>1, <1>5 DEF StateInv, StateOf
<1>6. StateOf(p, pc[p])'
  <2>1. CASE pc[p] = "hungry"
    <3>1. st[p] = "HUNGRY" /\ q = p /\ grant = "grantSelf" /\ after = "leaveTake"
      BY <2>1 DEF PhilTypes
    <3> QED BY <1>2, <1>3, <1>4, <3>1 DEF StateOf
  <2>2. CASE pc[p] = "putLeft"
    <3>1. st[p] = "THINKING" /\ grant = "grantLeft" /\ after = "putRight"
      BY <2>2 DEF PhilTypes
    <3> QED BY <1>2, <1>3, <1>4, <3>1 DEF StateOf
  <2>3. CASE pc[p] = "putRight"
    <3>1. st[p] = "THINKING" /\ grant = "grantRight" /\ after = "leavePut"
      BY <2>3 DEF StateInv, StateOf
    <3> QED BY <1>2, <1>3, <1>4, <3>1 DEF StateOf
  <2> QED BY <2>1, <2>2, <2>3
<1> QED BY <1>5, <1>6 DEF StateInv

\* The one that is granted waits for its own semaphore, or grants itself.
LEMMA GrantFacts ==
  ASSUME PhilTypes, MutexInv, StateInv, NEW p \in Phils, Grant(p)
  PROVE  /\ alive[p] /\ pc[p] \in {"grantSelf", "grantLeft", "grantRight"}
         /\ granting[p] \in Phils /\ state[granting[p]] = "HUNGRY" /\ sem[granting[p]] = 0
         /\ state' = [state EXCEPT ![granting[p]] = "EATING"]
         /\ sem' = [sem EXCEPT ![granting[p]] = 1]
         /\ granting' = [granting EXCEPT ![p] = NULL]
         /\ \E m \in Labels : pc' = [pc EXCEPT ![p] = m] /\ m = After[pc[p]]
         /\ IF granting[p] = p THEN pc[p] = "grantSelf"
            ELSE pc[p] \in {"grantLeft", "grantRight"} /\ pc[granting[p]] = "ownSem"
<1> DEFINE g == granting[p]
<1>1. alive[p] /\ pc[p] \in {"grantSelf", "grantLeft", "grantRight"}
  BY AfterFacts DEF Grant
<1>2. g \in Phils /\ state[g] = "HUNGRY" /\ (pc[p] = "grantSelf" => g = p)
  BY <1>1 DEF StateInv, StateOf
<1>3. sem[g] = 0
  BY <1>2 DEF StateInv, StateOf, PhilTypes, PcTypes, PhilLabels, Critical
<1>4. g = p => pc[p] = "grantSelf"
  BY <1>1, <1>2 DEF StateInv, StateOf
<1>5. g # p => pc[g] = "ownSem"
  <2>1. g # p => pc[g] \in {"asleep", "ownSem", "eating"}
    BY <1>1, <1>2, OthersOutside DEF Critical
  <2> QED BY <1>2, <2>1 DEF StateInv, StateOf
<1>6. \E m \in Labels : pc' = [pc EXCEPT ![p] = m] /\ m = After[pc[p]]
  <2>1. pc' = [pc EXCEPT ![p] = After[pc[p]]]
    BY DEF Grant, Goto
  <2>2. After[pc[p]] \in Labels
    BY <1>1, AfterFacts DEF Labels, PhilLabels, Critical
  <2> QED BY <2>1, <2>2
<1>7. sem' = [sem EXCEPT ![g] = 1]
  <2>1. sem' = [sem EXCEPT ![g] = sem[g] + 1]
    BY <1>2 DEF Grant, PhilTypes
  <2>2. sem[g] + 1 = 1
    BY <1>3
  <2> QED BY <2>1, <2>2
<1> QED BY <1>1, <1>2, <1>3, <1>4, <1>5, <1>6, <1>7 DEF Grant

LEMMA GrantState ==
  ASSUME PhilTypes, MutexInv, StateInv, NEW p \in Phils, Grant(p)
  PROVE  StateInv'
<1>0. PICK g \in Phils : g = granting[p]
  BY GrantFacts
<1>1. /\ pc[p] \in {"grantSelf", "grantLeft", "grantRight"}
      /\ state' = [state EXCEPT ![g] = "EATING"] /\ sem' = [sem EXCEPT ![g] = 1]
      /\ granting' = [granting EXCEPT ![p] = NULL]
      /\ \E m \in Labels : pc' = [pc EXCEPT ![p] = m] /\ m = After[pc[p]]
      /\ IF g = p THEN pc[p] = "grantSelf"
         ELSE pc[p] \in {"grantLeft", "grantRight"} /\ pc[g] = "ownSem"
  BY <1>0, GrantFacts
<1>2. PICK m \in Labels : pc' = [pc EXCEPT ![p] = m] /\ m = After[pc[p]]
  BY <1>1
<1>3. \A r \in Phils : r # p => pc[r] \in {"asleep", "ownSem", "eating"}
  BY <1>1, OthersOutside DEF Critical
<1>4. /\ pc \in [Procs -> Labels] /\ state \in [Phils -> {"EATING", "HUNGRY", "THINKING"}]
      /\ sem \in [Phils -> {0, 1}] /\ Phils \subseteq Procs /\ p \in Procs
  BY Numbered DEF PhilTypes, PcTypes
<1>5. \A r \in Phils : /\ r # p => pc'[r] = pc[r]
                       /\ r # g => state'[r] = state[r] /\ sem'[r] = sem[r]
  BY <1>1, <1>2, <1>4
<1>6. state'[g] = "EATING" /\ sem'[g] = 1 /\ pc'[p] = m
  BY <1>1, <1>2, <1>4
<1>7. ASSUME NEW r \in Phils, r # p, r # g
      PROVE  StateOf(r, pc[r])'
  BY <1>3, <1>5, <1>7 DEF StateInv, StateOf
<1>8. CASE g = p
  <2>1. pc'[p] = "leaveTake"
    BY <1>1, <1>2, <1>6, <1>8, AfterFacts
  <2> QED BY <1>6, <1>7, <1>8, <2>1 DEF StateInv, StateOf
<1>9. CASE g # p
  <2>1. pc'[p] \in {"putRight", "leavePut"} /\ pc'[g] = "ownSem"
    BY <1>1, <1>2, <1>5, <1>6, <1>9, AfterFacts
  <2>2. state'[p] = "THINKING" /\ sem'[p] = 0
    BY <1>1, <1>5, <1>9 DEF StateInv, StateOf
  <2>3. StateOf(p, pc[p])' /\ StateOf(g, pc[g])'
    BY <1>1, <1>6, <2>1, <2>2 DEF StateOf
  <2> QED BY <1>7, <2>3 DEF StateInv
<1> QED BY <1>8, <1>9

LEMMA StateNext ==
  PhilTypes /\ MutexInv /\ StateInv /\ RingInv /\ [Next]_vars => StateInv'
<1> SUFFICES ASSUME PhilTypes, MutexInv, StateInv, RingInv, [Next]_vars
             PROVE  StateInv'
  OBVIOUS
<1>1. CASE UNCHANGED vars
  BY <1>1 DEF vars, StateInv, StateOf
<1>2. ASSUME NEW p \in Phils, philosopher(p)
      PROVE  StateInv'
  <2>0. /\ pc \in [Procs -> Labels] /\ state \in [Phils -> {"EATING", "HUNGRY", "THINKING"}]
        /\ sem \in [Phils -> {0, 1}] /\ Phils \subseteq Procs /\ p \in Procs
    BY Numbered DEF PhilTypes, PcTypes
  <2>1. CASE semWaitMutex(p)
    <3>1. pc' = pc \/ \E m \in Labels : Takes(pc[p], m) /\ pc' = [pc EXCEPT ![p] = m]
      BY <2>0, <2>1, WaitFacts
    <3>2. \A r \in Phils : Passes(pc[r], pc'[r])
      BY <2>0, <3>1 DEF Passes
    <3> QED BY <2>1, <3>2, StatePasses DEF semWaitMutex
  <2>2. CASE Hungry(p)
    <3>1. [state EXCEPT ![p] = "HUNGRY"] \in [Phils -> {"EATING", "HUNGRY", "THINKING"}]
      BY <2>0
    <3> QED BY <2>2, <3>1, TestState DEF Hungry, At
  <2>3. CASE PutLeft(p)
    <3>1. [state EXCEPT ![p] = "THINKING"] \in [Phils -> {"EATING", "HUNGRY", "THINKING"}]
      BY <2>0
    <3>2. left[p] \in Phils
      BY <2>3, NeighbourFacts DEF PutLeft, At, RingInv, RingBase, PhaseInv, Alive
    <3> QED BY <2>3, <3>1, <3>2, TestState DEF PutLeft, At
  <2>4. CASE PutRight(p)
    <3>1. right[p] \in Phils
      BY <2>4, NeighbourFacts DEF PutRight, At, RingInv, RingBase, PhaseInv, Alive
    <3> QED BY <2>0, <2>4, <3>1, TestState DEF PutRight, At
  <2>5. CASE Grant(p)
    BY <2>5, GrantState
  <2>6. CASE Leave(p)
    <3>1. PICK l \in {"ownSem", "asleep"} : /\ semPostMutex(p, l) /\ Passes(pc[p], l)
                                            /\ pc[p] \in {"leaveTake", "leavePut"}
      BY <2>6 DEF Leave, At, Passes
    <3>2. l \in Labels
      BY DEF Labels, PhilLabels, Critical
    <3>3. \A r \in Phils : Passes(pc[r], pc'[r])
      BY <2>0, <3>1, <3>2, PostPasses DEF Passes
    <3> QED BY <2>6, <3>3, StatePasses DEF Leave
  <2>7. CASE OwnSem(p)
    <3>1. pc[p] = "ownSem" /\ state[p] = "EATING" /\ sem[p] = 1
      BY <2>0, <2>7 DEF OwnSem, At, StateInv, StateOf
    <3>2. /\ pc'[p] = "eating" /\ state' = state /\ granting' = granting /\ sem'[p] = 0
          /\ \A r \in Phils : r # p => pc'[r] = pc[r] /\ sem'[r] = sem[r]
      BY <2>0, <2>7, <3>1 DEF OwnSem, Goto
    <3>3. \A r \in Phils : StateOf(r, pc[r])'
      BY <3>1, <3>2 DEF StateInv, StateOf
    <3> QED BY <3>3 DEF StateInv
  <2> QED BY <1>2, <2>1, <2>2, <2>3, <2>4, <2>5, <2>6, <2>7 DEF philosopher
<1>3. CASE \/ phylo \/ semWaitMutex(PHYLO) \/ addPhilo \/ AddLoad \/ removePhilo
           \/ RemoveUnlink \/ Freeing \/ RemoveKill \/ Quit \/ freePhilo \/ Exit
  BY <1>3, PhyloPasses, StatePasses DEF Passes
<1> QED BY <1>1, <1>2, <1>3, StepCases

-----------------------------------------------------------------------------
(* The ring.                                                               *)

\* Only the links of the members count.
LEMMA LinkedSame ==
  ASSUME NEW A, NEW l, NEW r, NEW l2, NEW r2, Linked(A, l, r),
         \A p \in A : l2[p] = l[p] /\ r2[p] = r[p]
  PROVE  Linked(A, l2, r2)
BY DEF Linked, Follows

\* phylo() links the first n in order.
LEMMA LinkedStart ==
  ASSUME NEW n \in Nat, n >= 1, NEW l, NEW r,
         \A p \in 1..n : /\ l[p] = IF p = 1 THEN n ELSE p - 1
                         /\ r[p] = IF p = n THEN 1 ELSE p + 1
  PROVE  Linked(1..n, l, r)
<1> SUFFICES ASSUME NEW p \in 1..n
             PROVE  /\ l[p] \in 1..n /\ r[p] \in 1..n /\ r[l[p]] = p /\ l[r[p]] = p
                    /\ Follows(p, 1..n, r)
  BY DEF Linked
<1>1. l[p] \in 1..n /\ r[p] \in 1..n
  OBVIOUS
<1>2. r[l[p]] = p
  BY <1>1
<1>3. l[r[p]] = p
  BY <1>1
<1>4. Follows(p, 1..n, r)
  BY DEF Follows
<1> QED BY <1>1, <1>2, <1>3, <1>4

\* A new last one, d, between the last and the first.
Adds(A, l, r0, l2, r, d) ==
  /\ A \subseteq Nat /\ d \in Nat /\ Linked(A, l, r0) /\ \A p \in A : p < d
  /\ \A p \in A : p # l[1] => r[p] = r0[p]
  /\ r0[l[1]] = 1 /\ r[l[1]] = d /\ r[d] = 1
  /\ l2[1] = d /\ l2[d] = l[1] /\ \A p \in A : p # 1 => l2[p] = l[p]

LEMMA LinkedAdd ==
  ASSUME NEW A, NEW r0, NEW l, NEW r, NEW l2, NEW d, Adds(A, l, r0, l2, r, d)
  PROVE  Linked(A \union {d}, l2, r)
<1> USE DEF Adds
<1>1. 1 \in A /\ l[1] \in A /\ d \notin A
  BY DEF Linked
<1>2. ASSUME NEW p \in A
      PROVE  l2[p] \in A \union {d} /\ r[p] \in A \union {d}
  BY <1>1, <1>2 DEF Linked
<1>3. ASSUME NEW p \in A
      PROVE  r[l2[p]] = p
  <2>1. CASE p = 1
    BY <2>1
  <2>2. CASE p # 1
    <3>1. l2[p] = l[p] /\ l[p] \in A /\ r0[l[p]] = p
      BY <1>3, <2>2 DEF Linked
    <3>2. l[p] # l[1]
      BY <2>2, <3>1
    <3> QED BY <3>1, <3>2
  <2> QED BY <2>1, <2>2
<1>4. ASSUME NEW p \in A, p # l[1]
      PROVE  r[p] = r0[p] /\ r0[p] \in A /\ r0[p] # 1 /\ l[r0[p]] = p
  BY <1>4 DEF Linked
<1>5. ASSUME NEW p \in A
      PROVE  l2[r[p]] = p
  <2>1. CASE p = l[1]
    BY <2>1
  <2>2. CASE p # l[1]
    <3>1. r[p] = r0[p] /\ r0[p] \in A /\ r0[p] # 1 /\ l[r0[p]] = p
      BY <1>4, <1>5, <2>2
    <3>2. l2[r0[p]] = l[r0[p]]
      BY <3>1
    <3> QED BY <3>1, <3>2
  <2> QED BY <2>1, <2>2
<1>6. ASSUME NEW p \in A
      PROVE  Follows(p, A \union {d}, r)
  <2>1. CASE p = l[1]
    <3>1. \A q \in A : q <= p
      BY <1>1, <2>1 DEF Linked, Follows
    <3>2. r[p] = d /\ d # 1 /\ p < d
      BY <1>1, <2>1
    <3> QED BY <3>1, <3>2 DEF Follows
  <2>2. CASE p # l[1]
    <3>1. /\ r[p] = r0[p] /\ r0[p] \in A /\ r0[p] # 1
          /\ p < r0[p] /\ \A q \in A : q <= p \/ r0[p] <= q
      BY <1>4, <1>6, <2>2 DEF Linked, Follows
    <3>2. r0[p] <= d
      <4>1. r0[p] < d /\ r0[p] \in Nat
        BY <3>1
      <4> QED BY <4>1
    <3> QED BY <3>1, <3>2 DEF Follows
  <2> QED BY <2>1, <2>2
<1>7. Follows(d, A \union {d}, r)
  BY DEF Follows
<1>8. /\ l2[d] \in A \union {d} /\ r[d] \in A \union {d} /\ r[l2[d]] = d /\ l2[r[d]] = d
  BY <1>1
<1> QED BY <1>1, <1>2, <1>3, <1>5, <1>6, <1>7, <1>8 DEF Linked

\* The last one, d, is left out.
Removes(A, l, r0, l2, r, d) ==
  /\ A \subseteq Nat /\ d # 1 /\ Linked(A, l, r0) /\ d = l[1]
  /\ \A p \in A : p # l[d] => r[p] = r0[p]
  /\ r0[l[d]] = d /\ r[l[d]] = 1 /\ r[d] = 1
  /\ l2[1] = l[d] /\ \A p \in A : p # 1 => l2[p] = l[p]

LEMMA LinkedRemove ==
  ASSUME NEW A, NEW r0, NEW l, NEW r, NEW l2, NEW d, Removes(A, l, r0, l2, r, d)
  PROVE  Linked(A \ {d}, l2, r)
<1> USE DEF Removes
<1>1. 1 \in A /\ d \in A /\ l[d] \in A /\ r0[d] = 1
  BY DEF Linked
<1>2. l[d] # d
  BY <1>1
<1>3. \A q \in A : q <= d
  BY <1>1 DEF Linked, Follows
<1>4. ASSUME NEW p \in A, p # d, p # 1
      PROVE  l2[p] = l[p] /\ l[p] \in A /\ l[p] # d /\ l[p] # l[d] /\ r[l[p]] = p
  <2>1. l2[p] = l[p] /\ l[p] \in A /\ r0[l[p]] = p
    BY <1>4 DEF Linked
  <2>2. l[p] # d /\ l[p] # l[d]
    BY <1>1, <1>4, <2>1
  <2> QED BY <2>1, <2>2
<1>5. ASSUME NEW p \in A, p # d, p # l[d]
      PROVE  r[p] = r0[p] /\ r0[p] \in A /\ r0[p] # d /\ r0[p] # 1 /\ l[r0[p]] = p
  <2>1. r[p] = r0[p] /\ r0[p] \in A /\ l[r0[p]] = p
    BY <1>5 DEF Linked
  <2> QED BY <1>5, <2>1
<1>6. ASSUME NEW p \in A, p # d
      PROVE  /\ l2[p] \in A \ {d} /\ r[p] \in A \ {d}
             /\ r[l2[p]] = p /\ l2[r[p]] = p
  <2>1. l2[p] \in A \ {d} /\ r[l2[p]] = p
    BY <1>1, <1>2, <1>4, <1>6
  <2>2. CASE p = l[d]
    BY <1>1, <1>2, <2>1, <2>2
  <2>3. CASE p # l[d]
    <3>1. r[p] \in A /\ r[p] # d /\ r[p] # 1 /\ l[r[p]] = p
      BY <1>5, <1>6, <2>3
    <3> QED BY <2>1, <3>1
  <2> QED BY <2>2, <2>3
<1>7. ASSUME NEW p \in A, p # d
      PROVE  Follows(p, A \ {d}, r)
  <2>1. CASE p = l[d]
    <3>1. r0[p] = d /\ \A q \in A : q <= p \/ d <= q
      BY <1>1, <2>1 DEF Linked, Follows
    <3>2. \A q \in A \ {d} : q <= p
      BY <1>1, <1>3, <3>1
    <3> QED BY <2>1, <3>2 DEF Follows
  <2>2. CASE p # l[d]
    <3>1. /\ r[p] = r0[p] /\ r0[p] \in A \ {d} /\ r0[p] # 1
          /\ p < r0[p] /\ \A q \in A : q <= p \/ r0[p] <= q
      BY <1>5, <1>7, <2>2 DEF Linked, Follows
    <3> QED BY <3>1 DEF Follows
  <2> QED BY <2>1, <2>2
<1> QED BY <1>1, <1>6, <1>7 DEF Linked

\* A step that leaves the ring alone and may let phylo() into the mutex.
LEMMA RingKeeps ==
  ASSUME PhilTypes, RingInv, UNCHANGED <<left, right, firstPhil, count, alive, del>>,
         pc'[PHYLO] = pc[PHYLO] \/ Takes(pc[PHYLO], pc'[PHYLO]),
         "removedLast" \in lapses <=> "removedLast" \in lapses', lapses \subseteq lapses',
         \A p \in Phils : Fresh(p) => state'[p] = "THINKING" /\ pc'[p] = "asleep"
  PROVE  RingInv'
<1>1. RingBase'
  <2>1. \A p \in Phils : Fresh(p)' => Fresh(p)
    BY DEF Fresh, Takes
  <2> QED BY <2>1 DEF RingInv, RingBase, Alive
<1>2. Alive' = Alive
  BY DEF Alive
<1>3. CASE pc'[PHYLO] = pc[PHYLO]
  <2>1. PhaseInv'
    BY <1>2, <1>3 DEF RingInv, PhaseInv
  <2> QED BY <1>1, <2>1 DEF RingInv
<1>4. CASE pc'[PHYLO] # pc[PHYLO]
  <2>1. pc[PHYLO] = "quit" /\ pc'[PHYLO] = "free"
    BY <1>4 DEF Takes, PhilTypes, PcTypes, PhyloLabels, Ends
  <2>2. /\ alive[PHYLO] /\ firstPhil # 0 /\ 1 \in Phils /\ alive[1] /\ del = right[1]
        /\ Linked(Alive \union {1}, left, right)
    BY <2>1, Numbered DEF RingInv, RingBase, PhaseInv, PhilTypes
  <2>3. Alive \union {1} = Alive
    BY <2>2 DEF Alive
  <2>4. 1 \in Alive /\ del \in Alive /\ Follows(1, Alive, right) /\ \A q \in Alive : Follows(q, Alive, right)
    <3>1. Linked(Alive, left, right)
      BY <2>2, <2>3
    <3>2. 1 \in Alive /\ \A q \in Alive : right[q] \in Alive /\ Follows(q, Alive, right)
      BY <3>1 DEF Linked
    <3> QED BY <2>2, <3>2
  <2>5. \A q \in Alive : q \in 1..MaxPhils
    BY Numbered DEF Alive
  <2>6. ASSUME NEW q \in Alive \ {1}
        PROVE  del # 1 /\ del <= q
    <3>1. ~(q <= 1)
      BY <2>5, <2>6, Numbered
    <3> QED BY <2>2, <2>4, <3>1 DEF Follows
  <2>7. PhaseInv'
    BY <1>2, <2>1, <2>2, <2>4, <2>6 DEF PhaseInv
  <2> QED BY <1>1, <2>7 DEF RingInv
<1> QED BY <1>3, <1>4

LEMMA RingPhilo ==
  ASSUME PhilTypes, MutexInv, StateInv, RingInv, NEW p \in Phils, philosopher(p)
  PROVE  RingInv'
<1>1. /\ alive[p] /\ UNCHANGED <<left, right, firstPhil, count, alive, del>>
      /\ "removedLast" \in lapses <=> "removedLast" \in lapses'
      /\ lapses \subseteq lapses'
  <2>1. lapses' \in {lapses, Races}
    BY DEF philosopher, semWaitMutex, Hungry, PutLeft, PutRight, Grant, Leave, OwnSem, test
  <2>2. lapses \subseteq lapses' /\ ("removedLast" \in lapses <=> "removedLast" \in lapses')
    BY <2>1 DEF Races
  <2> QED BY <2>2 DEF philosopher, semWaitMutex, Hungry, PutLeft, PutRight, Grant, Leave, OwnSem, test, At, ringVars
<1>2. p \in 1..count /\ p \in Procs /\ p # PHYLO
  BY <1>1, Numbered DEF RingInv, RingBase, Alive, PhilTypes
<1>3. /\ pc \in [Procs -> Labels] /\ state \in [Phils -> {"EATING", "HUNGRY", "THINKING"}]
      /\ PHYLO \in Procs /\ Phils \subseteq Procs /\ count \in Nat
  BY Numbered DEF PhilTypes, PcTypes
<1>4. ASSUME NEW r \in Phils, Fresh(r)
      PROVE  r # p /\ r \notin Alive /\ state[r] = "THINKING" /\ pc[r] = "asleep"
  <2>1. CASE r > count
    <3>1. ~(r <= count)
      BY <1>2, <1>3, <2>1, Numbered
    <3> QED BY <1>2, <1>4, <3>1 DEF RingInv, RingBase
  <2>2. CASE pc[PHYLO] = "addLeft" /\ r = del
    <3>1. r \notin Alive
      BY <2>2 DEF RingInv, PhaseInv
    <3> QED BY <1>1, <1>4, <3>1 DEF RingInv, RingBase, Alive
  <2> QED BY <1>4, <2>1, <2>2 DEF Fresh
<1>5. CASE semWaitMutex(p)
  <2>1. pc' = pc \/ \E m \in Labels : pc' = [pc EXCEPT ![p] = m]
    BY <1>2, <1>5, WaitFacts
  <2>2. state' = state
    BY <1>5 DEF semWaitMutex
  <2> QED BY <1>1, <1>2, <1>3, <1>4, <2>1, <2>2, RingKeeps
<1>6. CASE Hungry(p) \/ PutLeft(p) \/ PutRight(p)
  <2>1. \E l : pc' = [pc EXCEPT ![p] = l]
    BY <1>6 DEF Hungry, PutLeft, PutRight, test, Goto
  <2>2. \A r \in Phils : r # p => state'[r] = state[r]
    BY <1>3, <1>6 DEF Hungry, PutLeft, PutRight, test
  <2> QED BY <1>1, <1>2, <1>3, <1>4, <2>1, <2>2, RingKeeps
<1>7. CASE Grant(p)
  <2>1. PICK g \in Phils : g = granting[p]
    BY <1>7, GrantFacts
  <2>2. /\ state[g] = "HUNGRY" /\ state' = [state EXCEPT ![g] = "EATING"]
        /\ \E m \in Labels : pc' = [pc EXCEPT ![p] = m]
    BY <1>7, <2>1, GrantFacts
  <2>3. ASSUME NEW r \in Phils, Fresh(r)
        PROVE  state'[r] = "THINKING" /\ pc'[r] = "asleep"
    BY <1>2, <1>3, <1>4, <2>2, <2>3
  <2> QED BY <1>1, <1>2, <1>3, <2>2, <2>3, RingKeeps
<1>8. CASE Leave(p)
  <2>1. PICK l \in {"ownSem", "asleep"} : semPostMutex(p, l) /\ pc[p] \in {"leaveTake", "leavePut"}
    BY <1>8 DEF Leave, At
  <2>2. l \in Labels
    BY DEF Labels, PhilLabels, Critical
  <2>3. \/ pc' = [pc EXCEPT ![p] = l]
        \/ \E m \in Labels : /\ alive[queue[1]] /\ queue[1] \in Procs /\ Takes(pc[queue[1]], m)
                             /\ pc' = [pc EXCEPT ![p] = l, ![queue[1]] = m]
    BY <1>2, <2>1, <2>2, PostFacts
  <2>4. \A r \in Phils : Fresh(r) => pc'[r] = "asleep"
    BY <1>3, <1>4, <2>3 DEF Alive
  <2>5. pc'[PHYLO] = pc[PHYLO] \/ Takes(pc[PHYLO], pc'[PHYLO])
    BY <1>2, <1>3, <2>3
  <2>6. state' = state
    BY <1>8 DEF Leave
  <2> QED BY <1>1, <1>4, <2>4, <2>5, <2>6, RingKeeps
<1>9. CASE OwnSem(p)
  <2>1. pc' = [pc EXCEPT ![p] = "eating"] /\ state' = state
    BY <1>9 DEF OwnSem, Goto
  <2> QED BY <1>1, <1>2, <1>3, <1>4, <2>1, RingKeeps
<1> QED BY <1>5, <1>6, <1>7, <1>8, <1>9 DEF philosopher

LEMMA RingStart ==
  ASSUME PhilTypes, RingInv, phylo
  PROVE  RingInv'
<1>1. /\ pc[PHYLO] = "start" /\ firstPhil = 0 /\ count = 0 /\ alive[PHYLO] /\ PHYLO \in Procs
      /\ pc \in [Procs -> Labels] /\ UNCHANGED <<state, lapses, del>>
  BY Numbered DEF phylo, RingInv, RingBase, PhaseInv
  , PhilTypes, PcTypes
<1>2. \A p \in Phils : p # PHYLO /\ p > 0 /\ p \in Procs
  BY Numbered
<1>3. \A p \in Phils : pc[p] = "asleep" /\ state[p] = "THINKING" /\ ~alive[p]
  BY <1>1, <1>2, Numbered DEF RingInv, RingBase, Alive, Fresh
<1>4. CASE argv # NoArg /\ ~Accepted(argv)
  <2>1. pc' = [pc EXCEPT ![PHYLO] = "refused"] /\ UNCHANGED <<left, right, firstPhil, count, alive>>
    BY <1>4 DEF phylo, Goto
  <2>2. /\ pc'[PHYLO] = "refused" /\ \A p \in Phils : pc'[p] = pc[p]
    BY <1>1, <1>2, <2>1
  <2>3. RingBase'
    BY <1>1, <1>3, <2>1, <2>2 DEF RingInv, RingBase, Alive, Fresh
  <2>4. PhaseInv'
    BY <1>1, <2>1, <2>2 DEF PhaseInv
  <2> QED BY <2>3, <2>4 DEF RingInv
<1>5. CASE ~(argv # NoArg /\ ~Accepted(argv))
  <2> DEFINE m == IF argv = NoArg THEN STARTING ELSE argv
  <2>1. m \in Int /\ m >= 1 /\ m <= MaxPhils
    BY <1>5, PhilosophersAssumption DEF Accepted, PhilTypes, phylo
  <2>2. PICK n \in Int : n = m
    BY <2>1
  <2>3. /\ count' = n /\ firstPhil' = 1 /\ pc' = [pc EXCEPT ![PHYLO] = "keys"]
        /\ left' = [p \in Phils |-> IF p \in 2..n THEN p - 1 ELSE IF p = 1 THEN n ELSE NULL]
        /\ right' = [p \in Phils |-> IF p < n THEN p + 1 ELSE IF p = n THEN 1 ELSE NULL]
        /\ alive' = [p \in Procs |-> p <= n \/ p = PHYLO]
    BY <1>5, <2>2 DEF phylo, Goto
  <2> HIDE DEF m
  <2>4. n \in Nat /\ n >= 1 /\ n <= MaxPhils /\ \A p \in 1..n : p \in Phils
    BY <2>1, <2>2, Numbered
  <2>5. \A p \in 1..n : /\ left'[p] = IF p = 1 THEN n ELSE p - 1
                        /\ right'[p] = IF p = n THEN 1 ELSE p + 1
    BY <2>3, <2>4
  <2>6. \A p \in 1..n : left'[p] \in 1..n /\ right'[p] \in 1..n
    BY <2>4, <2>5
  <2>7. Linked(1..n, left', right')
    BY <2>4, <2>5, LinkedStart
  <2>8. \A p \in Phils : p \in Nat /\ p >= 1 /\ (alive'[p] <=> p <= n)
    <3>1. \A p \in Phils : p \in Nat /\ p >= 1 /\ p # PHYLO /\ p \in Procs
      BY Numbered
    <3>2. ASSUME NEW p \in Phils
          PROVE  alive'[p] <=> p <= n
      <4>1. alive'[p] = (p <= n \/ p = PHYLO)
        BY <2>3, <3>1
      <4> QED BY <3>1, <4>1
    <3> QED BY <3>1, <3>2
  <2>9. Alive' = 1..n /\ (1..n) \union {1} = 1..n
    BY <2>4, <2>8 DEF Alive
  <2>10. pc'[PHYLO] = "keys" /\ alive'[PHYLO] /\ alive'[1] /\ \A p \in Phils : pc'[p] = pc[p]
    <3>1. alive'[PHYLO]
      BY <1>1, <2>3
    <3>2. 1 \in 1..n
      BY <2>4
    <3>3. alive'[1]
      BY <2>4, <2>8, <3>2
    <3> QED BY <1>1, <1>2, <2>3, <3>1, <3>3
  <2>11. RingBase'
    BY <1>1, <1>3, <2>3, <2>4, <2>6, <2>9, <2>10 DEF RingBase, Fresh
  <2>12. PhaseInv'
    <3>1. Linked(Alive' \union {1}, left', right')
      BY <2>7, <2>9
    <3> QED BY <2>3, <2>10, <3>1 DEF PhaseInv
  <2> QED BY <2>11, <2>12 DEF RingInv
<1> QED BY <1>4, <1>5

\* Where phylo() is, and what it needs to know of the others.
LEMMA PhyloGoes ==
  ASSUME PhilTypes, RingInv, NEW l \in PhyloLabels, Goto(PHYLO, l)
  PROVE  /\ pc'[PHYLO] = l /\ PHYLO \in Procs
         /\ \A p \in Phils : pc'[p] = pc[p] /\ p # PHYLO /\ p \in Nat /\ p >= 1
         /\ Alive \subseteq 1..count /\ count \in Nat /\ count <= MaxPhils
<1>1. PHYLO \in Procs /\ \A p \in Phils : p # PHYLO /\ p \in Nat /\ p >= 1 /\ p \in Procs
  BY Numbered
<1>2. pc'[PHYLO] = l /\ \A p \in Phils : pc'[p] = pc[p]
  BY <1>1 DEF Goto, PhilTypes, PcTypes
<1>3. Alive \subseteq 1..count /\ count \in Nat /\ count <= MaxPhils
  BY <1>1, Numbered DEF RingInv, RingBase, Alive, PhilTypes
<1> QED BY <1>1, <1>2, <1>3

LEMMA RingAdd ==
  ASSUME PhilTypes, RingInv, addPhilo
  PROVE  RingInv'
<1> DEFINE A == Alive \union {1}
           d == count + 1
           L == left[1]
<1>1. pc[PHYLO] = "keys" /\ Goto(PHYLO, "addLeft") /\ count < MaxPhils
  BY DEF addPhilo, Key
<1>2. /\ pc'[PHYLO] = "addLeft" /\ PHYLO \in Procs
      /\ \A p \in Phils : pc'[p] = pc[p] /\ p # PHYLO /\ p \in Nat /\ p >= 1
      /\ Alive \subseteq 1..count /\ count \in Nat /\ count <= MaxPhils
  BY <1>1, PhyloGoes DEF PhyloLabels, Ends
<1>3. firstPhil = 1 /\ 1 \in 1..count /\ Linked(A, left, right) /\ alive[PHYLO]
  BY <1>1 DEF RingInv, RingBase, PhaseInv, PhilTypes
<1>4. A \subseteq 1..count /\ 1 \in A /\ L \in A /\ right[L] = 1 /\ d \notin A /\ d \in Phils
  BY <1>1, <1>2, <1>3, Numbered DEF Linked
<1>5. /\ count' = d /\ del' = d /\ left' = [left EXCEPT ![d] = L]
      /\ right' = [right EXCEPT ![d] = 1, ![L] = d]
      /\ UNCHANGED <<state, firstPhil, alive>>
      /\ "removedLast" \in lapses <=> "removedLast" \in lapses'
  BY <1>3 DEF addPhilo, RelinkLapse
<1>6. /\ left \in [Phils -> 0..MaxPhils] /\ right \in [Phils -> 0..MaxPhils]
      /\ \A p \in 1..count : p \in Phils /\ p # d
  BY <1>2, Numbered DEF PhilTypes
<1>7. /\ left'[d] = L /\ right'[d] = 1 /\ right'[L] = d
      /\ \A p \in 1..count : /\ left'[p] = left[p]
                             /\ p # L => right'[p] = right[p]
  BY <1>4, <1>5, <1>6
<1>8. left'[1] = L /\ L # d
  BY <1>3, <1>4, <1>7
<1>9. Alive' = Alive
  BY <1>5 DEF Alive
<1>10. Linked(A, left', [right' EXCEPT ![L] = 1])
  <2>1. L \in DOMAIN right'
    BY <1>4, <1>5, <1>6
  <2> DEFINE undone == [right' EXCEPT ![L] = 1]
  <2>2. \A p \in A : left'[p] = left[p] /\ undone[p] = right[p]
    BY <1>4, <1>5, <1>6, <1>7, <2>1
  <2> HIDE DEF undone
  <2>3. Linked(A, left', undone)
    BY <1>3, <2>2, LinkedSame
  <2> QED BY <2>3 DEF undone
<1>11. RingBase'
  <2>1. \A p \in 1..d : p \in 1..count \/ p = d
    BY <1>2
  <2>2. \A p \in 1..d : left'[p] \in 1..d /\ right'[p] \in 1..d
    <3>1. \A p \in 1..count : left[p] \in 1..count /\ right[p] \in 1..count
      BY DEF RingInv, RingBase
    <3>2. \A x \in 1..count : x \in 1..d
      BY <1>2
    <3>3. d \in 1..d /\ L \in 1..d /\ 1 \in 1..d
      <4>1. L \in 1..count /\ 1 \in 1..count
        BY <1>3, <1>4
      <4>2. d \in 1..d
        BY <1>2
      <4> QED BY <3>2, <4>1, <4>2
    <3> QED BY <1>7, <2>1, <3>1, <3>2, <3>3
  <2>3. ASSUME NEW p \in Phils, Fresh(p)'
        PROVE  state'[p] = "THINKING" /\ pc'[p] = "asleep"
    <3>1. p > d \/ p = d
      BY <1>5, <2>3 DEF Fresh
    <3>2. p > count
      BY <1>2, <3>1
    <3> QED BY <1>2, <1>5, <3>2 DEF RingInv, RingBase, Fresh
  <2>4. \A p \in Alive : p <= d
    BY <1>2
  <2>5. firstPhil' = 1 /\ 1 \in 1..d
    BY <1>2, <1>3, <1>5
  <2>6. /\ \A p \in Alive' : p <= count'
        /\ \A p \in 1..count' : left'[p] \in 1..count' /\ right'[p] \in 1..count'
        /\ \A p \in Phils : Fresh(p)' => state'[p] = "THINKING" /\ pc'[p] = "asleep"
        /\ 1 \in 1..count'
    BY <1>5, <1>9, <2>2, <2>3, <2>4, <2>5
  <2> QED BY <2>5, <2>6 DEF RingBase
<1>12. PhaseInv'
  <2>1. d \in 1..d
    BY <1>2
  <2>2. alive'[1] \/ "removedLast" \in lapses'
    BY <1>1, <1>5 DEF RingInv, PhaseInv
  <2>3. Linked(Alive' \union {1}, left', [right' EXCEPT ![left'[1]] = 1])
    BY <1>8, <1>9, <1>10
  <2>4. /\ del' = count' /\ del' \notin Alive' \union {1} /\ del' \in 1..count'
        /\ left'[del'] = left'[1] /\ right'[del'] = 1 /\ right'[left'[1]] = del'
    BY <1>4, <1>5, <1>7, <1>8, <1>9, <2>1
  <2>5. firstPhil' = 1 /\ alive'[PHYLO]
    BY <1>3, <1>5
  <2> QED BY <1>2, <2>2, <2>3, <2>4, <2>5 DEF PhaseInv
<1> QED BY <1>11, <1>12 DEF RingInv

LEMMA RingLoad ==
  ASSUME PhilTypes, RingInv, AddLoad
  PROVE  RingInv'
<1> DEFINE A == Alive \union {1}
           L == left[1]
           r0 == [right EXCEPT ![left[1]] = 1]
<1>1. pc[PHYLO] = "addLeft" /\ Goto(PHYLO, "keys")
  BY DEF AddLoad
<1>2. /\ pc'[PHYLO] = "keys" /\ PHYLO \in Procs
      /\ \A p \in Phils : pc'[p] = pc[p] /\ p # PHYLO /\ p \in Nat /\ p >= 1
      /\ Alive \subseteq 1..count /\ count \in Nat /\ count <= MaxPhils
  BY <1>1, PhyloGoes DEF PhyloLabels, Ends
<1>3. PICK d \in 1..count : d = del
  BY <1>1 DEF RingInv, PhaseInv
<1>4. /\ firstPhil = 1 /\ 1 \in 1..count /\ alive[PHYLO] /\ d = count /\ d \notin A
      /\ left[d] = L /\ right[d] = 1 /\ right[L] = d /\ Linked(A, left, r0)
      /\ alive[1] \/ "removedLast" \in lapses
  BY <1>1, <1>3 DEF RingInv, RingBase, PhaseInv, PhilTypes
<1>5. /\ left' = [left EXCEPT ![1] = d] /\ alive' = [alive EXCEPT ![d] = TRUE]
      /\ UNCHANGED <<state, right, firstPhil, count>>
      /\ "removedLast" \in lapses <=> "removedLast" \in lapses'
  BY <1>3, <1>4 DEF AddLoad, RelinkLapse
<1>6. /\ left \in [Phils -> 0..MaxPhils] /\ right \in [Phils -> 0..MaxPhils]
      /\ alive \in [Procs -> BOOLEAN] /\ \A p \in 1..count : p \in Phils /\ p \in Procs
  BY <1>2, Numbered DEF PhilTypes
<1>7. A \subseteq 1..count /\ 1 \in A /\ L \in A /\ 1 # d
  BY <1>2, <1>4 DEF Linked
<1>8. /\ left'[1] = d /\ left'[d] = L /\ \A p \in A : p # 1 => left'[p] = left[p]
  BY <1>4, <1>5, <1>6, <1>7
<1>9. /\ r0[L] = 1 /\ \A p \in A : p # L => right[p] = r0[p]
  BY <1>6, <1>7
<1>10. Linked(A \union {d}, left', right)
  <2>1. A \subseteq Nat /\ d \in Nat /\ \A p \in A : p < d
    BY <1>2, <1>4, <1>7
  <2>2. /\ Linked(A, left, r0) /\ \A p \in A : p # left[1] => right[p] = r0[p]
        /\ r0[left[1]] = 1 /\ right[left[1]] = d /\ right[d] = 1
        /\ left'[1] = d /\ left'[d] = left[1] /\ \A p \in A : p # 1 => left'[p] = left[p]
    BY <1>4, <1>8, <1>9
  <2>3. Adds(A, left, r0, left', right, d)
    BY <2>1, <2>2 DEF Adds
  <2> QED BY <2>3, LinkedAdd
<1>11. /\ alive'[d] /\ alive'[PHYLO] /\ \A p \in Phils : p # d => alive'[p] = alive[p]
  BY <1>2, <1>3, <1>4, <1>5, <1>6
<1>12. Alive' = Alive \union {d}
  BY <1>3, <1>6, <1>11 DEF Alive
<1>13. Alive' \union {1} = A \union {d}
  BY <1>12
<1>14. RingBase'
  <2>1. \A p \in 1..count : left'[p] \in 1..count
    <3>1. \A p \in 1..count : p # 1 => left'[p] = left[p]
      BY <1>5, <1>6
    <3> QED BY <1>3, <1>8, <3>1 DEF RingInv, RingBase
  <2>2. \A p \in Alive' : p <= count
    BY <1>2, <1>4, <1>12
  <2> QED BY <1>2, <1>5, <2>1, <2>2 DEF RingInv, RingBase, Fresh
<1>15. PhaseInv'
  <2>1. alive'[1] \/ "removedLast" \in lapses'
    BY <1>4, <1>5, <1>6, <1>7, <1>11
  <2>2. Linked(Alive' \union {1}, left', right')
    BY <1>5, <1>10, <1>13
  <2> QED BY <1>2, <1>4, <1>5, <1>11, <2>1, <2>2 DEF PhaseInv
<1> QED BY <1>14, <1>15 DEF RingInv

LEMMA RingRemove ==
  ASSUME PhilTypes, RingInv, removePhilo
  PROVE  RingInv'
<1> DEFINE A == Alive \union {1}
           d == left[1]
<1>1. pc[PHYLO] = "keys" /\ Goto(PHYLO, "removeLeft") /\ "removedLast" \notin lapses
  BY DEF removePhilo, Key
<1>2. /\ pc'[PHYLO] = "removeLeft" /\ PHYLO \in Procs
      /\ \A p \in Phils : pc'[p] = pc[p] /\ p # PHYLO /\ p \in Nat /\ p >= 1
      /\ Alive \subseteq 1..count /\ count \in Nat /\ count <= MaxPhils
  BY <1>1, PhyloGoes DEF PhyloLabels, Ends
<1>3. firstPhil = 1 /\ 1 \in 1..count /\ alive[1] /\ alive[PHYLO] /\ Linked(A, left, right)
  BY <1>1 DEF RingInv, RingBase, PhaseInv, PhilTypes
<1>4. A \subseteq 1..count /\ d \in A /\ right[d] = 1 /\ left[d] \in A /\ right[left[d]] = d
  BY <1>2, <1>3 DEF Linked
<1>5. /\ del' = d /\ right' = [right EXCEPT ![left[d]] = 1]
      /\ UNCHANGED <<state, left, firstPhil, count, alive>>
  <2>1. del' = d
    BY <1>3 DEF removePhilo
  <2>2. right' = [right EXCEPT ![left[d]] = right[d]]
    BY <2>1 DEF removePhilo
  <2> QED BY <1>4, <2>1, <2>2 DEF removePhilo
<1>6. "removedLast" \notin lapses'
  BY <1>1 DEF removePhilo, RelinkLapse
<1>7. right \in [Phils -> 0..MaxPhils] /\ \A p \in 1..count : p \in Phils
  BY <1>2, Numbered DEF PhilTypes
<1>8. right'[left[d]] = 1 /\ \A p \in 1..count : p # left[d] => right'[p] = right[p]
  BY <1>4, <1>5, <1>7
<1>9. right'[d] = 1
  BY <1>4, <1>8
<1>10. Linked(A, left, [right' EXCEPT ![left[d]] = d])
  <2> DEFINE undone == [right' EXCEPT ![left[d]] = d]
  <2>1. \A p \in A : undone[p] = right[p]
    BY <1>4, <1>5, <1>7, <1>8
  <2> HIDE DEF undone
  <2>2. Linked(A, left, right) /\ \A p \in A : left[p] = left[p] /\ undone[p] = right[p]
    BY <1>3, <2>1
  <2>3. Linked(A, left, undone)
    BY <2>2, LinkedSame
  <2> QED BY <2>3 DEF undone
<1>11. Alive' = Alive
  BY <1>5 DEF Alive
<1>12. RingBase'
  <2>1. \A p \in 1..count : right'[p] \in 1..count
    BY <1>3, <1>8 DEF RingInv, RingBase
  <2> QED BY <1>2, <1>5, <1>11, <2>1 DEF RingInv, RingBase, Fresh
<1>13. PhaseInv'
  <2>1. Linked(Alive' \union {1}, left', [right' EXCEPT ![left'[del']] = del'])
    BY <1>5, <1>10, <1>11
  <2>2. del' = left'[1] /\ right'[del'] = 1 /\ right'[left'[del']] = 1
    BY <1>5, <1>8, <1>9
  <2> QED BY <1>2, <1>3, <1>5, <1>6, <2>1, <2>2 DEF PhaseInv
<1> QED BY <1>12, <1>13 DEF RingInv

LEMMA RingUnlink ==
  ASSUME PhilTypes, RingInv, RemoveUnlink
  PROVE  RingInv'
<1> DEFINE A == Alive \union {1}
           r0 == [right EXCEPT ![left[del]] = del]
<1>1. pc[PHYLO] = "removeLeft" /\ Goto(PHYLO, "removeFree")
  BY DEF RemoveUnlink
<1>2. /\ pc'[PHYLO] = "removeFree" /\ PHYLO \in Procs
      /\ \A p \in Phils : pc'[p] = pc[p] /\ p # PHYLO /\ p \in Nat /\ p >= 1
      /\ Alive \subseteq 1..count /\ count \in Nat /\ count <= MaxPhils
  BY <1>1, PhyloGoes DEF PhyloLabels, Ends
<1>3. /\ firstPhil = 1 /\ 1 \in 1..count /\ alive[1] /\ alive[PHYLO] /\ "removedLast" \notin lapses
      /\ del = left[1] /\ right[del] = 1 /\ right[left[del]] = 1 /\ Linked(A, left, r0)
  BY <1>1 DEF RingInv, RingBase, PhaseInv, PhilTypes
<1>4. A = Alive /\ A \subseteq 1..count /\ 1 \in A /\ del \in A /\ left[del] \in A
  <2>1. 1 \in Alive
    BY <1>2, <1>3, Numbered DEF Alive
  <2>2. A = Alive
    BY <2>1
  <2> QED BY <1>2, <1>3, <2>1, <2>2 DEF Linked
<1>5. /\ left' = [left EXCEPT ![1] = left[del]]
      /\ UNCHANGED <<state, right, firstPhil, count, alive, del>>
  BY <1>3 DEF RemoveUnlink
<1>6. "removedLast" \notin lapses'
  BY <1>3 DEF RemoveUnlink, RelinkLapse
<1>7. /\ left \in [Phils -> 0..MaxPhils] /\ right \in [Phils -> 0..MaxPhils]
      /\ \A p \in 1..count : p \in Phils
  BY <1>2, Numbered DEF PhilTypes
<1>8. /\ left'[1] = left[del] /\ \A p \in 1..count : p # 1 => left'[p] = left[p]
  BY <1>3, <1>5, <1>7
<1>9. Alive' = Alive
  BY <1>5 DEF Alive
<1>10. RingBase'
  <2>1. \A p \in 1..count : left'[p] \in 1..count
    BY <1>4, <1>8 DEF RingInv, RingBase
  <2> QED BY <1>2, <1>5, <1>9, <2>1 DEF RingInv, RingBase, Fresh
<1>11. (del = 1 => Alive = {1}) /\ Linked((Alive \ {del}) \union {1}, left', right)
  <2>1. CASE del = 1
    <3>1. \A q \in A : q <= 1
      <4>1. r0[1] = 1
        BY <1>3, <1>4, <1>7, <2>1
      <4> QED BY <1>3, <1>4, <4>1 DEF Linked, Follows
    <3>2. \A q \in A : q = 1
      BY <1>2, <1>4, <3>1
    <3>3. Alive = {1}
      BY <1>4, <3>2
    <3>4. Linked(A, left', right)
      <4>1. left'[1] = left[1] /\ r0[1] = right[1]
        BY <1>3, <1>4, <1>7, <1>8, <2>1
      <4>2. \A p \in A : left'[p] = left[p] /\ right[p] = r0[p]
        BY <3>2, <4>1
      <4>3. Linked(A, left, r0)
        BY <1>3
      <4> HIDE DEF A, r0
      <4> QED BY <4>2, <4>3, LinkedSame
    <3>5. A = (Alive \ {del}) \union {1}
      BY <2>1, <3>3
    <3> QED BY <3>3, <3>4, <3>5
  <2>2. CASE del # 1
    <3>1. r0[left[del]] = del /\ \A p \in A : p # left[del] => right[p] = r0[p]
      BY <1>4, <1>7
    <3>2. \A p \in A : p # 1 => left'[p] = left[p]
      BY <1>4, <1>8
    <3>3. A \subseteq Nat
      BY <1>4
    <3>4. Linked(A \ {del}, left', right)
      <4>1. /\ Linked(A, left, r0) /\ del = left[1] /\ r0[left[del]] = del
            /\ right[left[del]] = 1 /\ right[del] = 1 /\ left'[1] = left[del]
        BY <1>3, <1>8, <3>1
      <4>2. Removes(A, left, r0, left', right, del)
        BY <2>2, <3>1, <3>2, <3>3, <4>1 DEF Removes
      <4> QED BY <4>2, LinkedRemove
    <3>5. A \ {del} = (Alive \ {del}) \union {1}
      BY <2>2, <1>4
    <3> QED BY <2>2, <3>4, <3>5
  <2> QED BY <2>1, <2>2
<1>12. PhaseInv'
  <2>1. Linked((Alive' \ {del'}) \union {1}, left', right') /\ (del' = 1 => Alive' = {1})
    BY <1>5, <1>9, <1>11
  <2>2. del' \in Alive'
    BY <1>4, <1>5, <1>9
  <2> QED BY <1>2, <1>3, <1>5, <1>6, <2>1, <2>2 DEF PhaseInv
<1> QED BY <1>10, <1>12 DEF RingInv

\* phylo() frees: it only goes on.
LEMMA RingFreeing ==
  ASSUME PhilTypes, RingInv, Freeing
  PROVE  RingInv'
<1>1. PICK l \in PhyloLabels : /\ Goto(PHYLO, l)
                              /\ \/ pc[PHYLO] = "removeFree" /\ l = "removeKill"
                                 \/ pc[PHYLO] = "free" /\ l = "freeKill"
                                 \/ pc[PHYLO] = "last" /\ l = "lastKill"
  BY FreeingFacts
<1>2. pc'[PHYLO] = l /\ \A p \in Phils : pc'[p] = pc[p]
  BY <1>1, PhyloGoes
<1>3. UNCHANGED <<state, left, right, firstPhil, count, alive, del, lapses>> /\ Alive' = Alive
  BY FreeingFacts DEF Alive
<1>4. RingBase'
  BY <1>1, <1>2, <1>3 DEF RingInv, RingBase, Fresh
<1>5. PhaseInv'
  BY <1>1, <1>2, <1>3 DEF RingInv, PhaseInv
<1> QED BY <1>4, <1>5 DEF RingInv

\* It goes astray: nothing is known of the ring any more.
LEMMA RingReused ==
  ASSUME PhilTypes, RingInv, Reused, UNCHANGED <<state, left, right, firstPhil, count>>,
         pc[PHYLO] \in {"removeKill", "freeKill", "lastKill"}
  PROVE  RingInv'
<1>1. /\ pc'[PHYLO] = "astray" /\ "reused" \in lapses' /\ \A p \in Phils : pc'[p] = pc[p]
      /\ Alive' \subseteq Alive
  BY ReusedFacts, Numbered DEF Alive
<1>2. RingBase'
  BY <1>1 DEF RingInv, RingBase, Fresh
<1>3. PhaseInv'
  BY <1>1 DEF RingInv, PhaseInv
<1> QED BY <1>2, <1>3 DEF RingInv

LEMMA RingKill ==
  ASSUME PhilTypes, RingInv, RemoveKill
  PROVE  RingInv'
<1>0. SUFFICES ASSUME ~Reused PROVE RingInv'
  BY RingReused DEF RemoveKill, ringVars
<1>1. pc[PHYLO] = "removeKill" /\ Goto(PHYLO, "keys")
  BY <1>0 DEF RemoveKill
<1>2. /\ pc'[PHYLO] = "keys" /\ PHYLO \in Procs
      /\ \A p \in Phils : pc'[p] = pc[p] /\ p # PHYLO /\ p \in Nat /\ p >= 1
      /\ Alive \subseteq 1..count /\ count \in Nat /\ count <= MaxPhils
  BY <1>1, PhyloGoes DEF PhyloLabels, Ends
<1>3. PICK d \in Alive : d = del
  BY <1>1 DEF RingInv, PhaseInv
<1>4. /\ firstPhil = 1 /\ 1 \in Phils /\ alive[PHYLO]
      /\ alive[1] \/ "removedLast" \in lapses
      /\ d \in Phils /\ d # PHYLO /\ d \in Procs
      /\ Linked((Alive \ {d}) \union {1}, left, right)
  <2>1. Phils \subseteq Procs
    BY Numbered
  <2> QED BY <1>1, <1>2, <1>3, <2>1, Numbered DEF RingInv, RingBase, PhaseInv, PhilTypes, Alive
<1>5. /\ alive' = [alive EXCEPT ![d] = FALSE]
      /\ UNCHANGED <<state, left, right, firstPhil, count>>
      /\ "removedLast" \in lapses \/ d = 1 => "removedLast" \in lapses'
  BY <1>0, <1>3, <1>4 DEF RemoveKill, KillDel, ringVars, Lapses
<1>6. /\ ~alive'[d] /\ alive'[PHYLO] /\ \A p \in Phils : p # d => alive'[p] = alive[p]
  <2>1. alive \in [Procs -> BOOLEAN] /\ Phils \subseteq Procs
    BY Numbered DEF PhilTypes
  <2> QED BY <1>2, <1>4, <1>5, <2>1
<1>7. Alive' = Alive \ {d}
  BY <1>6 DEF Alive
<1>8. RingBase'
  BY <1>2, <1>5, <1>7 DEF RingInv, RingBase, Fresh
<1>9. PhaseInv'
  <2>1. alive'[1] \/ "removedLast" \in lapses'
    BY <1>4, <1>5, <1>6
  <2>2. Linked(Alive' \union {1}, left', right')
    BY <1>4, <1>5, <1>7
  <2> QED BY <1>2, <1>4, <1>5, <1>6, <2>1, <2>2 DEF PhaseInv
<1> QED BY <1>8, <1>9 DEF RingInv

LEMMA RingQuit ==
  ASSUME PhilTypes, RingInv, Quit
  PROVE  RingInv'
<1>1. pc[PHYLO] = "keys" /\ Goto(PHYLO, "quit") /\ "removedLast" \notin lapses
  BY DEF Quit, Key
<1>2. /\ pc'[PHYLO] = "quit" /\ PHYLO \in Procs /\ \A p \in Phils : pc'[p] = pc[p]
  BY <1>1, PhyloGoes DEF PhyloLabels, Ends
<1>3. /\ UNCHANGED <<state, left, right, firstPhil, count, alive, lapses>>
      /\ firstPhil = 1 /\ del' = right[1]
  BY <1>1 DEF Quit, ringVars, RingInv, PhaseInv, PhilTypes
<1>4. Alive' = Alive
  BY <1>3 DEF Alive
<1>5. RingBase'
  BY <1>2, <1>3, <1>4 DEF RingInv, RingBase, Fresh
<1>6. PhaseInv'
  BY <1>1, <1>2, <1>3, <1>4 DEF RingInv, PhaseInv
<1> QED BY <1>5, <1>6 DEF RingInv

\* end() goes round the ring once, and then to the first one.
LEMMA RingFree ==
  ASSUME PhilTypes, RingInv, freePhilo
  PROVE  RingInv'
<1> DEFINE l == IF pc[PHYLO] = "lastKill" THEN "leave"
                ELSE IF right[del] = firstPhil THEN "last" ELSE "free"
<1>0. SUFFICES ASSUME ~Reused PROVE RingInv'
  BY RingReused DEF freePhilo, ringVars
<1>1. pc[PHYLO] \in {"freeKill", "lastKill"} /\ Goto(PHYLO, l) /\ l \in PhyloLabels
  BY <1>0 DEF freePhilo, PhyloLabels, Ends
<1>2. /\ pc'[PHYLO] = l /\ PHYLO \in Procs
      /\ \A p \in Phils : pc'[p] = pc[p] /\ p # PHYLO /\ p \in Nat /\ p >= 1
      /\ Alive \subseteq 1..count /\ count \in Nat /\ count <= MaxPhils
  BY <1>1, PhyloGoes
<1>3. firstPhil = 1 /\ 1 \in 1..count /\ alive[PHYLO]
  BY <1>1 DEF RingInv, RingBase, PhaseInv, PhilTypes
<1>4. PICK d \in 1..count : d = del
  BY <1>1, <1>2, <1>3 DEF RingInv, PhaseInv
<1>5. /\ alive' = [alive EXCEPT ![d] = FALSE] /\ del' = right[d]
      /\ UNCHANGED <<state, left, right, firstPhil, count, lapses>>
      /\ d \in Phils /\ d # PHYLO /\ d \in Procs
  BY <1>0, <1>2, <1>4, Numbered DEF freePhilo, KillDel, ringVars
<1>6. /\ ~alive'[d] /\ alive'[PHYLO] /\ \A p \in Phils : p # d => alive'[p] = alive[p]
  <2>1. alive \in [Procs -> BOOLEAN] /\ Phils \subseteq Procs
    BY Numbered DEF PhilTypes
  <2> QED BY <1>2, <1>3, <1>5, <2>1
<1>7. Alive' = Alive \ {d}
  BY <1>6 DEF Alive
<1>8. RingBase'
  <2>1. ~(pc'[PHYLO] \in {"start", "refused", "addLeft"})
    BY <1>2
  <2> QED BY <1>2, <1>5, <1>7, <2>1 DEF RingInv, RingBase, Fresh
<1>9. CASE pc[PHYLO] = "lastKill"
  <2>1. Alive' = {} /\ pc'[PHYLO] = "leave"
    BY <1>2, <1>4, <1>7, <1>9 DEF RingInv, PhaseInv
  <2> QED BY <1>3, <1>5, <1>6, <1>8, <2>1 DEF RingInv, PhaseInv
<1>10. CASE pc[PHYLO] = "freeKill" /\ d = 1
  <2>1. right[1] = 1 /\ Alive \subseteq {1}
    BY <1>4, <1>10 DEF RingInv, PhaseInv
  <2>2. pc'[PHYLO] = "last" /\ del' = 1 /\ Alive' \subseteq {1}
    BY <1>2, <1>3, <1>4, <1>5, <1>7, <1>10, <2>1
  <2> QED BY <1>3, <1>5, <1>6, <1>8, <2>2 DEF RingInv, PhaseInv
<1>11. CASE pc[PHYLO] = "freeKill" /\ d # 1
  <2>0. /\ 1 \in Alive /\ d \in Alive
        /\ \A q \in Alive \ {1} : d <= q /\ Follows(q, Alive, right)
    BY <1>4, <1>11 DEF RingInv, PhaseInv
  <2>1. Follows(d, Alive, right)
    BY <1>11, <2>0
  <2>2. \A q \in Alive' : q \in Alive /\ q # d /\ q \in Nat /\ q >= 1
    BY <1>2, <1>7
  <2>3. 1 \in Alive' /\ d \in Nat /\ d >= 1
    BY <1>2, <1>7, <1>11, <2>0
  <2>4. CASE right[d] = 1
    <3>1. \A q \in Alive' : q = 1
      <4>1. \A q \in Alive : q <= d
        BY <2>1, <2>4 DEF Follows
      <4>2. ASSUME NEW q \in Alive', q # 1
            PROVE  FALSE
        <5>1. d <= q /\ q <= d /\ q # d
          BY <2>0, <2>2, <4>1, <4>2
        <5> QED BY <2>2, <2>3, <5>1
      <4> QED BY <4>2
    <3>2. pc'[PHYLO] = "last" /\ del' = 1 /\ Alive' \subseteq {1}
      BY <1>2, <1>3, <1>4, <1>5, <1>11, <2>4, <3>1
    <3>3. PhaseInv'
      BY <1>3, <1>5, <1>6, <3>2 DEF PhaseInv
    <3> QED BY <1>8, <3>3 DEF RingInv
  <2>5. CASE right[d] # 1
    <3>1. right[d] \in Alive /\ d < right[d] /\ \A q \in Alive : q <= d \/ right[d] <= q
      BY <2>1, <2>5 DEF Follows
    <3>2. right[d] \in Alive'
      BY <1>2, <1>7, <3>1
    <3>3. ASSUME NEW q \in Alive' \ {1}
          PROVE  right[d] # 1 /\ right[d] <= q /\ Follows(q, Alive', right)
      <4>1. d <= q /\ q # d /\ q \in Nat /\ Follows(q, Alive, right)
        BY <2>0, <2>2, <3>3
      <4>2. ~(q <= d)
        BY <2>3, <4>1
      <4>3. right[d] <= q
        BY <2>2, <3>1, <3>3, <4>2
      <4>4. Follows(q, Alive', right)
        <5>1. CASE right[q] = 1
          BY <2>2, <4>1, <5>1 DEF Follows
        <5>2. CASE right[q] # 1
          <6>1. right[q] \in Alive /\ q < right[q] /\ \A x \in Alive : x <= q \/ right[q] <= x
            BY <4>1, <5>2 DEF Follows
          <6>2. right[q] # d
            BY <2>3, <4>1, <4>2, <6>1
          <6>3. right[q] \in Alive'
            BY <1>7, <6>1, <6>2
          <6> QED BY <2>2, <5>2, <6>1, <6>3 DEF Follows
        <5> QED BY <5>1, <5>2
      <4> QED BY <2>5, <4>3, <4>4
    <3>4. PhaseInv'
      <4>1. /\ 1 \in Alive' /\ del' \in Alive'
            /\ \A q \in Alive' \ {1} : del' # 1 /\ del' <= q /\ Follows(q, Alive', right')
        BY <1>5, <2>3, <3>2, <3>3
      <4>2. pc'[PHYLO] = "free" /\ del' # 1
        BY <1>2, <1>3, <1>4, <1>5, <1>11, <2>5
      <4> QED BY <1>3, <1>5, <1>6, <4>1, <4>2 DEF PhaseInv
    <3> QED BY <1>8, <3>4 DEF RingInv
  <2> QED BY <2>4, <2>5
<1> QED BY <1>1, <1>9, <1>10, <1>11

LEMMA RingExit ==
  ASSUME PhilTypes, MutexInv, RingInv, Exit
  PROVE  RingInv'
<1>0. /\ UNCHANGED <<state, left, right, firstPhil, count, del, lapses>>
      /\ alive' = [alive EXCEPT ![PHYLO] = FALSE]
  BY DEF Exit, ringVars
<1>1. \A p \in Phils : alive'[p] = alive[p]
  BY <1>0, Numbered DEF PhilTypes
<1>2. Alive' = Alive
  BY <1>1 DEF Alive
<1>3. CASE pc[PHYLO] = "leave" /\ semPostMutex(PHYLO, "exited")
  <2>1. Alive = {} /\ firstPhil # 0
    BY <1>3 DEF RingInv, PhaseInv
  <2>2. /\ PHYLO \in Procs /\ "exited" \in Labels /\ pc[PHYLO] \in {"leaveTake", "leavePut", "leave"}
    BY <1>3, Numbered DEF Labels, PhyloLabels, Ends
  <2>3. \/ pc' = [pc EXCEPT ![PHYLO] = "exited"]
        \/ \E m \in Labels : /\ alive[queue[1]] /\ queue[1] # PHYLO /\ queue[1] \in Procs
                             /\ pc' = [pc EXCEPT ![PHYLO] = "exited", ![queue[1]] = m]
    BY <1>3, <2>2, PostFacts
  <2>4. pc' = [pc EXCEPT ![PHYLO] = "exited"]
    BY <2>1, <2>3, Numbered DEF Alive
  <2>5. pc'[PHYLO] = "exited" /\ \A p \in Phils : pc'[p] = pc[p]
    BY <2>2, <2>4, Numbered DEF PhilTypes, PcTypes
  <2>6. RingBase'
    BY <1>0, <1>2, <2>5 DEF RingInv, RingBase, Fresh
  <2>7. PhaseInv'
    BY <1>0, <1>2, <2>1, <2>5 DEF PhaseInv
  <2> QED BY <2>6, <2>7 DEF RingInv
<1>4. CASE Key("EOF", "gone")
  <2>1. pc'[PHYLO] = "gone" /\ \A p \in Phils : pc'[p] = pc[p]
    BY <1>4, PhyloGoes DEF Key, PhyloLabels, Ends
  <2>2. RingBase'
    BY <1>0, <1>2, <2>1 DEF RingInv, RingBase, Fresh
  <2>3. /\ firstPhil = 1 /\ 1 \in Phils
        /\ alive[1] \/ "removedLast" \in lapses
        /\ Linked(Alive \union {1}, left, right)
    BY <1>4, Numbered DEF Key, RingInv, RingBase, PhaseInv, PhilTypes
  <2>4. PhaseInv'
    <3>1. Linked(Alive' \union {1}, left', right')
      BY <1>0, <1>2, <2>3
    <3>2. (alive'[1] \/ "removedLast" \in lapses') /\ firstPhil' = 1
      BY <1>0, <1>1, <2>3
    <3> QED BY <2>1, <3>1, <3>2 DEF PhaseInv
  <2> QED BY <2>2, <2>4 DEF RingInv
<1> QED BY <1>3, <1>4 DEF Exit

LEMMA RingNext ==
  PhilTypes /\ MutexInv /\ StateInv /\ RingInv /\ [Next]_vars => RingInv'
<1> SUFFICES ASSUME PhilTypes, MutexInv, StateInv, RingInv, [Next]_vars
             PROVE  RingInv'
  OBVIOUS
<1>1. CASE UNCHANGED vars
  BY <1>1 DEF vars, RingInv, RingBase, PhaseInv, Alive, Fresh
<1>2. CASE semWaitMutex(PHYLO)
  <2>1. /\ UNCHANGED <<left, right, firstPhil, count, alive, del, lapses, state>>
    BY <1>2 DEF semWaitMutex, ringVars
  <2>2. pc' = pc \/ \E m \in Labels : Takes(pc[PHYLO], m) /\ pc' = [pc EXCEPT ![PHYLO] = m]
    BY <1>2, WaitFacts, Numbered
  <2>3. /\ pc'[PHYLO] = pc[PHYLO] \/ Takes(pc[PHYLO], pc'[PHYLO])
        /\ \A p \in Phils : pc'[p] = pc[p]
    BY <2>2, Numbered DEF PhilTypes, PcTypes
  <2>4. \A p \in Phils : Fresh(p) => state'[p] = "THINKING" /\ pc'[p] = "asleep"
    BY <2>1, <2>3 DEF RingInv, RingBase
  <2> QED BY <2>1, <2>3, <2>4, RingKeeps
<1> QED BY <1>1, <1>2, StepCases, RingPhilo, RingStart, RingAdd, RingLoad, RingRemove, RingUnlink,
           RingFreeing, RingKill, RingQuit, RingFree, RingExit

-----------------------------------------------------------------------------
(* No two neighbours eat.                                                  *)

Tests == {"grantSelf", "grantLeft", "grantRight"}

LEMMA LapsesGrow == [Next]_vars => lapses \subseteq lapses'
<1> SUFFICES ASSUME [Next]_vars PROVE lapses \subseteq lapses'
  OBVIOUS
<1>1. CASE UNCHANGED vars
  BY <1>1 DEF vars
<1>2. ASSUME NEW p \in Phils, philosopher(p)
      PROVE  lapses \subseteq lapses'
  BY <1>2 DEF philosopher, semWaitMutex, Hungry, PutLeft, PutRight, Grant, Leave, OwnSem, test, Races
<1>3. CASE phylo \/ semWaitMutex(PHYLO) \/ Freeing \/ Quit \/ freePhilo \/ Exit
  BY <1>3, FreeingFacts DEF phylo, semWaitMutex, Quit, freePhilo, Reused, Exit
<1>4. CASE addPhilo \/ AddLoad \/ removePhilo \/ RemoveUnlink \/ RemoveKill
  BY <1>4 DEF addPhilo, AddLoad, removePhilo, RemoveUnlink, RemoveKill, Reused
<1> QED BY <1>1, <1>2, <1>3, <1>4, StepCases

\* A philosopher's step that is neither a test nor a grant moves it, and perhaps the
\* one it wakes, and changes no state.
LEMMA PhiloMoves ==
  ASSUME PhilTypes, MutexInv, NEW p \in Phils,
         semWaitMutex(p) \/ Leave(p) \/ OwnSem(p)
  PROVE  /\ UNCHANGED <<state, left, right, firstPhil, count, alive, del, granting, lapses>>
         /\ \A r \in Phils : \/ Passes(pc[r], pc'[r])
                             \/ r = p /\ pc[r] = "ownSem" /\ pc'[r] = "eating"
<1>0. pc \in [Procs -> Labels] /\ Phils \subseteq Procs /\ p \in Procs
  BY Numbered DEF PhilTypes, PcTypes
<1>1. UNCHANGED <<state, left, right, firstPhil, count, alive, del, granting, lapses>>
  BY DEF semWaitMutex, Leave, OwnSem, ringVars
<1>2. CASE semWaitMutex(p)
  <2>1. pc' = pc \/ \E m \in Labels : Takes(pc[p], m) /\ pc' = [pc EXCEPT ![p] = m]
    BY <1>0, <1>2, WaitFacts
  <2> QED BY <1>0, <1>1, <2>1 DEF Passes
<1>3. CASE Leave(p)
  <2>1. PICK l \in {"ownSem", "asleep"} : /\ semPostMutex(p, l) /\ Passes(pc[p], l)
                                          /\ pc[p] \in {"leaveTake", "leavePut"}
    BY <1>3 DEF Leave, At, Passes
  <2>2. l \in Labels
    BY DEF Labels, PhilLabels, Critical
  <2>3. \A r \in Phils : Passes(pc[r], pc'[r])
    BY <1>0, <2>1, <2>2, PostPasses DEF Passes
  <2> QED BY <1>1, <2>3
<1>4. CASE OwnSem(p)
  BY <1>0, <1>1, <1>4 DEF OwnSem, At, Goto, Passes
<1> QED BY <1>2, <1>3, <1>4

\* A test, whichever it is: p looks at q with its own new state.
LEMMA TestFacts ==
  ASSUME PhilTypes, MutexInv, StateInv, RingInv, NEW p \in Phils,
         Hungry(p) \/ PutLeft(p) \/ PutRight(p)
  PROVE  /\ alive[p] /\ pc[p] \in Critical
         /\ UNCHANGED <<left, right, firstPhil, count, alive, del>> /\ lapses' = Races
         /\ state' \in [Phils -> {"EATING", "HUNGRY", "THINKING"}]
         /\ state'[p] # "EATING" /\ \A r \in Phils : r # p => state'[r] = state[r]
         /\ \A r \in Procs : r # p => pc'[r] = pc[r]
         /\ \E q \in Phils :
              /\ granting'[p] = IF CanEat(q, state') THEN q ELSE NULL
              /\ ~CanEat(q, state') => pc'[p] \in {"leaveTake", "putRight", "leavePut"}
              /\ Hungry(p) => q = p /\ state'[p] = "HUNGRY"
              /\ PutLeft(p) => /\ q = left[p]
                               /\ pc'[p] = IF CanEat(q, state') THEN "grantLeft" ELSE "putRight"
              /\ PutRight(p) => /\ q = right[p] /\ state' = state
                                /\ pc'[p] = IF CanEat(q, state') THEN "grantRight" ELSE "leavePut"
<1>0. /\ pc \in [Procs -> Labels] /\ Phils \subseteq Procs /\ p \in Procs
      /\ state \in [Phils -> {"EATING", "HUNGRY", "THINKING"}] /\ granting \in [Phils -> 0..MaxPhils]
  BY Numbered DEF PhilTypes, PcTypes
<1>1. left[p] \in Phils /\ right[p] \in Phils
  BY NeighbourFacts DEF Hungry, PutLeft, PutRight, At, RingInv, RingBase, Alive
<1>2. CASE Hungry(p)
  <2>1. /\ alive[p] /\ pc[p] = "hungry" /\ state' = [state EXCEPT ![p] = "HUNGRY"]
        /\ test(p, p, state', "grantSelf", "leaveTake")
    BY <1>2 DEF Hungry, At, test
  <2> QED BY <1>0, <1>2, <2>1 DEF test, Goto, ringVars, Critical, PutLeft, PutRight, At
<1>3. CASE PutLeft(p)
  <2>1. /\ alive[p] /\ pc[p] = "putLeft" /\ state' = [state EXCEPT ![p] = "THINKING"]
        /\ test(p, left[p], state', "grantLeft", "putRight")
    BY <1>3 DEF PutLeft, At, test
  <2> QED BY <1>0, <1>1, <1>3, <2>1 DEF test, Goto, ringVars, Critical, Hungry, PutRight, At
<1>4. CASE PutRight(p)
  <2>1. /\ alive[p] /\ pc[p] = "putRight" /\ state' = state /\ state[p] = "THINKING"
        /\ test(p, right[p], state', "grantRight", "leavePut")
    BY <1>4 DEF PutRight, At, test, StateInv, StateOf
  <2> QED BY <1>0, <1>1, <1>4, <2>1 DEF test, Goto, ringVars, Critical, Hungry, PutLeft, At
<1> QED BY <1>2, <1>3, <1>4

LEMMA GrantNext ==
  PhilTypes /\ MutexInv /\ StateInv /\ RingInv /\ GrantInv /\ [Next]_vars => GrantInv'
<1> SUFFICES ASSUME PhilTypes, MutexInv, StateInv, RingInv, GrantInv, [Next]_vars,
                    "relinkRace" \notin lapses', NEW r \in Phils, alive'[r], pc'[r] \in Tests
             PROVE  CanEat(granting[r], state)'
  BY DEF GrantInv, Alive, Tests, CanEat
<1>0. /\ "relinkRace" \notin lapses
      /\ alive[r] /\ pc[r] \in Tests => CanEat(granting[r], state)
  BY LapsesGrow DEF GrantInv, Alive, Tests
<1>1. CASE UNCHANGED vars
  BY <1>0, <1>1 DEF vars, CanEat
<1>2. ASSUME NEW p \in Phils, philosopher(p)
      PROVE  CanEat(granting[r], state)'
  <2>1. CASE semWaitMutex(p) \/ Leave(p) \/ OwnSem(p)
    <3>1. UNCHANGED <<state, left, right, alive, granting>> /\ pc'[r] = pc[r]
      BY <2>1, PhiloMoves DEF Passes, Takes, Tests
    <3> QED BY <1>0, <3>1 DEF CanEat
  <2>2. CASE Hungry(p) \/ PutLeft(p) \/ PutRight(p)
    <3>1. r = p
      <4>1. \A x \in Phils : x # p => pc'[x] = pc[x] /\ pc[x] \in {"asleep", "ownSem", "eating"}
        BY <2>2, TestFacts, OthersOutside, Numbered
      <4> QED BY <4>1 DEF Tests
    <3>2. PICK q \in Phils : /\ granting'[p] = IF CanEat(q, state') THEN q ELSE NULL
                             /\ ~CanEat(q, state') => pc'[p] \in {"leaveTake", "putRight", "leavePut"}
      BY <2>2, TestFacts
    <3>3. CanEat(q, state') /\ granting'[p] = q
      <4>1. pc'[p] \in Tests
        BY <3>1
      <4>2. CanEat(q, state')
        BY <3>2, <4>1 DEF Tests
      <4> QED BY <3>2, <4>2
    <3>4. left' = left /\ right' = right
      BY <2>2, TestFacts
    <3> QED BY <3>1, <3>3, <3>4 DEF CanEat
  <2>3. CASE Grant(p)
    <3>1. PICK m \in Labels : pc' = [pc EXCEPT ![p] = m] /\ m = After[pc[p]]
      BY <2>3, GrantFacts
    <3>2. pc[p] \in Tests /\ pc'[p] \notin Tests
      <4>1. pc[p] \in {"grantSelf", "grantLeft", "grantRight"}
        BY <2>3, GrantFacts
      <4>2. m \in {"leaveTake", "putRight", "leavePut"}
        BY <3>1, <4>1, AfterFacts
      <4>3. pc'[p] = m
        BY <3>1, Numbered DEF PhilTypes, PcTypes
      <4> QED BY <4>1, <4>2, <4>3 DEF Tests
    <3>3. \A x \in Phils : x # p => pc'[x] = pc[x] /\ pc[x] \notin Tests
      BY <3>1, <3>2, OthersOutside, Numbered DEF Tests, Critical, PhilTypes, PcTypes
    <3> QED BY <3>2, <3>3
  <2> QED BY <1>2, <2>1, <2>2, <2>3 DEF philosopher
<1>3. CASE \/ phylo \/ semWaitMutex(PHYLO) \/ addPhilo \/ AddLoad \/ removePhilo
           \/ RemoveUnlink \/ Freeing \/ RemoveKill \/ Quit \/ freePhilo \/ Exit
  <2>1. UNCHANGED <<state, granting>> /\ pc'[r] = pc[r]
    BY <1>3, PhyloPasses DEF Takes, Tests
  <2>2. alive[r]
    <3>1. CASE phylo
      <4>1. pc[PHYLO] = "start"
        BY <3>1 DEF phylo
      <4>2. r > count
        BY <4>1, Numbered DEF RingInv, RingBase, PhaseInv, PhilTypes
      <4> QED BY <2>1, <4>2 DEF RingInv, RingBase, Fresh, Tests
    <3>2. CASE AddLoad
      <4>1. r # del
        BY <2>1, <3>2 DEF AddLoad, RingInv, RingBase, Fresh, Tests
      <4> QED BY <3>2, <4>1 DEF AddLoad, PhilTypes
    <3> QED BY <1>3, <3>1, <3>2, KillFacts, FreeingFacts, Numbered
            DEF semWaitMutex, addPhilo, removePhilo, RemoveUnlink, Quit, Exit, PhilTypes
  <2>3. InCritical
    BY <2>1, <2>2 DEF InCritical, Tests, Critical
  <2>4. UNCHANGED <<left, right>>
    <3>1. ~addPhilo /\ ~AddLoad /\ ~removePhilo /\ ~RemoveUnlink
      BY <2>3 DEF addPhilo, AddLoad, removePhilo, RemoveUnlink, RelinkLapse
    <3>2. ~phylo
      <4>1. r <= count
        BY <2>2 DEF RingInv, RingBase, Alive
      <4>2. r >= 1 /\ r \in Int
        BY Numbered
      <4>3. pc[PHYLO] = "start" => count = 0
        BY DEF RingInv, RingBase, PhaseInv
      <4> QED BY <4>1, <4>2, <4>3 DEF phylo
    <3> QED BY <1>3, <3>1, <3>2, KillFacts, FreeingFacts DEF semWaitMutex, Quit, Exit, ringVars
  <2> QED BY <1>0, <2>1, <2>2, <2>4 DEF CanEat
<1> QED BY <1>1, <1>2, <1>3, StepCases

\* A step that makes nobody eat and no two into neighbours.
LEMMA NeighboursSame ==
  ASSUME NeighboursNeverEat, lapses \subseteq lapses',
         lapses' \intersect {"joinedEaters", "relinkRace"} = {},
         \A p, q \in Phils :
           p # q /\ alive'[p] /\ alive'[q] /\ right'[p] = q /\ left'[q] = p
             /\ state'[p] = "EATING" /\ state'[q] = "EATING" =>
           \/ /\ alive[p] /\ alive[q] /\ right[p] = q /\ left[q] = p
              /\ state[p] = "EATING" /\ state[q] = "EATING"
  PROVE  NeighboursNeverEat'
<1>1. lapses \intersect {"joinedEaters", "relinkRace"} = {}
  OBVIOUS
<1> QED BY <1>1 DEF NeighboursNeverEat

LEMMA NeighboursNext ==
  PhilTypes /\ MutexInv /\ StateInv /\ RingInv /\ GrantInv /\ NeighboursNeverEat /\ [Next]_vars
    => NeighboursNeverEat'
<1> SUFFICES ASSUME PhilTypes, MutexInv, StateInv, RingInv, GrantInv, NeighboursNeverEat, [Next]_vars,
                    lapses' \intersect {"joinedEaters", "relinkRace"} = {}
             PROVE  NeighboursNeverEat'
  BY DEF NeighboursNeverEat
<1>0. lapses \subseteq lapses'
  BY LapsesGrow
<1>1. CASE UNCHANGED vars
  BY <1>0, <1>1, NeighboursSame DEF vars
<1>2. ASSUME NEW p \in Phils, philosopher(p)
      PROVE  NeighboursNeverEat'
  <2>1. CASE semWaitMutex(p) \/ Leave(p) \/ OwnSem(p)
    <3>1. UNCHANGED <<state, left, right, alive>>
      BY <2>1, PhiloMoves
    <3> QED BY <1>0, <3>1, NeighboursSame
  <2>2. CASE Hungry(p) \/ PutLeft(p) \/ PutRight(p)
    <3>1. /\ UNCHANGED <<left, right, alive>>
          /\ \A r \in Phils : state'[r] = "EATING" => state[r] = "EATING"
      BY <2>2, TestFacts
    <3> QED BY <1>0, <3>1, NeighboursSame
  <2>3. CASE Grant(p)
    <3>1. PICK g \in Phils : g = granting[p]
      BY <2>3, GrantFacts
    <3>2. /\ UNCHANGED <<left, right, alive>> /\ state' = [state EXCEPT ![g] = "EATING"]
          /\ alive[p] /\ pc[p] \in {"grantSelf", "grantLeft", "grantRight"}
      BY <2>3, <3>1, GrantFacts DEF Grant, ringVars
    <3>3. state[left[g]] # "EATING" /\ state[right[g]] # "EATING"
      BY <1>0, <3>1, <3>2 DEF GrantInv, Alive, CanEat
    <3>4. \A r \in Phils : r # g => state'[r] = state[r]
      BY <3>2 DEF PhilTypes
    <3>5. ASSUME NEW x \in Phils, NEW y \in Phils, x # y, right[x] = y, left[y] = x,
                 state'[x] = "EATING", state'[y] = "EATING"
          PROVE  state[x] = "EATING" /\ state[y] = "EATING"
      <4>1. x # g
        BY <3>3, <3>4, <3>5
      <4>2. y # g
        BY <3>3, <3>4, <3>5
      <4> QED BY <3>4, <3>5, <4>1, <4>2
    <3> QED BY <1>0, <3>2, <3>5, NeighboursSame
  <2> QED BY <1>2, <2>1, <2>2, <2>3 DEF philosopher
<1>3. CASE \/ phylo \/ semWaitMutex(PHYLO) \/ addPhilo \/ AddLoad \/ removePhilo
           \/ RemoveUnlink \/ Freeing \/ RemoveKill \/ Quit \/ freePhilo \/ Exit
  <2>0. state' = state /\ Phils \subseteq Procs /\ \A p \in Phils : p # PHYLO
    BY <1>3, PhyloPasses, Numbered
  <2>1. CASE semWaitMutex(PHYLO) \/ Freeing \/ RemoveKill \/ Quit \/ freePhilo \/ Exit
    <3>1. UNCHANGED <<left, right>>
      BY <2>1, KillFacts, FreeingFacts DEF semWaitMutex, Quit, Exit, ringVars
    <3>2. \A r \in Phils : alive'[r] => alive[r]
      BY <2>0, <2>1, KillFacts, FreeingFacts DEF semWaitMutex, Quit, Exit, PhilTypes
    <3> QED BY <1>0, <2>0, <3>1, <3>2, NeighboursSame
  <2>2. CASE phylo
    <3>1. \A r \in Phils : state[r] # "EATING"
      BY <2>2, Numbered DEF phylo, RingInv, RingBase, PhaseInv, PhilTypes, Fresh
    <3> QED BY <1>0, <2>0, <3>1, NeighboursSame
  <2>3. CASE addPhilo
    <3>1. /\ pc[PHYLO] = "keys" /\ count < MaxPhils
      BY <2>3 DEF addPhilo, Key
    <3>2. firstPhil = 1 /\ 1 \in Phils /\ left[1] \in Phils /\ count + 1 \in Phils /\ left[1] <= count
      <4>1. firstPhil = 1 /\ 1 \in 1..count
        BY <3>1 DEF RingInv, RingBase, PhaseInv, PhilTypes
      <4> QED BY <3>1, <4>1, NeighbourFacts, Numbered DEF PhilTypes
    <3>3. /\ left' = [left EXCEPT ![count + 1] = left[1]] /\ alive' = alive
          /\ right' = [right EXCEPT ![count + 1] = 1, ![left[1]] = count + 1]
      BY <2>3, <3>2 DEF addPhilo
    <3>4. ~alive[count + 1]
      BY <3>1, <3>2, Numbered DEF RingInv, RingBase, Alive, PhilTypes
    <3>5. \A r \in Phils : alive[r] => left'[r] = left[r] /\ right'[r] \in {right[r], count + 1}
      BY <3>2, <3>3, <3>4 DEF PhilTypes
    <3> QED BY <1>0, <2>0, <3>3, <3>4, <3>5, NeighboursSame
  <2>4. CASE AddLoad
    <3>1. pc[PHYLO] = "addLeft" /\ left' = [left EXCEPT ![firstPhil] = del]
      BY <2>4 DEF AddLoad
    <3>2. alive' = [alive EXCEPT ![del] = TRUE] /\ right' = right
      BY <2>4 DEF AddLoad
    <3>3. del \in Phils /\ state[del] = "THINKING"
      BY <3>1, Numbered DEF RingInv, RingBase, PhaseInv, Fresh, PhilTypes
    <3>4. \A r \in Phils : r # del => alive'[r] = alive[r]
      BY <2>0, <3>2 DEF PhilTypes
    <3>5. \A r \in Phils : left'[r] = left[r] \/ left'[r] = del
      BY <3>1 DEF PhilTypes
    <3> QED BY <1>0, <2>0, <3>2, <3>3, <3>4, <3>5, NeighboursSame
  <2>5. CASE removePhilo
    <3>1. pc[PHYLO] = "keys"
      BY <2>5 DEF removePhilo, Key
    <3>2. firstPhil = 1 /\ Linked(Alive \union {1}, left, right)
      BY <3>1 DEF RingInv, PhaseInv, PhilTypes
    <3>3. /\ left[1] \in Alive \union {1} /\ right[left[1]] = 1
          /\ left[left[1]] \in Alive \union {1} /\ left[1] \in Alive \union {1}
      BY <3>2 DEF Linked
    <3>4. /\ UNCHANGED <<left, alive>> /\ right' = [right EXCEPT ![left[left[1]]] = 1]
      BY <2>5, <3>2, <3>3 DEF removePhilo
    <3>5. ASSUME NEW x \in Phils, NEW y \in Phils, x # y, right'[x] = y, left[y] = x
          PROVE  right[x] = y
      <4>1. CASE x # left[left[1]]
        BY <3>4, <3>5, <4>1 DEF PhilTypes
      <4>2. CASE x = left[left[1]]
        <5>1. y = 1
          BY <3>4, <3>5, <4>2 DEF PhilTypes
        <5> QED BY <3>3, <3>5, <5>1
      <4> QED BY <4>1, <4>2
    <3> QED BY <1>0, <2>0, <3>4, <3>5, NeighboursSame
  <2>6. CASE RemoveUnlink
    <3>1. pc[PHYLO] = "removeLeft"
      BY <2>6 DEF RemoveUnlink
    <3>2. right[del] = 1 /\ right[left[del]] = 1
      BY <3>1 DEF RingInv, PhaseInv
    <3>3. /\ UNCHANGED <<right, alive>> /\ left' = [left EXCEPT ![1] = left[del]]
          /\ left[del] # 1 => ~(state[left[del]] = "EATING" /\ state[1] = "EATING")
      BY <2>6, <3>2 DEF RemoveUnlink
    <3>4. ASSUME NEW x \in Phils, NEW y \in Phils, x # y, right[x] = y, left'[y] = x,
                 state[x] = "EATING", state[y] = "EATING"
          PROVE  left[y] = x
      <4>1. CASE y # 1
        BY <3>3, <3>4, <4>1 DEF PhilTypes
      <4>2. CASE y = 1
        BY <3>3, <3>4, <4>2 DEF PhilTypes
      <4> QED BY <4>1, <4>2
    <3> QED BY <1>0, <2>0, <3>3, <3>4, NeighboursSame
  <2> QED BY <1>3, <2>1, <2>2, <2>3, <2>4, <2>5, <2>6
<1> QED BY <1>1, <1>2, <1>3, StepCases

-----------------------------------------------------------------------------
(* Whoever has the mutex is alive.                                         *)

LEMMA EndingStays ==
  PhilTypes /\ MutexInv /\ [Next]_vars /\ Ending => Ending'
<1> SUFFICES ASSUME PhilTypes, MutexInv, [Next]_vars, Ending PROVE Ending'
  OBVIOUS
<1>0. pc \in [Procs -> Labels] /\ PHYLO \in Procs
  BY Numbered DEF PhilTypes, PcTypes
<1>1. CASE UNCHANGED vars
  BY <1>1 DEF vars, Ending
<1>2. ASSUME NEW p \in Phils, philosopher(p)
      PROVE  pc'[PHYLO] = pc[PHYLO]
  <2> p \in Procs /\ p # PHYLO
    BY Numbered
  <2>1. CASE semWaitMutex(p)
    BY <1>0, <2>1, WaitFacts
  <2>2. CASE Hungry(p) \/ PutLeft(p) \/ PutRight(p) \/ Grant(p) \/ OwnSem(p)
    BY <1>0, <2>2 DEF Hungry, PutLeft, PutRight, Grant, OwnSem, test, Goto
  <2>3. CASE Leave(p)
    <3>1. PICK l \in {"ownSem", "asleep"} : /\ semPostMutex(p, l) /\ Passes(pc[p], l)
                                            /\ pc[p] \in {"leaveTake", "leavePut"}
      BY <2>3 DEF Leave, At, Passes
    <3>2. l \in Labels
      BY DEF Labels, PhilLabels, Critical
    <3> QED BY <1>0, <3>1, <3>2, PostPasses DEF Ending, Ends, Takes
  <2> QED BY <1>2, <2>1, <2>2, <2>3 DEF philosopher
<1>3. CASE semWaitMutex(PHYLO)
  BY <1>0, <1>3, WaitFacts DEF Ending, Ends
<1>4. CASE Freeing \/ freePhilo
  <2>1. (\E l \in Ends : Goto(PHYLO, l)) \/ Reused
    BY <1>4, FreeingFacts DEF freePhilo, Ending, Ends
  <2> QED BY <1>0, <2>1, ReusedFacts DEF Goto, Ending
<1>5. CASE Exit
  <2>1. pc[PHYLO] = "leave" /\ semPostMutex(PHYLO, "exited")
    BY <1>5 DEF Exit, Key, Ending, Ends
  <2>2. "exited" \in Labels
    BY DEF Labels, PhyloLabels, Ends
  <2>3. \/ pc' = [pc EXCEPT ![PHYLO] = "exited"]
        \/ \E m \in Labels : /\ queue[1] # PHYLO
                             /\ pc' = [pc EXCEPT ![PHYLO] = "exited", ![queue[1]] = m]
    BY <1>0, <2>1, <2>2, PostFacts
  <2> QED BY <1>0, <2>3 DEF Ending
<1>6. ~(phylo \/ addPhilo \/ AddLoad \/ removePhilo \/ RemoveUnlink \/ RemoveKill \/ Quit)
  BY DEF phylo, addPhilo, AddLoad, removePhilo, RemoveUnlink, RemoveKill, Quit, Key, Ending, Ends
<1> QED BY <1>1, <1>2, <1>3, <1>4, <1>5, <1>6, StepCases DEF Ending

\* What a step disturbs neither in the mutex nor in its queue.
LEMMA HolderKeeps ==
  ASSUME PhilTypes, HolderInv, UNCHANGED <<mutex, queue>>, ~Ending,
         lapses \intersect {"killedHolder", "killedWaiter"} = {},
         \A q \in Procs : alive[q] /\ pc[q] \in Inside => alive'[q] /\ pc'[q] \in Inside,
         \A i \in 1..Len(queue) : alive[queue[i]] => alive'[queue[i]]
  PROVE  HolderInv'
<1>1. /\ \A i \in 1..Len(queue) : alive[queue[i]]
      /\ queue # << >> => mutex = 0
      /\ mutex = 0 => \E p \in Procs : alive[p] /\ pc[p] \in Inside
  BY DEF HolderInv, Ending
<1> QED BY <1>1 DEF HolderInv

LEMMA HolderWait ==
  ASSUME PhilTypes, MutexInv, HolderInv, ~Ending, NEW p \in Procs, semWaitMutex(p),
         lapses \intersect {"killedHolder", "killedWaiter"} = {}
  PROVE  HolderInv'
<1>1. /\ \A i \in 1..Len(queue) : alive[queue[i]]
      /\ queue # << >> => mutex = 0
      /\ mutex = 0 => \E q \in Procs : alive[q] /\ pc[q] \in Inside
  BY DEF HolderInv, Ending
<1>2. alive' = alive /\ alive[p] /\ pc \in [Procs -> Labels] /\ queue \in Seq(Procs)
  BY DEF semWaitMutex, PhilTypes, PcTypes
<1>3. CASE mutex = 1
  <2>1. PICK m \in Labels : Takes(pc[p], m) /\ pc' = [pc EXCEPT ![p] = m] /\ queue' = queue
    BY <1>3, WaitFacts
  <2>2. queue = << >> /\ pc'[p] = m /\ m \in Inside
    BY <1>1, <1>2, <1>3, <2>1 DEF Takes, Inside, Ends, Critical
  <2> QED BY <1>2, <2>1, <2>2 DEF HolderInv
<1>4. CASE mutex = 0
  <2>1. mutex' = 0 /\ pc' = pc /\ queue' = Append(queue, p)
    BY <1>4, WaitFacts
  <2>2. \A i \in 1..Len(queue') : alive[queue'[i]]
    <3>1. /\ Len(queue') = Len(queue) + 1 /\ Len(queue) \in Nat
          /\ \A i \in 1..(Len(queue) + 1) : queue'[i] = IF i <= Len(queue) THEN queue[i] ELSE p
      BY <1>2, <2>1
    <3> QED BY <1>1, <1>2, <3>1
  <2> QED BY <1>1, <1>2, <1>4, <2>1, <2>2 DEF HolderInv
<1> QED BY <1>3, <1>4 DEF PhilTypes

LEMMA HolderPost ==
  ASSUME PhilTypes, MutexInv, HolderInv, ~Ending, NEW p \in Phils, Leave(p),
         lapses \intersect {"killedHolder", "killedWaiter"} = {}
  PROVE  HolderInv'
<1>1. /\ \A i \in 1..Len(queue) : alive[queue[i]]
      /\ queue # << >> => mutex = 0
  BY DEF HolderInv, Ending
<1>2. /\ alive' = alive /\ pc \in [Procs -> Labels] /\ queue \in Seq(Procs) /\ p \in Procs
      /\ Len(queue) \in Nat
  BY Numbered DEF Leave, PhilTypes, PcTypes
<1>3. PICK l \in {"ownSem", "asleep"} : semPostMutex(p, l) /\ pc[p] \in {"leaveTake", "leavePut"}
  BY DEF Leave, At
<1>4. l \in Labels
  BY DEF Labels, PhilLabels, Critical
<1>5. \/ queue = << >> /\ queue' = queue /\ mutex' = 1
      \/ queue # << >> /\ queue' = Tail(queue) /\ ~alive[queue[1]]
      \/ /\ queue # << >> /\ queue' = Tail(queue) /\ mutex' = 0 /\ alive[queue[1]]
         /\ queue[1] # p /\ queue[1] \in Procs
         /\ \E m \in Labels : /\ Takes(pc[queue[1]], m)
                              /\ pc' = [pc EXCEPT ![p] = l, ![queue[1]] = m]
  BY <1>2, <1>3, <1>4, PostFacts
<1>6. CASE queue = << >> /\ queue' = queue /\ mutex' = 1
  BY <1>6 DEF HolderInv
<1>7. CASE queue # << >>
  <2>1. /\ Len(queue) >= 1 /\ 1 \in 1..Len(queue) /\ Len(Tail(queue)) = Len(queue) - 1
        /\ \A i \in 1..(Len(queue) - 1) : Tail(queue)[i] = queue[i + 1]
    BY <1>2, <1>7
  <2>2. alive[queue[1]]
    BY <1>1, <2>1
  <2>3. PICK m \in Labels : /\ Takes(pc[queue[1]], m) /\ queue[1] # p /\ queue[1] \in Procs
                            /\ pc' = [pc EXCEPT ![p] = l, ![queue[1]] = m]
                            /\ queue' = Tail(queue) /\ mutex' = 0
    BY <1>5, <1>7, <2>2
  <2>4. pc'[queue[1]] \in Inside
    BY <1>2, <2>3 DEF Takes, Inside, Ends, Critical
  <2>5. \A i \in 1..Len(queue') : i + 1 \in 1..Len(queue) /\ queue'[i] = queue[i + 1]
    BY <1>2, <2>1, <2>3
  <2> QED BY <1>1, <1>2, <2>2, <2>3, <2>4, <2>5 DEF HolderInv
<1> QED BY <1>5, <1>6, <1>7

LEMMA HolderPhylo ==
  ASSUME PhilTypes, MutexInv, RingInv, HolderInv, ~Ending, ~Ending',
         lapses' \intersect {"killedHolder", "killedWaiter"} = {},
         lapses \intersect {"killedHolder", "killedWaiter"} = {},
         \/ phylo \/ addPhilo \/ AddLoad \/ removePhilo
         \/ RemoveUnlink \/ Freeing \/ RemoveKill \/ Quit \/ freePhilo \/ Exit
  PROVE  HolderInv'
<1>0. /\ pc \in [Procs -> Labels] /\ PHYLO \in Procs /\ Phils \subseteq Procs
      /\ Procs = Phils \union {PHYLO} /\ PHYLO \notin Phils
      /\ queue \in Seq(Procs) /\ alive \in [Procs -> BOOLEAN]
  BY Numbered DEF PhilTypes, PcTypes
<1>1. /\ \A i \in 1..Len(queue) : queue[i] \in Procs /\ pc[queue[i]] \in {"asleep", "eating", "quit"}
      /\ pc[PHYLO] \notin Inside
  BY <1>0 DEF MutexInv, PhilTypes, PcTypes, PhyloLabels, Ending, Inside, Ends, Critical
<1>2. ~freePhilo /\ ~(pc[PHYLO] = "leave")
  BY DEF freePhilo, Ending, Ends
<1>3. ASSUME NEW l, Goto(PHYLO, l)
      PROVE  \A q \in Procs : pc[q] \in Inside => pc'[q] \in Inside
  BY <1>0, <1>1, <1>3 DEF Goto
<1>4. CASE addPhilo \/ removePhilo \/ RemoveUnlink \/ Freeing \/ Quit
  BY <1>3, <1>4, FreeingFacts, HolderKeeps DEF addPhilo, removePhilo, RemoveUnlink, Quit, Key
<1>5. CASE phylo
  <2>1. \A p \in Phils : ~alive[p]
    BY <1>5, Numbered DEF phylo, RingInv, RingBase, PhaseInv, Alive, PhilTypes
  <2>2. \A q \in Procs : alive[q] => alive'[q]
    BY <1>0, <1>5, <2>1 DEF phylo
  <2>3. \A q \in Procs : pc[q] \in Inside => pc'[q] \in Inside
    BY <1>3, <1>5 DEF phylo
  <2>4. UNCHANGED <<mutex, queue>>
    BY <1>5 DEF phylo
  <2> QED BY <1>1, <2>2, <2>3, <2>4, HolderKeeps
<1>6. CASE AddLoad
  <2>1. \A q \in Procs : alive[q] => alive'[q]
    BY <1>0, <1>6 DEF AddLoad
  <2>2. \A q \in Procs : pc[q] \in Inside => pc'[q] \in Inside
    BY <1>3, <1>6 DEF AddLoad
  <2>3. UNCHANGED <<mutex, queue>>
    BY <1>6 DEF AddLoad
  <2> QED BY <1>1, <2>1, <2>2, <2>3, HolderKeeps
<1>7. CASE RemoveKill
  <2>0. ~Reused
    BY ReusedFacts DEF Ending
  <2>1. PICK d \in Phils : d = del
    BY <1>7 DEF RemoveKill, RingInv, PhaseInv, Alive
  <2>2. alive' = [alive EXCEPT ![d] = FALSE] /\ UNCHANGED <<mutex, queue>>
    BY <1>7, <2>0, <2>1 DEF RemoveKill, KillDel
  <2>3. pc[d] \notin Critical /\ d \notin ToSet(queue)
    <3>1. lapses' = lapses \union {l \in Lapses :
             \/ l = "killedHolder" /\ pc[del] \in Critical
             \/ l = "killedWaiter" /\ del \in ToSet(queue)
             \/ l = "killedEater" /\ state[del] = "EATING"
             \/ l = "removedLast" /\ del = firstPhil}
      BY <1>7, <2>0 DEF RemoveKill
    <3>2. pc[d] \in Critical => "killedHolder" \in lapses'
      BY <2>1, <3>1 DEF Lapses
    <3>3. d \in ToSet(queue) => "killedWaiter" \in lapses'
      BY <2>1, <3>1 DEF Lapses
    <3> QED BY <3>2, <3>3
  <2>4. pc[d] \notin Inside
    BY <2>3 DEF Inside, Ends, PhilTypes, PcTypes, PhilLabels, Critical
  <2>5. \A i \in 1..Len(queue) : queue[i] # d
    <3>1. DOMAIN queue = 1..Len(queue)
      BY <1>0
    <3> QED BY <2>3, <3>1 DEF ToSet
  <2>6. \A q \in Procs : pc[q] \in Inside => pc'[q] \in Inside
    BY <1>3, <1>7, <2>0 DEF RemoveKill
  <2>7. \A q \in Procs : q # d => alive'[q] = alive[q]
    BY <1>0, <2>2
  <2> QED BY <1>1, <2>2, <2>4, <2>5, <2>6, <2>7, HolderKeeps
<1>8. CASE Exit
  <2>1. Key("EOF", "gone") /\ UNCHANGED <<mutex, queue>> /\ alive' = [alive EXCEPT ![PHYLO] = FALSE]
    BY <1>2, <1>8 DEF Exit
  <2>2. \A q \in Procs : q # PHYLO => alive'[q] = alive[q]
    BY <1>0, <2>1
  <2>3. \A q \in Procs : pc[q] \in Inside => pc'[q] \in Inside
    BY <1>3, <2>1 DEF Key
  <2>4. \A i \in 1..Len(queue) : queue[i] # PHYLO
    BY <1>1, <2>1 DEF Key
  <2> QED BY <1>1, <2>1, <2>2, <2>3, <2>4, HolderKeeps
<1> QED BY <1>2, <1>4, <1>5, <1>6, <1>7, <1>8

LEMMA HolderNext ==
  PhilTypes /\ MutexInv /\ StateInv /\ RingInv /\ HolderInv /\ [Next]_vars => HolderInv'
<1> SUFFICES ASSUME PhilTypes, MutexInv, StateInv, RingInv, HolderInv, [Next]_vars,
                    lapses' \intersect {"killedHolder", "killedWaiter"} = {}, ~Ending'
             PROVE  HolderInv'
  BY DEF HolderInv, Ending
<1>0. lapses \intersect {"killedHolder", "killedWaiter"} = {} /\ ~Ending
  BY LapsesGrow, EndingStays
<1>1. CASE UNCHANGED vars
  BY <1>0, <1>1, HolderKeeps DEF vars
<1>2. ASSUME NEW p \in Phils, philosopher(p)
      PROVE  HolderInv'
  <2> p \in Procs /\ p # PHYLO
    BY Numbered
  <2>1. CASE semWaitMutex(p)
    BY <1>0, <2>1, HolderWait
  <2>2. CASE Leave(p)
    BY <1>0, <2>2, HolderPost
  <2>3. CASE Hungry(p) \/ PutLeft(p) \/ PutRight(p) \/ Grant(p) \/ OwnSem(p)
    <3>1. UNCHANGED <<alive, mutex, queue>>
      BY <2>3 DEF Hungry, PutLeft, PutRight, Grant, OwnSem, test
    <3>2. \A q \in Procs : q # p => pc'[q] = pc[q]
      BY <2>3 DEF Hungry, PutLeft, PutRight, Grant, OwnSem, test, Goto, PhilTypes, PcTypes
    <3>3. pc[p] \in Inside => pc'[p] \in Inside
      <4>1. CASE Hungry(p) \/ PutLeft(p) \/ PutRight(p)
        BY <4>1 DEF Hungry, PutLeft, PutRight, test, Goto, PhilTypes, PcTypes, Inside, Ends, Critical
      <4>2. CASE Grant(p)
        BY <4>2, AfterFacts DEF Grant, Goto, PhilTypes, PcTypes, Inside, Ends, Critical
      <4>3. CASE OwnSem(p)
        BY <4>3 DEF OwnSem, At, Inside, Ends, Critical
      <4> QED BY <2>3, <4>1, <4>2, <4>3
    <3> QED BY <1>0, <3>1, <3>2, <3>3, HolderKeeps
  <2> QED BY <1>2, <2>1, <2>2, <2>3 DEF philosopher
<1>3. CASE semWaitMutex(PHYLO)
  BY <1>0, <1>3, HolderWait, Numbered
<1> QED BY <1>0, <1>1, <1>2, <1>3, StepCases, HolderPhylo

-----------------------------------------------------------------------------
(* Whoever waits is served.                                                *)

Helps == {"grantLeft", "putRight", "grantRight"}

\* The first philosopher, when it was removed, is in nobody's way.
FirstInv == firstPhil = 1 => alive[1] \/ state[1] = "THINKING"

\* No link of a waiting one and of those that serve it changes.
LEMMA ServedSame ==
  ASSUME PhilTypes, RingInv, ServedInv, Orderly, UNCHANGED <<state, left, right, firstPhil, granting>>,
         pc[PHYLO] = "addLeft" => pc'[PHYLO] = "addLeft" /\ del' = del,
         \A r \in Phils : alive'[r] = alive[r],
         \A r \in Phils : Leaving(r) => Leaving(r)',
         \A r \in Phils : Waits(r)' => Waits(r),
         \A r \in Phils : pc[r] \in Helps => pc'[r] = pc[r]
  PROVE  ServedInv'
<1>1. Alive' = Alive
  BY DEF Alive
<1>2. firstPhil' = 1 => alive'[1] \/ state'[1] = "THINKING"
  <2>1. firstPhil = 1 => 1 \in Phils /\ (alive[1] \/ state[1] = "THINKING")
    BY Numbered DEF ServedInv, RingInv, RingBase, PhilTypes
  <2> QED BY <2>1
<1>3. ASSUME NEW p \in Alive', Waits(p)', ~Leaving(p)'
      PROVE  \E q \in Alive' : Serves(q, p)'
  <2>1. p \in Alive /\ p \in Phils /\ Waits(p) /\ ~Leaving(p)
    BY <1>1, <1>3 DEF Alive
  <2>2. PICK q \in Alive : Serves(q, p)
    BY <2>1 DEF ServedInv
  <2>3. q \in Phils
    BY DEF Alive
  <2>4. Serves(q, p)'
    BY <2>2, <2>3 DEF Serves, Helps
  <2> QED BY <1>1, <2>2, <2>4
<1> QED BY <1>2, <1>3 DEF ServedInv

\* Outside the changes of the links the neighbours of a philosopher are linked back.
LEMMA RingNow ==
  ASSUME PhilTypes, RingInv, NEW p \in Alive, ~Ending, ~Torn, ~Leaving(p)
  PROVE  /\ firstPhil = 1 /\ p \in Phils
         /\ left[p] \in Alive \union {1} /\ right[left[p]] = p
         /\ right[p] \in Alive \union {1} /\ left[right[p]] = p
<1>1. p \in Phils /\ p <= count /\ p >= 1 /\ p \in Int
  BY Numbered DEF Alive, RingInv, RingBase
<1>2. firstPhil # 0
  BY <1>1 DEF RingInv, RingBase
<1>3. pc[PHYLO] \in {"keys", "removeFree", "removeKill", "quit", "gone"}
  BY <1>2 DEF RingInv, PhaseInv, PhilTypes, PcTypes, PhyloLabels, Ends, Ending, Torn
<1>4. CASE pc[PHYLO] \in {"removeFree", "removeKill"}
  <2>1. Linked((Alive \ {del}) \union {1}, left, right) /\ p \in (Alive \ {del}) \union {1}
    BY <1>4 DEF RingInv, PhaseInv, Leaving
  <2> QED BY <1>1, <1>2, <2>1 DEF Linked, PhilTypes
<1>5. CASE pc[PHYLO] \notin {"removeFree", "removeKill"}
  <2>1. Linked(Alive \union {1}, left, right) /\ p \in Alive \union {1}
    BY <1>3, <1>5 DEF RingInv, PhaseInv
  <2> QED BY <1>1, <1>2, <2>1 DEF Linked, PhilTypes
<1> QED BY <1>4, <1>5

\* A hungry one that cannot eat has a neighbour that eats, and that is alive.
LEMMA BlockedIsServed ==
  ASSUME PhilTypes, RingInv, FirstInv, NEW p \in Alive, ~Ending, ~Torn, ~Leaving(p),
         NEW st, st[p] = "HUNGRY", ~CanEat(p, st),
         \A y \in Phils : st[y] = "EATING" => state[y] = "EATING"
  PROVE  \E y \in Alive : y # p /\ st[y] = "EATING" /\ (left[y] = p \/ right[y] = p)
<1>1. /\ firstPhil = 1 /\ p \in Phils /\ 1 \in Phils
      /\ left[p] \in Alive \union {1} /\ right[left[p]] = p
      /\ right[p] \in Alive \union {1} /\ left[right[p]] = p
  <2>1. 1 \in Phils
    BY Numbered DEF Alive
  <2> QED BY <2>1, RingNow
<1>2. PICK y \in {left[p], right[p]} : st[y] = "EATING"
  BY DEF CanEat
<1>3. y \in Alive \union {1} /\ y \in Phils /\ y # p /\ (left[y] = p \/ right[y] = p)
  BY <1>1, <1>2 DEF Alive
<1>4. y \in Alive
  <2>1. state[y] = "EATING"
    BY <1>2, <1>3
  <2> QED BY <1>1, <1>3, <2>1 DEF FirstInv, Alive
<1> QED BY <1>2, <1>3, <1>4

\* A test.
LEMMA ServedTest ==
  ASSUME PhilTypes, MutexInv, StateInv, RingInv, ServedInv, Orderly, Orderly', NEW p \in Phils,
         Hungry(p) \/ PutLeft(p) \/ PutRight(p)
  PROVE  ServedInv'
<1>0. /\ alive[p] /\ pc[p] \in Critical
      /\ UNCHANGED <<left, right, firstPhil, count, alive, del>> /\ lapses' = Races
      /\ state' \in [Phils -> {"EATING", "HUNGRY", "THINKING"}]
      /\ state'[p] # "EATING" /\ \A r \in Phils : r # p => state'[r] = state[r]
      /\ \A r \in Procs : r # p => pc'[r] = pc[r]
  BY TestFacts
<1>1. PICK q \in Phils :
        /\ granting'[p] = IF CanEat(q, state') THEN q ELSE NULL
        /\ ~CanEat(q, state') => pc'[p] \in {"leaveTake", "putRight", "leavePut"}
        /\ Hungry(p) => q = p /\ state'[p] = "HUNGRY"
        /\ PutLeft(p) => /\ q = left[p]
                         /\ pc'[p] = IF CanEat(q, state') THEN "grantLeft" ELSE "putRight"
        /\ PutRight(p) => /\ q = right[p] /\ state' = state
                          /\ pc'[p] = IF CanEat(q, state') THEN "grantRight" ELSE "leavePut"
  BY TestFacts
<1>2. ~Torn /\ ~Ending
  BY <1>0 DEF Races, Orderly, Ending
<1>3. /\ FirstInv /\ Alive' = Alive /\ \A r \in Alive : r \in Phils
      /\ \A r \in Phils : r \in Procs /\ r # PHYLO
      /\ PHYLO \in Procs
  BY <1>0, Numbered DEF ServedInv, FirstInv, Alive
<1>4. pc'[PHYLO] = pc[PHYLO]
  BY <1>0, <1>3
<1>5. \A r \in Phils : r # p => granting'[r] = granting[r]
  BY DEF Hungry, PutLeft, PutRight, test, PhilTypes
<1>6. \A y \in Phils : state'[y] = "EATING" => state[y] = "EATING" /\ y # p
  BY <1>0
<1>7. firstPhil' = 1 => alive'[1] \/ state'[1] = "THINKING"
  <2>1. firstPhil = 1 /\ ~alive[1] => state[1] = "THINKING" /\ 1 # p
    BY <1>0, <1>3 DEF FirstInv
  <2>2. 1 \in Phils
    BY Numbered
  <2> QED BY <1>0, <2>1, <2>2
<1>8. ASSUME NEW r \in Alive, Waits(r)', ~Leaving(r)'
      PROVE  \E s \in Alive : Serves(s, r)'
  <2>1. ~Leaving(r) /\ r \in Phils /\ state'[r] = "HUNGRY"
    BY <1>0, <1>3, <1>4, <1>8 DEF Leaving, Waits
  <2>2. CASE ~CanEat(r, state')
    <3>1. PICK y \in Alive : y # r /\ state'[y] = "EATING" /\ (left[y] = r \/ right[y] = r)
      <4>1. \A y \in Phils : state'[y] = "EATING" => state[y] = "EATING"
        BY <1>6
      <4>2. ~CanEat(r, state') /\ state'[r] = "HUNGRY"
        BY <2>1, <2>2
      <4> QED BY <1>2, <1>3, <2>1, <4>1, <4>2, BlockedIsServed
    <3> QED BY <1>0, <3>1 DEF Serves
  <2>3. CASE CanEat(r, state')
    <3>1. r # p
      <4>1. SUFFICES ASSUME r = p PROVE FALSE
        OBVIOUS
      <4>2. CASE Hungry(p)
        <5>1. pc'[p] = "grantSelf"
          BY <1>1, <2>3, <4>1, <4>2, <1>3 DEF Hungry, test, Goto, CanEat, PhilTypes, PcTypes
        <5> QED BY <1>8, <4>1, <5>1 DEF Waits
      <4>3. CASE PutLeft(p) \/ PutRight(p)
        <5>1. pc'[p] \in {"grantLeft", "putRight", "grantRight", "leavePut"}
          BY <1>1, <4>3
        <5> QED BY <1>8, <4>1, <5>1 DEF Waits
      <4> QED BY <4>2, <4>3
    <3>2. Waits(r)
      BY <1>0, <1>3, <1>8, <2>1, <3>1 DEF Waits
    <3>3. PICK s \in Alive : Serves(s, r)
      BY <2>1, <3>2 DEF ServedInv
    <3>4. s \in Phils
      BY <1>3
    <3>5. CASE s # p
      <4>1. pc'[s] = pc[s] /\ state'[s] = state[s] /\ granting'[s] = granting[s]
        BY <1>0, <1>3, <1>5, <3>4, <3>5
      <4> QED BY <1>0, <1>4, <3>3, <4>1 DEF Serves
    <3>6. CASE s = p
      <4>1. CASE Hungry(p)
        <5>1. pc[p] = "hungry" /\ state[p] = "THINKING"
          BY <4>1 DEF Hungry, At, StateInv, StateOf
        <5> QED BY <3>3, <3>6, <5>1 DEF Serves
      <4>2. CASE PutLeft(p)
        <5>1. pc[p] = "putLeft" /\ (left[p] = r \/ right[p] = r)
          BY <1>2, <3>3, <3>6, <4>2 DEF PutLeft, At, Serves, Torn
        <5>2. CASE right[p] = r
          <6>1. pc'[p] \in {"grantLeft", "putRight"} /\ right'[p] = r
            BY <1>0, <1>1, <4>2, <5>2
          <6> QED BY <3>3, <3>6, <6>1 DEF Serves
        <5>3. CASE left[p] = r
          <6>1. pc'[p] = "grantLeft" /\ granting'[p] = r
            BY <1>1, <2>3, <4>2, <5>3
          <6> QED BY <3>3, <3>6, <6>1 DEF Serves
        <5> QED BY <5>1, <5>2, <5>3
      <4>3. CASE PutRight(p)
        <5>1. pc[p] = "putRight" /\ state[p] = "THINKING"
          BY <4>3 DEF PutRight, At, StateInv, StateOf
        <5>2. right[p] = r
          BY <3>3, <3>6, <5>1 DEF Serves
        <5>3. pc'[p] = "grantRight" /\ granting'[p] = r
          BY <1>1, <2>3, <4>3, <5>2
        <5> QED BY <3>3, <3>6, <5>3 DEF Serves
      <4> QED BY <4>1, <4>2, <4>3
    <3> QED BY <3>5, <3>6
  <2> QED BY <2>2, <2>3
<1> QED BY <1>3, <1>7, <1>8 DEF ServedInv

LEMMA ServedGrant ==
  ASSUME PhilTypes, MutexInv, StateInv, ServedInv, Orderly, NEW p \in Phils, Grant(p)
  PROVE  ServedInv'
<1>1. PICK g \in Phils : g = granting[p]
  BY GrantFacts
<1>2. /\ pc[p] \in {"grantSelf", "grantLeft", "grantRight"} /\ state[g] = "HUNGRY"
      /\ state' = [state EXCEPT ![g] = "EATING"] /\ granting' = [granting EXCEPT ![p] = NULL]
      /\ \E m \in Labels : pc' = [pc EXCEPT ![p] = m] /\ m = After[pc[p]]
      /\ IF g = p THEN pc[p] = "grantSelf" ELSE pc[p] \in {"grantLeft", "grantRight"}
  BY <1>1, GrantFacts
<1>3. /\ UNCHANGED <<left, right, firstPhil, alive, del>> /\ Alive' = Alive
      /\ pc \in [Procs -> Labels] /\ Phils \subseteq Procs /\ p # PHYLO /\ PHYLO \in Procs
      /\ state \in [Phils -> {"EATING", "HUNGRY", "THINKING"}]
      /\ granting \in [Phils -> 0..MaxPhils] /\ Alive \subseteq Phils
  BY Numbered DEF Grant, ringVars, Alive, PhilTypes, PcTypes
<1>4. /\ pc'[p] = After[pc[p]]
      /\ \A r \in Procs : r # p => pc'[r] = pc[r]
      /\ \A r \in Phils : r # p => granting'[r] = granting[r]
      /\ \A r \in Phils : r # g => state'[r] = state[r]
      /\ state'[g] = "EATING"
  BY <1>2, <1>3
<1>5. firstPhil' = 1 => alive'[1] \/ state'[1] = "THINKING"
  <2>1. firstPhil = 1 => alive[1] \/ state[1] = "THINKING"
    BY DEF ServedInv
  <2>2. 1 \in Phils
    BY Numbered
  <2> QED BY <1>2, <1>3, <1>4, <2>1, <2>2
<1>6. ASSUME NEW r \in Alive, Waits(r)', ~Leaving(r)'
      PROVE  \E s \in Alive : Serves(s, r)'
  <2>1. r # g
    BY <1>4, <1>6 DEF Waits
  <2>2. r # p
    <3>1. g # p => pc'[p] \in {"putRight", "leavePut"}
      BY <1>2, <1>4, AfterFacts
    <3> QED BY <1>6, <2>1, <3>1 DEF Waits
  <2>3. Waits(r) /\ ~Leaving(r) /\ r \in Phils
    BY <1>3, <1>4, <1>6, <2>1, <2>2 DEF Waits, Leaving
  <2>4. PICK s \in Alive : Serves(s, r)
    BY <2>3 DEF ServedInv
  <2>5. state[s] = "EATING" => state'[s] = "EATING"
    BY <1>3, <1>4
  <2>6. pc'[PHYLO] = pc[PHYLO]
    BY <1>3, <1>4
  <2>7. CASE s # p
    BY <1>3, <1>4, <2>4, <2>5, <2>6, <2>7 DEF Serves
  <2>8. CASE s = p
    <3>1. pc[p] = "grantLeft" => pc'[p] = "putRight"
      BY <1>4, AfterFacts
    <3>2. granting[p] # r
      BY <1>1, <2>1
    <3>3. pc[p] # "putRight"
      BY <1>2
    <3> QED BY <1>3, <2>4, <2>5, <2>6, <2>8, <3>1, <3>2, <3>3 DEF Serves
  <2> QED BY <2>7, <2>8
<1> QED BY <1>3, <1>5, <1>6 DEF ServedInv

\* A step of phylo() that changes no link: those of the processes and the states.
LEMMA ServedQuiet ==
  ASSUME PhilTypes, MutexInv, RingInv, ServedInv, Orderly, Orderly',
         semWaitMutex(PHYLO) \/ Freeing \/ Quit \/ freePhilo \/ Exit
  PROVE  ServedInv'
<1>0. /\ UNCHANGED <<state, granting>> /\ pc \in [Procs -> Labels]
      /\ \A r \in Phils : pc'[r] = pc[r] \/ Takes(pc[r], pc'[r])
      /\ PHYLO \in Procs /\ Phils \subseteq Procs /\ PHYLO \notin Phils
  BY PhyloPasses, Numbered DEF PhilTypes, PcTypes
<1>1. /\ \A r \in Phils : Waits(r)' => Waits(r)
      /\ \A r \in Phils : pc[r] \in Helps => pc'[r] = pc[r]
  BY <1>0 DEF Waits, Helps, Takes
<1>2. CASE semWaitMutex(PHYLO)
  <2>1. UNCHANGED <<left, right, firstPhil, alive, del>> /\ pc[PHYLO] \in {"asleep", "eating", "quit"}
    BY <1>0, <1>2, WaitFacts DEF semWaitMutex, ringVars
  <2> QED BY <1>0, <1>1, <2>1, ServedSame DEF Leaving
<1>3. CASE Quit
  <2>1. UNCHANGED <<left, right, firstPhil, alive>> /\ pc[PHYLO] = "keys"
    BY <1>3 DEF Quit, Key, ringVars
  <2> QED BY <1>0, <1>1, <2>1, ServedSame DEF Leaving
<1>4. CASE Exit
  <2>1. UNCHANGED <<left, right, firstPhil>> /\ pc[PHYLO] = "keys" /\ alive' = [alive EXCEPT ![PHYLO] = FALSE]
    BY <1>4 DEF Exit, Key, ringVars, Orderly, Ending, Ends
  <2>2. \A r \in Phils : alive'[r] = alive[r]
    BY <1>0, <2>1 DEF PhilTypes
  <2> QED BY <1>0, <1>1, <2>1, <2>2, ServedSame DEF Leaving
<1>5. ~freePhilo
  BY DEF freePhilo, Orderly, Ending, Ends
<1>6. CASE Freeing
  <2>1. /\ UNCHANGED <<left, right, firstPhil, alive, del>> /\ PHYLO \in Procs
        /\ pc[PHYLO] = "removeFree" /\ Goto(PHYLO, "removeKill")
    BY <1>0, <1>6, FreeingFacts DEF Orderly, Ending, Ends
  <2>2. pc'[PHYLO] = "removeKill"
    BY <1>0, <2>1 DEF Goto
  <2> QED BY <1>0, <1>1, <2>1, <2>2, ServedSame DEF Leaving
<1> QED BY <1>2, <1>3, <1>4, <1>5, <1>6

LEMMA ServedStart ==
  ASSUME PhilTypes, MutexInv, RingInv, phylo
  PROVE  ServedInv'
<1>1. \A r \in Phils : state[r] = "THINKING" /\ state'[r] = "THINKING"
  BY Numbered DEF phylo, RingInv, RingBase, PhaseInv, PhilTypes, Fresh
<1>2. firstPhil' = 1 => 1 \in Phils
  <2>1. CASE argv # NoArg /\ ~Accepted(argv)
    BY <2>1 DEF phylo, RingInv, PhaseInv
  <2>2. CASE ~(argv # NoArg /\ ~Accepted(argv))
    <3>1. /\ argv = NoArg => STARTING <= MaxPhils
          /\ argv # NoArg => argv <= MaxPhils
      BY <2>2 DEF phylo
    <3>2. argv = NoArg \/ (argv \in Int /\ argv >= 1)
      BY <2>2, PhilosophersAssumption DEF Accepted, PhilTypes
    <3> QED BY <3>1, <3>2, PhilosophersAssumption, Numbered
  <2> QED BY <2>1, <2>2
<1> QED BY <1>1, <1>2 DEF ServedInv, Waits, Alive

\* What phylo() does to the links while nobody has the mutex: whoever serves is
\* eating.
LEMMA OnlyEatersServe ==
  ASSUME ~InCritical, NEW q \in Alive, NEW p, Serves(q, p)
  PROVE  /\ state[q] = "EATING"
         /\ \/ left[q] = p \/ right[q] = p
            \/ pc[PHYLO] = "addLeft" /\ q = left[del] /\ p = 1
BY DEF InCritical, Serves, Alive, Critical

LEMMA NobodyRaced ==
  ASSUME Orderly', lapses' = lapses \union RelinkLapse \/ \E S : lapses' = lapses \union RelinkLapse \union S
  PROVE  ~InCritical
BY DEF Orderly, RelinkLapse

LEMMA ServedAdd ==
  ASSUME PhilTypes, MutexInv, RingInv, ServedInv, Orderly, Orderly', addPhilo
  PROVE  ServedInv'
<1>0. /\ UNCHANGED <<state, granting>> /\ Phils \subseteq Procs /\ PHYLO \notin Phils
      /\ \A r \in Phils : pc'[r] = pc[r] \/ Takes(pc[r], pc'[r])
  BY PhyloPasses, Numbered
<1>1. /\ pc[PHYLO] = "keys" /\ count < MaxPhils /\ ~InCritical
      /\ firstPhil' = firstPhil /\ alive' = alive /\ Goto(PHYLO, "addLeft") /\ "addLeft" \in PhyloLabels
  BY NobodyRaced DEF addPhilo, Key, PhyloLabels, Ends
<1>2. /\ firstPhil = 1 /\ 1 \in Phils /\ count + 1 \in Phils
      /\ Linked(Alive \union {1}, left, right) /\ Alive' = Alive /\ Alive \subseteq Phils
      /\ left[1] \in Phils /\ left[1] # count + 1 /\ \A r \in Alive : r # count + 1
  <2>1. firstPhil = 1 /\ 1 \in 1..count /\ Linked(Alive \union {1}, left, right)
    BY <1>1 DEF RingInv, RingBase, PhaseInv, PhilTypes
  <2>2. 1 \in Phils /\ count + 1 \in Phils /\ count \in Nat
    BY <1>1, <2>1, Numbered DEF PhilTypes
  <2>3. left[1] \in Phils /\ left[1] <= count
    BY <2>1, <2>2, NeighbourFacts
  <2>4. \A r \in Alive : r # count + 1
    BY <2>2, Numbered DEF RingInv, RingBase, Alive
  <2>5. left[1] # count + 1
    BY <2>2, <2>3, Numbered
  <2>6. Alive' = Alive /\ Alive \subseteq Phils
    BY <1>1 DEF Alive
  <2> QED BY <2>1, <2>2, <2>3, <2>4, <2>5, <2>6
<1>3. /\ left' = [left EXCEPT ![count + 1] = left[1]] /\ del' = count + 1
      /\ right' = [right EXCEPT ![count + 1] = 1, ![left[1]] = count + 1]
  BY <1>2 DEF addPhilo
<1>4. /\ \A r \in Alive : left'[r] = left[r]
      /\ \A r \in Alive : r # left[1] => right'[r] = right[r]
      /\ left'[count + 1] = left[1]
  BY <1>2, <1>3 DEF PhilTypes
<1>5. pc'[PHYLO] = "addLeft"
  BY <1>1, PhyloGoes
<1>6. ASSUME NEW r \in Alive, Waits(r)', ~Leaving(r)'
      PROVE  \E s \in Alive : Serves(s, r)'
  <2>1. Waits(r) /\ ~Leaving(r)
    BY <1>0, <1>1, <1>2, <1>6 DEF Waits, Takes, Leaving
  <2>2. PICK s \in Alive : Serves(s, r)
    BY <2>1 DEF ServedInv
  <2>3. state[s] = "EATING" /\ (left[s] = r \/ right[s] = r)
    BY <1>1, <2>2, OnlyEatersServe
  <2>4. CASE s # left[1] \/ left[s] = r
    BY <1>0, <1>2, <1>4, <2>3, <2>4 DEF Serves
  <2>5. CASE s = left[1] /\ right[s] = r
    <3>1. r = 1
      BY <1>2, <2>5 DEF Linked
    <3> QED BY <1>0, <1>2, <1>3, <1>4, <1>5, <2>3, <2>5, <3>1 DEF Serves
  <2> QED BY <2>3, <2>4, <2>5
<1>7. firstPhil' = 1 => alive'[1] \/ state'[1] = "THINKING"
  BY <1>0, <1>1 DEF ServedInv
<1> QED BY <1>2, <1>6, <1>7 DEF ServedInv

\* The new one comes between two of which not one waits for the other.
LEMMA ServedLoad ==
  ASSUME PhilTypes, MutexInv, RingInv, ServedInv, Orderly, Orderly', AddLoad
  PROVE  ServedInv'
<1>0. /\ UNCHANGED <<state, granting>> /\ Phils \subseteq Procs /\ PHYLO \notin Phils
      /\ \A r \in Phils : pc'[r] = pc[r] \/ Takes(pc[r], pc'[r])
  BY PhyloPasses, Numbered
<1>1. /\ pc[PHYLO] = "addLeft" /\ ~InCritical /\ UNCHANGED <<right, firstPhil>>
      /\ left' = [left EXCEPT ![firstPhil] = del] /\ alive' = [alive EXCEPT ![del] = TRUE]
      /\ {state[left[del]], state[firstPhil]} # {"EATING", "HUNGRY"}
  BY NobodyRaced DEF AddLoad, Orderly
<1>2. /\ firstPhil = 1 /\ 1 \in Phils /\ del \in Phils /\ del # 1 /\ ~alive[del]
      /\ left[del] = left[1] /\ pc[del] = "asleep"
  <2>1. firstPhil = 1 /\ del \in 1..count /\ del \notin Alive \union {1} /\ left[del] = left[1]
    BY <1>1 DEF RingInv, RingBase, PhaseInv, PhilTypes
  <2>2. del \in Phils /\ 1 \in Phils
    BY <2>1, Numbered DEF PhilTypes
  <2>3. pc[del] = "asleep"
    BY <1>1, <2>2 DEF RingInv, RingBase, Fresh
  <2> QED BY <2>1, <2>2, <2>3 DEF Alive
<1>3. /\ \A r \in Phils : r # 1 => left'[r] = left[r]
      /\ \A r \in Phils : r # del => alive'[r] = alive[r]
  BY <1>0, <1>1, <1>2 DEF PhilTypes
<1>4. Alive \subseteq Alive' /\ Alive \subseteq Phils /\ \A r \in Alive' : r \in Alive \/ r = del
  BY <1>2, <1>3 DEF Alive
<1>5. ASSUME NEW r \in Alive', Waits(r)', ~Leaving(r)'
      PROVE  \E s \in Alive' : Serves(s, r)'
  <2>1. r \in Phils /\ Waits(r)
    BY <1>0, <1>5 DEF Waits, Takes, Alive
  <2>2. r \in Alive /\ ~Leaving(r) /\ state[r] = "HUNGRY"
    BY <1>1, <1>2, <1>4, <2>1 DEF Waits, Leaving
  <2>3. PICK s \in Alive : Serves(s, r)
    BY <2>1, <2>2 DEF ServedInv
  <2>4. /\ state[s] = "EATING"
        /\ \/ left[s] = r \/ right[s] = r
           \/ s = left[del] /\ r = 1
    BY <1>1, <2>3, OnlyEatersServe
  <2>5. CASE right[s] = r \/ (left[s] = r /\ s # 1)
    BY <1>0, <1>1, <1>3, <1>4, <2>4, <2>5 DEF Serves
  <2>6. CASE left[s] = r /\ s = 1
    BY <1>1, <1>2, <2>2, <2>4, <2>6
  <2>7. CASE s = left[del] /\ r = 1
    BY <1>1, <1>2, <2>2, <2>4, <2>7
  <2> QED BY <2>4, <2>5, <2>6, <2>7
<1>6. firstPhil' = 1 => alive'[1] \/ state'[1] = "THINKING"
  BY <1>0, <1>1, <1>2, <1>3 DEF ServedInv
<1> QED BY <1>5, <1>6 DEF ServedInv

LEMMA ServedRemove ==
  ASSUME PhilTypes, MutexInv, RingInv, ServedInv, Orderly, Orderly', removePhilo
  PROVE  ServedInv'
<1>0. /\ UNCHANGED <<state, granting>> /\ Phils \subseteq Procs /\ PHYLO \notin Phils
      /\ \A r \in Phils : pc'[r] = pc[r] \/ Takes(pc[r], pc'[r])
  BY PhyloPasses, Numbered
<1>1. /\ pc[PHYLO] = "keys" /\ ~InCritical /\ UNCHANGED <<left, firstPhil, alive>>
      /\ Goto(PHYLO, "removeLeft") /\ "removeLeft" \in PhyloLabels
  BY NobodyRaced DEF removePhilo, Key, PhyloLabels, Ends
<1>2. firstPhil = 1 /\ Linked(Alive \union {1}, left, right) /\ Alive' = Alive /\ Alive \subseteq Phils
  BY <1>1 DEF RingInv, PhaseInv, PhilTypes, Alive
<1>3. /\ left[1] \in Alive \union {1} /\ left[left[1]] \in Alive \union {1}
      /\ right[left[1]] = 1 /\ right[left[left[1]]] = left[1]
  BY <1>2 DEF Linked
<1>4. del' = left[1] /\ right' = [right EXCEPT ![left[left[1]]] = 1]
  BY <1>2, <1>3 DEF removePhilo
<1>5. pc'[PHYLO] = "removeLeft"
  BY <1>1, PhyloGoes
<1>6. ASSUME NEW r \in Alive, Waits(r)', ~Leaving(r)'
      PROVE  \E s \in Alive : Serves(s, r)'
  <2>1. Waits(r) /\ ~Leaving(r)
    BY <1>0, <1>1, <1>2, <1>6 DEF Waits, Takes, Leaving
  <2>2. PICK s \in Alive : Serves(s, r)
    BY <2>1 DEF ServedInv
  <2>3. state[s] = "EATING" /\ (left[s] = r \/ right[s] = r) /\ s \in Phils
    BY <1>1, <1>2, <2>2, OnlyEatersServe
  <2>4. CASE left[s] = r \/ s # left[left[1]]
    <3>1. s # left[left[1]] => right'[s] = right[s]
      BY <1>4, <2>3 DEF PhilTypes
    <3> QED BY <1>0, <1>1, <2>3, <2>4, <3>1 DEF Serves
  <2>5. CASE right[s] = r /\ s = left[left[1]]
    <3>1. r = left[1] /\ r = 1
      BY <1>3, <1>4, <1>5, <1>6, <2>5 DEF Leaving
    <3>2. right'[s] = 1
      BY <1>4, <2>3, <2>5 DEF PhilTypes
    <3> QED BY <1>0, <2>3, <3>1, <3>2 DEF Serves
  <2> QED BY <2>3, <2>4, <2>5
<1>7. firstPhil' = 1 => alive'[1] \/ state'[1] = "THINKING"
  BY <1>0, <1>1 DEF ServedInv
<1> QED BY <1>2, <1>6, <1>7 DEF ServedInv

LEMMA ServedUnlink ==
  ASSUME PhilTypes, MutexInv, RingInv, ServedInv, Orderly, Orderly', RemoveUnlink
  PROVE  ServedInv'
<1>0. /\ UNCHANGED <<state, granting>> /\ Phils \subseteq Procs /\ PHYLO \notin Phils
      /\ \A r \in Phils : pc'[r] = pc[r] \/ Takes(pc[r], pc'[r])
  BY PhyloPasses, Numbered
<1>1. /\ pc[PHYLO] = "removeLeft" /\ ~InCritical /\ UNCHANGED <<right, firstPhil, alive, del>>
      /\ Goto(PHYLO, "removeFree") /\ "removeFree" \in PhyloLabels
  BY NobodyRaced DEF RemoveUnlink, PhyloLabels, Ends
<1>2. /\ del = left[1] /\ right[del] = 1 /\ Alive' = Alive /\ Alive \subseteq Phils
      /\ left' = [left EXCEPT ![1] = left[del]]
  BY <1>1 DEF RingInv, PhaseInv, Alive, RemoveUnlink
<1>3. pc'[PHYLO] = "removeFree"
  BY <1>1, PhyloGoes
<1>4. ASSUME NEW r \in Alive, Waits(r)', ~Leaving(r)'
      PROVE  \E s \in Alive : Serves(s, r)'
  <2>1. Waits(r) /\ ~Leaving(r)
    BY <1>0, <1>1, <1>2, <1>3, <1>4 DEF Waits, Takes, Leaving
  <2>2. PICK s \in Alive : Serves(s, r)
    BY <2>1 DEF ServedInv
  <2>3. state[s] = "EATING" /\ (left[s] = r \/ right[s] = r) /\ s \in Phils
    BY <1>1, <1>2, <2>2, OnlyEatersServe
  <2>4. CASE right[s] = r \/ s # 1
    <3>1. s # 1 => left'[s] = left[s]
      BY <1>2, <2>3 DEF PhilTypes
    <3> QED BY <1>0, <1>1, <2>3, <2>4, <3>1 DEF Serves
  <2>5. CASE left[s] = r /\ s = 1
    <3>1. r = del /\ r = 1
      BY <1>1, <1>2, <2>1, <2>5 DEF Leaving
    <3>2. left'[s] = 1
      BY <1>2, <2>3, <2>5, <3>1 DEF PhilTypes
    <3> QED BY <1>0, <2>3, <3>1, <3>2 DEF Serves
  <2> QED BY <2>3, <2>4, <2>5
<1>5. firstPhil' = 1 => alive'[1] \/ state'[1] = "THINKING"
  BY <1>0, <1>1 DEF ServedInv
<1> QED BY <1>2, <1>4, <1>5 DEF ServedInv

\* The one that is killed served nobody.
LEMMA ServedKill ==
  ASSUME PhilTypes, MutexInv, StateInv, RingInv, ServedInv, Orderly, Orderly', RemoveKill
  PROVE  ServedInv'
<1>0. /\ UNCHANGED <<state, granting>> /\ Phils \subseteq Procs /\ PHYLO \notin Phils
      /\ \A r \in Phils : pc'[r] = pc[r] \/ Takes(pc[r], pc'[r])
  BY PhyloPasses, Numbered
<1>1. /\ pc[PHYLO] = "removeKill" /\ UNCHANGED <<left, right, firstPhil>>
      /\ alive' = [alive EXCEPT ![del] = FALSE]
      /\ lapses' = lapses \union {l \in Lapses :
           \/ l = "killedHolder" /\ pc[del] \in Critical
           \/ l = "killedWaiter" /\ del \in ToSet(queue)
           \/ l = "killedEater" /\ state[del] = "EATING"
           \/ l = "removedLast" /\ del = firstPhil}
  <2>1. ~Reused
    BY ReusedFacts DEF Orderly, Ending
  <2> QED BY <2>1 DEF RemoveKill, KillDel, ringVars
<1>2. PICK d \in Alive : d = del
  BY <1>1 DEF RingInv, PhaseInv
<1>3. d \in Phils /\ alive[d] /\ Alive \subseteq Phils /\ (d = 1 => Alive = {1})
  BY <1>1, <1>2 DEF Alive, RingInv, PhaseInv
<1>4. pc[d] \notin Critical /\ state[d] # "EATING"
  <2>1. pc[d] \in Critical => "killedHolder" \in lapses'
    BY <1>1, <1>2 DEF Lapses
  <2>2. state[d] = "EATING" => "killedEater" \in lapses'
    BY <1>1, <1>2 DEF Lapses
  <2> QED BY <2>1, <2>2 DEF Orderly
<1>5. \A p : ~Serves(d, p)
  BY <1>1, <1>4 DEF Serves, Critical
<1>6. \A r \in Phils : alive'[r] = (alive[r] /\ r # d)
  BY <1>0, <1>1, <1>2, <1>3 DEF PhilTypes
<1>7. Alive' = Alive \ {d}
  BY <1>6 DEF Alive
<1>8. ASSUME NEW r \in Alive', Waits(r)', ~Leaving(r)'
      PROVE  \E s \in Alive' : Serves(s, r)'
  <2>1. r \in Alive /\ Waits(r) /\ ~Leaving(r)
    BY <1>0, <1>2, <1>3, <1>7, <1>8 DEF Waits, Takes, Leaving
  <2>2. PICK s \in Alive : Serves(s, r)
    BY <2>1 DEF ServedInv
  <2>3. s \in Alive' /\ s \in Phils
    BY <1>3, <1>5, <1>7, <2>2
  <2>4. Serves(s, r)'
    BY <1>0, <1>1, <2>2, <2>3 DEF Serves, Takes
  <2> QED BY <2>3, <2>4
<1>9. firstPhil' = 1 => alive'[1] \/ state'[1] = "THINKING"
  <2>1. CASE d = 1
    <3>1. state[1] # "HUNGRY"
      <4>1. SUFFICES ASSUME state[1] = "HUNGRY" PROVE FALSE
        OBVIOUS
      <4>2. pc[1] = "ownSem"
        BY <1>3, <1>4, <2>1, <4>1 DEF StateInv, StateOf, PhilTypes, PcTypes, PhilLabels
      <4>3. Waits(1) /\ ~Leaving(1)
        BY <4>1, <4>2 DEF Waits, Leaving
      <4> QED BY <1>2, <1>3, <1>5, <2>1, <4>3 DEF ServedInv
    <3> QED BY <1>0, <1>3, <1>4, <2>1, <3>1 DEF PhilTypes
  <2>2. CASE d # 1
    <3>1. firstPhil = 1 => 1 \in Phils
      BY Numbered DEF RingInv, RingBase, PhilTypes
    <3> QED BY <1>0, <1>1, <1>6, <2>2, <3>1 DEF ServedInv
  <2> QED BY <2>1, <2>2
<1> QED BY <1>8, <1>9 DEF ServedInv

LEMMA ServedNext ==
  PhilTypes /\ MutexInv /\ StateInv /\ RingInv /\ ServedInv /\ [Next]_vars => ServedInv'
<1> SUFFICES ASSUME PhilTypes, MutexInv, StateInv, RingInv, ServedInv, [Next]_vars, Orderly'
             PROVE  ServedInv'
  BY DEF ServedInv
<1>0. Orderly
  BY LapsesGrow, EndingStays DEF Orderly
<1>1. CASE UNCHANGED vars
  BY <1>0, <1>1, ServedSame DEF vars, Leaving, Waits, Helps
<1>2. ASSUME NEW p \in Phils, philosopher(p)
      PROVE  ServedInv'
  <2>1. CASE semWaitMutex(p) \/ Leave(p) \/ OwnSem(p)
    <3>1. /\ UNCHANGED <<state, left, right, firstPhil, count, alive, del, granting, lapses>>
          /\ \A r \in Phils : \/ Passes(pc[r], pc'[r])
                              \/ r = p /\ pc[r] = "ownSem" /\ pc'[r] = "eating"
      BY <2>1, PhiloMoves
    <3>2. pc'[PHYLO] = pc[PHYLO]
      <4>1. PHYLO \in Procs /\ p \in Procs /\ p # PHYLO /\ pc \in [Procs -> Labels]
        BY Numbered DEF PhilTypes, PcTypes
      <4>2. pc'[PHYLO] # "free"
        BY DEF Orderly, Ending, Ends
      <4>3. CASE semWaitMutex(p)
        BY <4>1, <4>3, WaitFacts
      <4>4. CASE OwnSem(p)
        BY <4>1, <4>4 DEF OwnSem, Goto
      <4>5. CASE Leave(p)
        <5>1. PICK l \in {"ownSem", "asleep"} : /\ semPostMutex(p, l) /\ Passes(pc[p], l)
                                                /\ pc[p] \in {"leaveTake", "leavePut"}
          BY <4>5 DEF Leave, At, Passes
        <5>2. l \in Labels
          BY DEF Labels, PhilLabels, Critical
        <5>3. pc'[PHYLO] = pc[PHYLO] \/ Takes(pc[PHYLO], pc'[PHYLO])
          BY <4>1, <5>1, <5>2, PostPasses
        <5>4. pc[PHYLO] \in PhyloLabels
          BY DEF PhilTypes, PcTypes
        <5> QED BY <4>2, <5>3, <5>4 DEF Takes, PhyloLabels, Ends
      <4> QED BY <2>1, <4>3, <4>4, <4>5
    <3>3. /\ \A r \in Phils : Waits(r)' => Waits(r)
          /\ \A r \in Phils : pc[r] \in Helps => pc'[r] = pc[r]
          /\ \A r \in Phils : Leaving(r) => Leaving(r)'
      BY <3>1, <3>2 DEF Waits, Helps, Passes, Takes, Leaving
    <3> QED BY <1>0, <3>1, <3>2, <3>3, ServedSame
  <2>2. CASE Hungry(p) \/ PutLeft(p) \/ PutRight(p)
    BY <1>0, <2>2, ServedTest
  <2>3. CASE Grant(p)
    BY <1>0, <2>3, ServedGrant
  <2> QED BY <1>2, <2>1, <2>2, <2>3 DEF philosopher
<1> QED BY <1>0, <1>1, <1>2, StepCases, ServedQuiet, ServedStart, ServedAdd, ServedLoad, ServedRemove,
           ServedUnlink, ServedKill

-----------------------------------------------------------------------------
(* The dinner goes on.                                                     *)

LEMMA NotStuckFacts ==
  ASSUME PhilTypes, MutexInv, NEW p \in Procs, pc[p] \in Inside
  PROVE  ~Stuck(p) /\ pc[p] # "keys"
<1>1. \A i \in 1..Len(queue) : queue[i] # p
  BY DEF MutexInv, Inside, Ends, Critical
<1>2. DOMAIN queue = 1..Len(queue)
  BY DEF PhilTypes
<1> QED BY <1>1, <1>2 DEF Stuck, ToSet, Inside, Ends, Critical

\* Were all stuck, nobody alive would have the mutex, so nobody would queue for it,
\* so everybody would wait to be granted; but who serves one that waits does not.
LEMMA NotAllStuckHolds ==
  ASSUME PhilTypes, MutexInv, StateInv, RingInv, HolderInv, ServedInv
  PROVE  NotAllStuck
<1> SUFFICES ASSUME lapses \subseteq {"joinedEaters", "removedLast"},
                    NEW a \in Phils, alive[a],
                    \A p \in Procs : alive[p] /\ pc[p] # "keys" => Stuck(p)
             PROVE  FALSE
  BY DEF NotAllStuck
<1>0. /\ PHYLO \in Procs /\ Phils \subseteq Procs /\ a \in Alive /\ Alive \subseteq Phils
      /\ queue \in Seq(Procs) /\ DOMAIN queue = 1..Len(queue)
      /\ \A p \in Phils : pc[p] \in PhilLabels
      /\ pc[PHYLO] \in PhyloLabels
  BY Numbered DEF Alive, PhilTypes, PcTypes
<1>1. ~Ending
  <2>1. pc[PHYLO] \notin {"leave", "exited", "astray"}
    BY <1>0 DEF RingInv, PhaseInv
  <2>2. CASE pc[PHYLO] \in Ends
    <3>1. alive[PHYLO]
      BY <2>2 DEF RingInv, PhaseInv, Ends
    <3> QED BY <1>0, <2>2, <3>1, NotStuckFacts DEF Inside
  <2> QED BY <2>1, <2>2 DEF Ending
<1>2. queue = << >>
  <2>1. SUFFICES ASSUME queue # << >> PROVE FALSE
    OBVIOUS
  <2>2. mutex = 0
    BY <1>1, <2>1 DEF HolderInv, Ending
  <2>3. PICK h \in Procs : alive[h] /\ pc[h] \in Inside
    BY <1>1, <2>2 DEF HolderInv, Ending
  <2> QED BY <2>3, NotStuckFacts
<1>3. \A p \in Procs : alive[p] /\ pc[p] # "keys" => pc[p] = "ownSem" /\ sem[p] = 0
  <2>1. ToSet(queue) = {}
    BY <1>0, <1>2 DEF ToSet
  <2> QED BY <2>1 DEF Stuck
<1>4. \A p \in Alive : p \in Phils /\ pc[p] = "ownSem" /\ state[p] = "HUNGRY"
  <2>1. ASSUME NEW p \in Alive
        PROVE  p \in Phils /\ pc[p] = "ownSem" /\ sem[p] = 0
    <3>1. p \in Phils /\ alive[p] /\ p \in Procs
      BY <1>0 DEF Alive
    <3>2. pc[p] # "keys"
      BY <1>0, <3>1 DEF PhilLabels, Critical
    <3> QED BY <1>3, <3>1, <3>2
  <2> QED BY <2>1 DEF StateInv, StateOf
<1>5. ~Leaving(a)
  <2>1. SUFFICES ASSUME pc[PHYLO] \in {"removeLeft", "removeFree", "removeKill"} PROVE FALSE
    BY DEF Leaving
  <2>2. alive[PHYLO]
    BY <2>1 DEF RingInv, PhaseInv
  <2> QED BY <1>0, <1>3, <2>1, <2>2
<1>6. Waits(a)
  BY <1>0, <1>4 DEF Waits
<1>7. PICK q \in Alive : Serves(q, a)
  BY <1>0, <1>1, <1>5, <1>6 DEF ServedInv, Orderly, Ending
<1> QED BY <1>4, <1>7 DEF Serves

LEMMA PhilInitially == Init => PhilInv
<1> SUFFICES ASSUME Init PROVE PhilInv
  OBVIOUS
<1>0. /\ PHYLO \in Procs /\ Phils \subseteq Procs /\ PHYLO \notin Phils /\ MaxPhils \in Nat
      /\ Procs = Phils \union {PHYLO}
  BY Numbered
<1>1. /\ pc[PHYLO] = "start" /\ \A p \in Phils : pc[p] = "asleep"
      /\ pc = [p \in Procs |-> IF p = PHYLO THEN "start" ELSE "asleep"]
  BY <1>0 DEF Init
<1>2. Alive = {} /\ alive[PHYLO]
  BY <1>0 DEF Init, Alive
<1>3. PhilTypes
  <2>1. PcTypes
    BY <1>0, <1>1 DEF PcTypes, Labels, PhilLabels, PhyloLabels, Ends
  <2> QED BY <1>0, <2>1 DEF PhilTypes, Init, NULL
<1>4. MutexInv
  <2>1. queue = << >> /\ Len(queue) = 0
    BY DEF Init
  <2>2. \A p \in Procs : pc[p] \notin Inside
    BY <1>0, <1>1 DEF Inside, Ends, Critical
  <2> QED BY <2>1, <2>2 DEF MutexInv
<1>5. StateInv
  BY <1>1 DEF StateInv, StateOf, Init
<1>6. RingInv
  <2>1. RingBase
    BY <1>1, <1>2 DEF RingBase, Init, NULL
  <2>2. PhaseInv
    BY <1>1, <1>2 DEF PhaseInv, Init, NULL
  <2> QED BY <2>1, <2>2 DEF RingInv
<1>7. GrantInv
  BY <1>2 DEF GrantInv
<1>8. NeighboursNeverEat
  BY <1>0, <1>2 DEF NeighboursNeverEat, Alive
<1>9. HolderInv
  BY <1>2 DEF HolderInv, Init
<1>10. ServedInv
  BY <1>2 DEF ServedInv, Init, NULL
<1> QED BY <1>3, <1>4, <1>5, <1>6, <1>7, <1>8, <1>9, <1>10 DEF PhilInv

LEMMA PhilNext == PhilInv /\ [Next]_vars => PhilInv'
<1> SUFFICES ASSUME PhilTypes, MutexInv, StateInv, RingInv, GrantInv, NeighboursNeverEat,
                    HolderInv, ServedInv, [Next]_vars
             PROVE  PhilInv'
  BY DEF PhilInv
<1>1. PhilTypes' /\ MutexInv'
  BY TypesNext
<1>2. StateInv' /\ RingInv'
  BY StateNext, RingNext
<1>3. GrantInv' /\ NeighboursNeverEat'
  BY GrantNext, NeighboursNext
<1>4. HolderInv' /\ ServedInv'
  BY HolderNext, ServedNext
<1> QED BY <1>1, <1>2, <1>3, <1>4 DEF PhilInv

LEMMA PhilInvariant == Spec => []PhilInv
BY PhilInitially, PhilNext, PTL DEF Spec

\* No two neighbours eat at once, whatever phylo() adds or removes around them, and
\* not everybody waits for somebody else, whatever the number of philosophers: only
\* the removals and additions that are named in lapses, which take no lock, void it.
THEOREM DinnerContinues == Spec => []DinnerGoesOn
<1>1. PhilInv => DinnerGoesOn
  BY NotAllStuckHolds DEF PhilInv, DinnerGoesOn
<1> QED BY <1>1, PhilInvariant, PTL

\* Whoever waits to be granted has somebody alive who eats next to it or is about to
\* test it, so long as phylo() neither killed a philosopher that was eating or had the
\* mutex or queued for it, nor changed the links between two tests: the loop of
\* put_fork forgets nobody.
THEOREM NobodyIsForgotten == Spec => []ServedInv
<1>1. PhilInv => ServedInv
  BY DEF PhilInv
<1> QED BY <1>1, PhilInvariant, PTL
=============================================================================
