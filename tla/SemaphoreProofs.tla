--------------------------- MODULE SemaphoreProofs ---------------------------
(***************************************************************************)
(* Proofs about Semaphores, for every number of processes and semaphores   *)
(* and every size of the counter.                                          *)
(***************************************************************************)
EXTENDS Semaphores, SchedulerProofs

-----------------------------------------------------------------------------
(* unblockFirst relinks the list of processes.                             *)

LEMMA InsertAtFacts ==
  ASSUME NEW S, NEW s \in Seq(S), NEW i \in 1..(Len(s) + 1), NEW e \in S
  PROVE  /\ InsertAt(s, i, e) \in Seq(S)
         /\ Len(InsertAt(s, i, e)) = Len(s) + 1
         /\ \A j \in 1..(Len(s) + 1) :
              InsertAt(s, i, e)[j] = IF j < i THEN s[j] ELSE IF j = i THEN e ELSE s[j - 1]
<1> DEFINE a == SubSeq(s, 1, i - 1)
           b == SubSeq(s, i, Len(s))
           c == a \o <<e>>
<1>1. /\ a \in Seq(S) /\ Len(a) = i - 1
      /\ \A j \in 1..(i - 1) : a[j] = s[j]
  OBVIOUS
<1>2. /\ b \in Seq(S) /\ Len(b) = Len(s) - i + 1
      /\ \A j \in 1..(Len(s) - i + 1) : b[j] = s[i + j - 1]
  OBVIOUS
<1>3. <<e>> \in Seq(S) /\ Len(<<e>>) = 1 /\ <<e>>[1] = e
  OBVIOUS
<1>4. InsertAt(s, i, e) = c \o b
  BY DEF InsertAt
<1> HIDE DEF a, b
<1>5. c \in Seq(S) /\ Len(c) = i
  <2>1. Len(c) = Len(a) + Len(<<e>>) /\ c \in Seq(S)
    BY <1>1, <1>3, ConcatProperties, Zenon
  <2> QED BY <1>1, <1>3, <2>1
<1>6. \A j \in 1..i : c[j] = IF j < i THEN s[j] ELSE e
  BY <1>1, <1>3
<1> HIDE DEF c
<1>7. c \o b \in Seq(S) /\ Len(c \o b) = Len(s) + 1
  <2>1. Len(c \o b) = Len(c) + Len(b) /\ c \o b \in Seq(S)
    BY <1>2, <1>5, ConcatProperties, Zenon
  <2> QED BY <1>2, <1>5, <2>1
<1>8. \A j \in 1..(Len(s) + 1) :
        (c \o b)[j] = IF j < i THEN s[j] ELSE IF j = i THEN e ELSE s[j - 1]
  BY <1>2, <1>5, <1>6
<1> QED BY <1>4, <1>7, <1>8

\* Linking in a process that is not in the list.
LEMMA InsertDistinct ==
  ASSUME NEW S, NEW s \in Seq(S), NEW i \in 1..(Len(s) + 1), NEW e \in S,
         Distinct(s), ~In(e, s)
  PROVE  /\ Distinct(InsertAt(s, i, e))
         /\ \A x : In(x, InsertAt(s, i, e)) <=> In(x, s) \/ x = e
<1> DEFINE r == InsertAt(s, i, e)
<1>1. /\ Len(s) \in Nat
      /\ Len(r) = Len(s) + 1
      /\ \A j \in 1..(Len(s) + 1) : r[j] = IF j < i THEN s[j] ELSE IF j = i THEN e ELSE s[j - 1]
  BY InsertAtFacts
<1> HIDE DEF r
<1>2. Distinct(r)
  <2> SUFFICES ASSUME NEW j \in 1..(Len(s) + 1), NEW k \in 1..(Len(s) + 1), r[j] = r[k], j < k
               PROVE  FALSE
    BY <1>1 DEF Distinct
  <2>1. \A m \in 1..Len(s) : s[m] # e
    BY DEF In
  <2>2. \A m, q \in 1..Len(s) : s[m] = s[q] => m = q
    BY DEF Distinct
  <2>3. CASE j < i
    <3>1. j \in 1..Len(s) /\ r[j] = s[j]
      BY <1>1, <2>3
    <3>2. CASE k = i
      <4>1. r[k] = e
        BY <1>1, <3>2
      <4> QED BY <2>1, <3>1, <4>1
    <3>3. CASE k < i
      <4>1. k \in 1..Len(s) /\ r[k] = s[k]
        BY <1>1, <3>3
      <4>2. j = k
        BY <2>2, <3>1, <4>1
      <4> QED BY <4>2
    <3>4. CASE k > i
      <4>1. k - 1 \in 1..Len(s) /\ r[k] = s[k - 1]
        BY <1>1, <3>4
      <4>2. j = k - 1
        BY <2>2, <3>1, <4>1
      <4> QED BY <1>1, <2>3, <3>4, <4>2
    <3> QED BY <3>2, <3>3, <3>4
  <2>4. CASE ~(j < i)
    <3>1. k - 1 \in 1..Len(s) /\ r[k] = s[k - 1]
      BY <1>1, <2>4
    <3>2. CASE j = i
      BY <1>1, <2>1, <3>1, <3>2
    <3>3. CASE j > i
      <4>1. j - 1 \in 1..Len(s) /\ r[j] = s[j - 1]
        BY <1>1, <3>3
      <4>2. j - 1 = k - 1
        BY <2>2, <3>1, <4>1
      <4> QED BY <4>2
    <3> QED BY <2>4, <3>2, <3>3
  <2> QED BY <2>3, <2>4
<1>3. ASSUME NEW x, In(x, r) PROVE In(x, s) \/ x = e
  BY <1>1, <1>3 DEF In
<1>4. In(e, r)
  BY <1>1 DEF In
<1>5. ASSUME NEW x, In(x, s) PROVE In(x, r)
  <2>1. PICK j \in 1..Len(s) : s[j] = x
    BY <1>5 DEF In
  <2>2. CASE j < i
    BY <1>1, <2>1, <2>2 DEF In
  <2>3. CASE ~(j < i)
    <3>1. j + 1 \in 1..Len(r) /\ r[j + 1] = x
      BY <1>1, <2>1, <2>3
    <3> QED BY <3>1 DEF In
  <2> QED BY <2>2, <2>3
<1> QED BY <1>2, <1>3, <1>4, <1>5 DEF r

\* unblockFirst of another process: the list keeps its members, and pid comes
\* right after the caller, whose turn is used up.
LEMMA UnblockFirstFacts ==
  ASSUME SafetyInv, mode = "user", NEW pid \in Pid, pid # current, unblockFirst(pid),
         UNCHANGED <<priority, cpuVars>>
  PROVE  /\ procs' \in Seq(Pid) /\ Distinct(procs')
         /\ \A x : In(x, procs') <=> In(x, procs)
         /\ NextOf(current)' = pid
         /\ executions' \in [Pid -> -(CHAR_MAX + 1)..CHAR_MAX]
         /\ executions'[current] = Quantum(current)'
<1>1. current \in Pid /\ state[current] = "READY"
  BY UserFacts
<1>2. state[pid] # "NONE"
  BY DEF unblockFirst, Alive, SafetyInv, ListWellFormed
<1>3. procs \in Seq(Pid) /\ Distinct(procs)
  BY DEF SafetyInv, TypeOK, ListWellFormed, Distinct
<1>4. Position(pid) \in 1..Len(procs) /\ procs[Position(pid)] = pid
  BY <1>2, NextOfFacts DEF SafetyInv
<1> DEFINE rest == removeProcess(pid)
           i == CHOOSE j \in 1..Len(rest) : rest[j] = current
<1>5. /\ rest \in Seq(Pid) /\ Distinct(rest)
      /\ \A x : In(x, rest) <=> In(x, procs) /\ x # pid
  BY <1>3, <1>4, RemoveAtFacts, RemoveDistinct DEF removeProcess
<1>6. In(current, procs)
  BY <1>1 DEF SafetyInv, ListWellFormed, searchProcess, In
<1>7. procs' = InsertAt(rest, i + 1, pid)
  BY DEF unblockFirst
<1> HIDE DEF rest
<1>8. i \in 1..Len(rest) /\ rest[i] = current
  <2>1. \E j \in 1..Len(rest) : rest[j] = current
    BY <1>5, <1>6 DEF In
  <2> QED BY <2>1
<1> HIDE DEF i
<1>9. i + 1 \in 1..(Len(rest) + 1) /\ Len(rest) \in Nat
  BY <1>5, <1>8
<1>10. /\ procs' \in Seq(Pid) /\ Len(procs') = Len(rest) + 1
       /\ procs'[i] = current /\ procs'[i + 1] = pid
  <2>1. /\ InsertAt(rest, i + 1, pid) \in Seq(Pid)
        /\ Len(InsertAt(rest, i + 1, pid)) = Len(rest) + 1
        /\ \A j \in 1..(Len(rest) + 1) :
             InsertAt(rest, i + 1, pid)[j] =
               IF j < i + 1 THEN rest[j] ELSE IF j = i + 1 THEN pid ELSE rest[j - 1]
    <3> DEFINE n == i + 1
    <3>1. rest \in Seq(Pid) /\ n \in 1..(Len(rest) + 1) /\ pid \in Pid
      BY <1>5, <1>9
    <3> HIDE DEF n
    <3>2. /\ InsertAt(rest, n, pid) \in Seq(Pid)
          /\ Len(InsertAt(rest, n, pid)) = Len(rest) + 1
          /\ \A j \in 1..(Len(rest) + 1) :
               InsertAt(rest, n, pid)[j] =
                 IF j < n THEN rest[j] ELSE IF j = n THEN pid ELSE rest[j - 1]
      BY <3>1, InsertAtFacts
    <3> QED BY <3>2 DEF n
  <2>2. /\ i \in 1..(Len(rest) + 1) /\ i < i + 1 /\ ~(i + 1 < i + 1)
    BY <1>8, <1>9
  <2>3. /\ InsertAt(rest, i + 1, pid)[i] = rest[i]
        /\ InsertAt(rest, i + 1, pid)[i + 1] = pid
    BY <1>9, <2>1, <2>2
  <2> QED BY <1>7, <1>8, <2>1, <2>3
<1>11. Distinct(procs') /\ \A x : In(x, procs') <=> In(x, rest) \/ x = pid
  BY <1>5, <1>7, <1>9, InsertDistinct
<1>12. \A x : In(x, procs') <=> In(x, procs)
  <2>1. In(pid, procs)
    BY <1>4 DEF In
  <2> QED BY <1>5, <1>11, <2>1
<1>13. NextOf(current)' = pid
  <2>1. \A j \in 1..Len(procs') : procs'[j] = current => j = i
    BY <1>8, <1>9, <1>10, <1>11 DEF Distinct
  <2>2. current' = current
    BY DEF cpuVars
  <2>3. Position(current)' = i
    BY <1>8, <1>9, <1>10, <2>1, <2>2 DEF Position
  <2> QED BY <1>8, <1>9, <1>10, <2>2, <2>3 DEF NextOf
<1>14. /\ executions' \in [Pid -> -(CHAR_MAX + 1)..CHAR_MAX]
       /\ executions'[current] = Quantum(current)'
  <2>1. Quantum(current) \in -(CHAR_MAX + 1)..CHAR_MAX /\ Quantum(current)' = Quantum(current)
    BY <1>1, QuantumIsChar DEF SafetyInv, Quantum, cpuVars
  <2>2. executions' = [executions EXCEPT ![current] = Quantum(current)]
    BY DEF unblockFirst
  <2> QED BY <1>1, <2>1, <2>2 DEF SafetyInv, TypeOK
<1> QED BY <1>10, <1>11, <1>12, <1>13, <1>14

-----------------------------------------------------------------------------
(* The scheduler's invariant under the calls of sem.c.                     *)

\* The types of the state of sem.c; a semaphore that is closed has no queue.
SemTypes ==
  /\ isOpen \in [Sems -> BOOLEAN]
  /\ value \in [Sems -> 0..(SemMod - 1)]
  /\ entering \in [Sems -> Seq(Pid)]
  /\ waitingOn \in [Pid -> Sems \union {NoSem, Freed}]
  /\ holding \in [Pid -> SUBSET Sems]
  /\ \A s \in Sems : ~isOpen[s] => entering[s] = << >>

LEMMA SemInitTypes == SemInit => SafetyInv /\ SemTypes
<1> SUFFICES ASSUME SemInit PROVE SafetyInv /\ SemTypes
  OBVIOUS
<1>1. SafetyInv
  BY SafetyInit DEF SemInit
<1>2. << >> \in Seq(Pid) /\ 0 \in 0..(SemMod - 1)
  BY SemaphoresAssumption
<1> QED BY <1>1, <1>2 DEF SemInit, SemTypes

\* A counter stays an unsigned int.
LEMMA ModType ==
  ASSUME NEW x \in Int
  PROVE  x % SemMod \in 0..(SemMod - 1)
<1>1. SemMod \in Nat /\ SemMod > 0
  BY SemaphoresAssumption
<1> QED BY <1>1

\* The caller of semOpen, semWait, semPost and semClose.
LEMMA CallerFacts ==
  ASSUME SafetyInv, SemTypes, InUserCode
  PROVE  /\ current \in Pid /\ state[current] = "READY" /\ mode = "user"
         /\ firstBlockedIteration = NULL /\ waitingOn[current] = NoSem
         /\ current < pids /\ Alive(current)
<1>1. mode = "user" /\ waitingOn[current] = NoSem
  BY DEF InUserCode
<1>2. /\ current \in Pid /\ state[current] = "READY" /\ current < pids
      /\ firstBlockedIteration = NULL
  BY <1>1, UserFacts
<1> QED BY <1>1, <1>2 DEF SafetyInv, ListWellFormed, Alive

LEMMA SemTypesNext == SafetyInv /\ SemTypes /\ [SemNext]_allVars => SemTypes'
<1> SUFFICES ASSUME SafetyInv, SemTypes, [SemNext]_allVars PROVE SemTypes'
  OBVIOUS
<1>1. ASSUME NEW s \in Sems, semOpen(s) PROVE SemTypes'
  <2>1. 0 \in 0..(SemMod - 1) /\ 1 \in 0..(SemMod - 1)
    BY SemaphoresAssumption
  <2> QED BY <1>1, <2>1 DEF semOpen, SemTypes
<1>2. ASSUME NEW s \in Sems, semClose(s) PROVE SemTypes'
  <2>1. << >> \in Seq(Pid) /\ 0 \in 0..(SemMod - 1)
    BY SemaphoresAssumption
  <2>2. value' \in [Sems -> 0..(SemMod - 1)] /\ isOpen' \in [Sems -> BOOLEAN]
    BY <1>2, <2>1 DEF semClose, SemTypes
  <2>3. /\ entering' \in [Sems -> Seq(Pid)]
        /\ \A r \in Sems : ~isOpen'[r] => entering'[r] = << >>
    BY <1>2, <2>1 DEF semClose, SemTypes
  <2>4. waitingOn' \in [Pid -> Sems \union {NoSem, Freed}] /\ holding' \in [Pid -> SUBSET Sems]
    BY <1>2 DEF semClose, SemTypes
  <2> QED BY <2>2, <2>3, <2>4 DEF SemTypes
<1>3. ASSUME NEW s \in Sems, semWait(s) PROVE SemTypes'
  <2>1. current \in Pid /\ isOpen[s] /\ isOpen' = isOpen
    BY <1>3, CallerFacts DEF semWait, SemCalling
  <2>2. CASE value[s] > 0
    <3>1. value[s] - 1 \in 0..(SemMod - 1)
      BY <2>2, SemaphoresAssumption DEF SemTypes
    <3>2. /\ value' = [value EXCEPT ![s] = @ - 1]
          /\ holding' = [holding EXCEPT ![current] = @ \union {s}]
          /\ UNCHANGED <<entering, waitingOn>>
      BY <1>3, <2>2 DEF semWait
    <3>3. value' \in [Sems -> 0..(SemMod - 1)]
      BY <3>1, <3>2 DEF SemTypes
    <3>4. holding' \in [Pid -> SUBSET Sems]
      BY <2>1, <3>2 DEF SemTypes
    <3> QED BY <2>1, <3>2, <3>3, <3>4 DEF SemTypes
  <2>3. CASE ~(value[s] > 0)
    <3>1. Append(entering[s], current) \in Seq(Pid)
      BY <2>1 DEF SemTypes
    <3>2. /\ entering' = [entering EXCEPT ![s] = Append(@, current)]
          /\ waitingOn' = [waitingOn EXCEPT ![current] = s]
          /\ UNCHANGED <<value, holding>>
      BY <1>3, <2>3 DEF semWait
    <3> QED BY <2>1, <3>1, <3>2 DEF SemTypes
  <2> QED BY <2>2, <2>3
<1>4. ASSUME NEW s \in Sems, semPost(s) PROVE SemTypes'
  <2>1. current \in Pid /\ isOpen' = isOpen /\ waitingOn' = waitingOn
    BY <1>4, CallerFacts DEF semPost, SemCalling
  <2>2. (value[s] + 1) % SemMod \in 0..(SemMod - 1)
    <3>1. value[s] \in 0..(SemMod - 1)
      BY DEF SemTypes
    <3>2. value[s] + 1 \in Int
      BY <3>1
    <3> QED BY <3>2, ModType
  <2>3. value' \in [Sems -> 0..(SemMod - 1)] /\ holding' \in [Pid -> SUBSET Sems]
    BY <1>4, <2>1, <2>2 DEF semPost, SemTypes
  <2>4. /\ entering' \in [Sems -> Seq(Pid)]
        /\ \A r \in Sems : ~isOpen[r] => entering'[r] = << >>
    <3>1. isOpen[s]
      BY <1>4 DEF semPost, SemCalling
    <3>2. entering[s] # << >> => Tail(entering[s]) \in Seq(Pid)
      BY DEF SemTypes
    <3> QED BY <1>4, <3>1, <3>2 DEF semPost, SemTypes
  <2> QED BY <2>1, <2>3, <2>4 DEF SemTypes
<1>5. CASE semWaitResume
  <2>1. current \in Pid /\ waitingOn[current] \in Sems \union {Freed}
    BY <1>5, UserFacts DEF semWaitResume, SemTypes
  <2>2. ASSUME NEW r \in Sems PROVE (value[r] - 1) % SemMod \in 0..(SemMod - 1)
    <3>1. value[r] \in 0..(SemMod - 1)
      BY DEF SemTypes
    <3>2. value[r] - 1 \in Int
      BY <3>1
    <3> QED BY <3>2, ModType
  <2>3. /\ waitingOn' = [waitingOn EXCEPT ![current] = NoSem] /\ UNCHANGED <<isOpen, entering>>
    BY <1>5 DEF semWaitResume
  <2>4. waitingOn' \in [Pid -> Sems \union {NoSem, Freed}]
    BY <2>1, <2>3 DEF SemTypes
  <2>5. value' \in [Sems -> 0..(SemMod - 1)] /\ holding' \in [Pid -> SUBSET Sems]
    <3>1. CASE waitingOn[current] = Freed
      BY <1>5, <3>1 DEF semWaitResume, SemTypes
    <3>2. CASE waitingOn[current] # Freed
      <4> DEFINE s == waitingOn[current]
      <4>1. /\ s \in Sems
            /\ value' = [value EXCEPT ![s] = (@ - 1) % SemMod]
            /\ holding' = [holding EXCEPT ![current] = @ \union {s}]
        BY <1>5, <2>1, <3>2 DEF semWaitResume
      <4> HIDE DEF s
      <4>2. value' \in [Sems -> 0..(SemMod - 1)]
        BY <2>2, <4>1 DEF SemTypes
      <4>3. holding' \in [Pid -> SUBSET Sems]
        BY <2>1, <4>1 DEF SemTypes
      <4> QED BY <4>2, <4>3
    <3> QED BY <3>1, <3>2
  <2> QED BY <2>3, <2>4, <2>5 DEF SemTypes
<1>6. CASE SchedulerStep
  BY <1>6 DEF SchedulerStep, SemTypes
<1>7. CASE UNCHANGED allVars
  BY <1>7 DEF allVars, semVars, SemTypes
<1> QED BY <1>1, <1>2, <1>3, <1>4, <1>5, <1>6, <1>7 DEF SemNext

\* What semWait does to the scheduler when the semaphore is taken.
LEMMA WaitBlocks ==
  ASSUME SafetyInv, SemTypes, NEW s \in Sems, semWait(s), value[s] = 0
  PROVE  /\ SafetyInv'
         /\ state' = [state EXCEPT ![current] = "BLOCKED"] /\ mode' = "checkSleeping"
         /\ UNCHANGED <<procs, cpuVars, pids>>
<1>1. /\ block(current)
      /\ UNCHANGED <<procs, ppid, priority, children, cpuVars, pids, sleeping, lapses>>
  BY DEF semWait
<1>2. current \in Pid /\ firstBlockedIteration = NULL
  BY CallerFacts DEF semWait, SemCalling
<1>3. /\ state' \in [Pid -> States]
      /\ foreground' \in [Pid -> BOOLEAN] /\ backWait' \in [Pid -> BOOLEAN]
      /\ executions' \in [Pid -> -(CHAR_MAX + 1)..CHAR_MAX]
      /\ mode' \in Modes /\ scan' \in Nat
      /\ \A p \in Pid : state'[p] = "NONE" <=> state[p] = "NONE"
  BY <1>1, <1>2, BlockFacts DEF SafetyInv
<1>4. /\ state' = [state EXCEPT ![current] = "BLOCKED"]
      /\ mode' = "checkSleeping" /\ scan' = 1
  BY <1>1 DEF block, forceTimer
<1>5. TypeOK'
  BY <1>1, <1>3 DEF SafetyInv, TypeOK, cpuVars
<1>6. SafetyInv'
  BY <1>1, <1>2, <1>3, <1>4, <1>5, CalmStep
<1> QED BY <1>1, <1>4, <1>6

\* The first of the queue of a semaphore.
LEMMA HeadFacts ==
  ASSUME SemTypes, NEW s \in Sems, entering[s] # << >>
  PROVE  /\ Head(entering[s]) \in Pid /\ In(Head(entering[s]), entering[s])
         /\ \A x : In(x, Tail(entering[s])) => In(x, entering[s])
         /\ Distinct(entering[s]) =>
              /\ Distinct(Tail(entering[s])) /\ ~In(Head(entering[s]), Tail(entering[s]))
              /\ \A x : In(x, entering[s]) => x = Head(entering[s]) \/ In(x, Tail(entering[s]))
<1> DEFINE q == entering[s]
           t == Tail(q)
<1>1. q \in Seq(Pid) /\ q # << >>
  BY DEF SemTypes
<1> HIDE DEF q
<1>2. /\ Len(q) \in Nat /\ Len(q) >= 1
      /\ Head(q) = q[1] /\ t \in Seq(Pid)
      /\ Len(t) = Len(q) - 1 /\ \A j \in 1..(Len(q) - 1) : t[j] = q[j + 1]
  BY <1>1
<1> HIDE DEF t
<1>3. Head(q) \in Pid /\ In(Head(q), q)
  BY <1>1, <1>2 DEF In
<1>4. \A x : In(x, t) => In(x, q)
  BY <1>2 DEF In
<1>5. ASSUME Distinct(q)
      PROVE  /\ Distinct(t) /\ ~In(Head(q), t)
             /\ \A x : In(x, q) => x = Head(q) \/ In(x, t)
  <2>1. Distinct(t) /\ ~In(Head(q), t)
    BY <1>2, <1>5 DEF Distinct, In
  <2>2. ASSUME NEW x, In(x, q), x # Head(q) PROVE In(x, t)
    <3>1. PICK j \in 1..Len(q) : q[j] = x
      BY <2>2 DEF In
    <3>2. j - 1 \in 1..Len(t) /\ t[j - 1] = x
      BY <1>2, <2>2, <3>1
    <3> QED BY <3>2 DEF In
  <2> QED BY <2>1, <2>2
<1> QED BY <1>3, <1>4, <1>5 DEF q, t

\* What semPost does to the scheduler when it wakes another process.
LEMMA PostWakes ==
  ASSUME SafetyInv, NEW s \in Sems, semPost(s), mode = "user", NEW pid \in Pid, pid # current,
         unblockFirst(pid),
         UNCHANGED <<ppid, priority, children, cpuVars, pids, sleeping, lapses>>
  PROVE  SafetyInv'
<1>1. /\ current \in Pid /\ state[current] = "READY" /\ firstBlockedIteration = NULL
  BY UserFacts
<1>2. /\ procs' \in Seq(Pid) /\ Distinct(procs')
      /\ \A x : In(x, procs') <=> In(x, procs)
      /\ executions' \in [Pid -> -(CHAR_MAX + 1)..CHAR_MAX]
  BY UnblockFirstFacts
<1>3. /\ state[pid] # "NONE" /\ state' = [state EXCEPT ![pid] = "READY"]
      /\ TakeOver(pid) /\ mode' = "checkSleeping" /\ scan' = 1
  BY DEF unblockFirst, forceTimer, Alive, SafetyInv, ListWellFormed
<1>4. foreground' \in [Pid -> BOOLEAN] /\ backWait' \in [Pid -> BOOLEAN]
  BY <1>3, ForegroundTypes DEF SafetyInv
<1>5. /\ state' \in [Pid -> States]
      /\ \A p \in Pid : state'[p] = "NONE" <=> state[p] = "NONE"
  BY <1>3 DEF SafetyInv, TypeOK, States
<1>6. TypeOK'
  BY <1>2, <1>3, <1>4, <1>5 DEF SafetyInv, TypeOK, cpuVars, Modes
<1>7. ListWellFormed'
  BY <1>2, <1>5 DEF SafetyInv, ListWellFormed, searchProcess, In, Distinct
<1>8. NoDanglingProcess' /\ RunningIsReady' /\ MarkInLoop' /\ ScanInList'
  BY <1>1, <1>3, <1>5
  DEF cpuVars, NoDanglingProcess, RunningIsReady, MarkInLoop, ScanInList
<1> QED BY <1>6, <1>7, <1>8 DEF SafetyInv

LEMMA PostSafe ==
  ASSUME SafetyInv, SemTypes, NEW s \in Sems, semPost(s)
  PROVE  SafetyInv'
<1>1. CASE UNCHANGED vars
  BY <1>1, SafetyNext
<1>2. CASE ~(UNCHANGED vars)
  <2> DEFINE pid == Head(entering[s])
  <2>1. /\ entering[s] # << >> /\ unblockFirst(pid)
        /\ UNCHANGED <<ppid, priority, children, cpuVars, pids, sleeping, lapses>>
    BY <1>2 DEF semPost
  <2>2. pid \in Pid
    BY <2>1, HeadFacts
  <2>3. /\ mode = "user" /\ current \in Pid /\ state[current] = "READY"
        /\ firstBlockedIteration = NULL
    BY CallerFacts DEF semPost, SemCalling
  <2> HIDE DEF pid
  <2>4. CASE pid # current
    BY <2>1, <2>2, <2>3, <2>4, PostWakes
  <2>5. CASE pid = current
    <3>1. /\ mode' = "corrupt" /\ UNCHANGED <<procs, foreground, backWait, scan>>
          /\ state' = [state EXCEPT ![current] = "READY"]
          /\ executions' = [executions EXCEPT ![current] = Quantum(current)]
      BY <2>1, <2>5 DEF unblockFirst
    <3>2. Quantum(current) \in -(CHAR_MAX + 1)..CHAR_MAX
      BY <2>3, QuantumIsChar DEF SafetyInv
    <3>3. TypeOK'
      BY <2>1, <2>3, <3>1, <3>2 DEF SafetyInv, TypeOK, cpuVars, Modes, States
    <3>4. \A p \in Pid : state'[p] = "NONE" <=> state[p] = "NONE"
      BY <2>3, <3>1 DEF SafetyInv, TypeOK
    <3> QED BY <2>1, <2>3, <3>1, <3>3, <3>4, CalmStep
  <2> QED BY <2>4, <2>5
<1> QED BY <1>1, <1>2

\* Every step of a process that uses semaphores keeps the invariant.
LEMMA SemSafetyNext == SafetyInv /\ SemTypes /\ [SemNext]_allVars => SafetyInv'
<1> SUFFICES ASSUME SafetyInv, SemTypes, [SemNext]_allVars PROVE SafetyInv'
  OBVIOUS
<1>1. ASSUME NEW s \in Sems, semWait(s) PROVE SafetyInv'
  <2>1. CASE value[s] = 0
    BY <1>1, <2>1, WaitBlocks
  <2>2. CASE value[s] # 0
    BY <1>1, <2>2, SafetyNext DEF semWait
  <2> QED BY <2>1, <2>2
<1>2. ASSUME NEW s \in Sems, semPost(s) PROVE SafetyInv'
  BY <1>2, PostSafe
<1>3. CASE semWaitResume \/ UNCHANGED allVars \/ \E s \in Sems : semOpen(s) \/ semClose(s)
  <2>1. UNCHANGED vars
    BY <1>3 DEF semOpen, semClose, semWaitResume, allVars
  <2> QED BY <2>1, SafetyNext
<1>4. CASE SchedulerStep
  BY <1>4, SafetyNext DEF SchedulerStep
<1> QED BY <1>1, <1>2, <1>3, <1>4 DEF SemNext

LEMMA SemSafe == SemSpec => [](SafetyInv /\ SemTypes)
<1>1. SafetyInv /\ SemTypes /\ [SemNext]_allVars => (SafetyInv /\ SemTypes)'
  BY SemSafetyNext, SemTypesNext
<1> QED BY <1>1, SemInitTypes, PTL DEF SemSpec

\* unblockFirst neither loses a process from the list nor lets a process that is
\* not ready run, whatever is posted.
THEOREM SemListSafe == SemSpec => [](ListWellFormed /\ CpuIsSound)
<1>1. SafetyInv => ListWellFormed /\ CpuIsSound
  BY DEF SafetyInv, CpuIsSound
<1> QED BY <1>1, SemSafe, PTL

-----------------------------------------------------------------------------
(* The queues.                                                             *)

\* A waiter that was woken and has not taken the semaphore yet.
Handed(p) == waitingOn[p] # NoSem /\ state[p] = "READY"

\* It is the next process to run: the poster's turn is used up and it follows
\* the poster in the list, or nextProcess has come to it.
IsNext(p) ==
  \/ /\ mode = "checkSleeping" /\ current # NULL
     /\ state[current] = "READY" /\ executions[current] = Quantum(current)
     /\ NextOf(current) = p
  \/ mode \in {"nextProcess", "user"} /\ current = p

WaitersStopped ==
  \A p \in Pid : waitingOn[p] # NoSem => p # IDLE_PID /\ state[p] \in {"BLOCKED", "READY"}

HandedIsNext == \A p \in Pid : Handed(p) => IsNext(p)

QueuesExact ==
  \A s \in Sems :
    /\ Distinct(entering[s])
    /\ \A p \in Pid : In(p, entering[s]) =>
         \/ waitingOn[p] = s /\ state[p] = "BLOCKED"
         \/ "killedWaiter" \in faults /\ p < pids /\ state[p] \in {"DEAD", "NONE"}

BlockedIsQueued ==
  \A s \in Sems, p \in Pid : waitingOn[p] = s /\ state[p] = "BLOCKED" => In(p, entering[s])

\* Inductive, given the invariant of the scheduler and the types.
QueueInv ==
  "spuriousWake" \notin faults =>
    mode # "corrupt" /\ WaitersStopped /\ HandedIsNext /\ QueuesExact /\ BlockedIsQueued

\* A step of the scheduler moves a blocked process only to ready or dead.
LEMMA BlockedSteps ==
  ASSUME SafetyInv, Next, NEW p \in Pid, state[p] = "BLOCKED"
  PROVE  state'[p] \in {"BLOCKED", "READY", "DEAD"}
<1>1. SystemCall => current \in Pid /\ state[current] = "READY"
  BY UserFacts DEF SystemCall, SysLoadProcess, SysKill, exitProcess, SysBlock, SysUnblock, SysNice,
                   wait, blockIO, quitCPU, sleep, Calling
<1>2. CASE SysLoadProcess
  <2>1. PICK fg \in BOOLEAN : enqueueProcess(fg)
    BY <1>2 DEF SysLoadProcess
  <2> QED BY <2>1, IdlePid DEF enqueueProcess, IdleBlocked, SafetyInv, TypeOK
<1>3. CASE SysKill \/ exitProcess
  <2>1. PICK pid \in Pid : kill(pid)
    BY <1>1, <1>3 DEF SysKill, exitProcess, SystemCall
  <2> QED BY <2>1 DEF kill, SafetyInv, TypeOK
<1>4. CASE SysBlock \/ sleep
  <2>1. PICK pid \in Pid : block(pid)
    BY <1>1, <1>4 DEF SysBlock, sleep, SystemCall
  <2> QED BY <2>1 DEF block, SafetyInv, TypeOK
<1>5. CASE SysUnblock
  <2>1. PICK pid \in Pid : unblock(pid)
    BY <1>5 DEF SysUnblock
  <2> QED BY <2>1 DEF unblock, SafetyInv, TypeOK
<1>6. CASE wait \/ blockIO
  BY <1>1, <1>6 DEF wait, blockIO, SystemCall, SafetyInv, TypeOK
<1>7. CASE SysNice \/ quitCPU \/ TimerInterrupt \/ ClockSecond
  BY <1>7 DEF SysNice, quitCPU, TimerInterrupt, ClockSecond, procVars
<1>8. CASE unblockIO
  BY <1>8 DEF unblockIO
<1>9. CASE wakeUp
  <2>1. sleeping[FirstDue].pid \in Pid
    BY <1>9, FirstDueFacts DEF wakeUp, SafetyInv, ScanInList
  <2> QED BY <1>9, <2>1 DEF wakeUp, unblock, SafetyInv, TypeOK
<1>10. CASE NextAllBlocked
  BY <1>10, IdlePid DEF NextAllBlocked, unblock, SafetyInv, TypeOK
<1>11. CASE NextReap
  BY <1>11 DEF NextReap, SafetyInv, TypeOK
<1>12. CASE NextRun
  BY <1>12, IdlePid DEF NextRun, IdleBlocked, SafetyInv, TypeOK
<1>13. CASE EnterNextProcess \/ NextWrap \/ NextSkip
  BY <1>13 DEF EnterNextProcess, NextWrap, NextSkip, procVars
<1> QED BY <1>2, <1>3, <1>4, <1>5, <1>6, <1>7, <1>8, <1>9, <1>10, <1>11, <1>12, <1>13
        DEF Next, SystemCall, TimerHandler, nextProcess

\* Pids are handed out in order.
LEMMA PidsGrow ==
  ASSUME SafetyInv, Next, NEW p \in Pid, p < pids
  PROVE  p < pids'
<1>1. pids' \in {pids, pids + 1}
  BY DEF Next, SystemCall, SysLoadProcess, enqueueProcess, SysKill, exitProcess, SysBlock,
         SysUnblock, SysNice, wait, blockIO, quitCPU, sleep, TimerInterrupt, unblockIO,
         ClockSecond, TimerHandler, wakeUp, nextProcess, EnterNextProcess, NextWrap,
         NextAllBlocked, NextReap, NextSkip, NextRun
<1> QED BY <1>1 DEF SafetyInv, TypeOK, Pid

\* The timer handler goes straight from the poster to the process it woke.
LEMMA HandedKept ==
  ASSUME SafetyInv, SemTypes, NEW p \in Pid, p # IDLE_PID, Handed(p), IsNext(p), SchedulerStep
  PROVE  state'[p] = "READY" /\ IsNext(p)'
<1>1. state[p] = "READY" /\ waitingOn[p] # NoSem /\ Next
  BY DEF Handed, SchedulerStep
<1>2. CASE mode = "user"
  <2>1. current = p /\ ~InUserCode
    BY <1>1, <1>2 DEF IsNext, InUserCode
  <2>2. UNCHANGED <<procs, procVars, cpuVars, mode, scan>>
    BY <1>2, <2>1 DEF SchedulerStep
  <2> QED BY <1>1, <1>2, <2>1, <2>2 DEF IsNext, procVars, cpuVars
<1>3. CASE ClockSecond
  <2>1. UNCHANGED <<procs, procVars, cpuVars, mode, scan>>
    BY <1>3 DEF ClockSecond
  <2> QED BY <1>1, <2>1 DEF IsNext, NextOf, Position, Quantum, procVars, cpuVars
<1>4. CASE mode # "user" /\ TimerHandler
  <2>1. CASE mode = "checkSleeping"
    <3>1. /\ current # NULL /\ state[current] = "READY"
          /\ executions[current] = Quantum(current) /\ NextOf(current) = p
      BY <2>1 DEF IsNext
    <3>2. CASE wakeUp
      <4>1. sleeping[FirstDue].pid \in Pid
        BY <3>2, FirstDueFacts DEF wakeUp, SafetyInv, ScanInList
      <4>2. \A q \in Pid : state[q] = "READY" => state'[q] = "READY"
        BY <3>2, <4>1 DEF wakeUp, unblock, SafetyInv, TypeOK
      <4>3. UNCHANGED <<procs, priority, executions, current, mode>>
        BY <3>2 DEF wakeUp, cpuVars
      <4>4. current \in Pid
        BY <3>1 DEF SafetyInv, TypeOK
      <4> QED BY <1>1, <2>1, <3>1, <4>2, <4>3, <4>4 DEF IsNext, NextOf, Position, Quantum
    <3>3. CASE EnterNextProcess
      BY <1>1, <3>1, <3>3 DEF EnterNextProcess, IsNext
    <3> QED BY <1>4, <2>1, <3>2, <3>3
            DEF TimerHandler, nextProcess, NextWrap, NextAllBlocked, NextReap, NextSkip, NextRun
  <2>2. CASE mode = "nextProcess"
    <3>1. current = p /\ p # NULL
      BY <2>2, IdlePid DEF IsNext
    <3>2. NextRun
      BY <1>1, <1>4, <2>2, <3>1
      DEF TimerHandler, nextProcess, wakeUp, EnterNextProcess, NextWrap, NextAllBlocked, NextReap,
          NextSkip, Runnable
    <3>3. state'[p] = "READY"
      BY <1>1, <3>2, IdlePid DEF NextRun, IdleBlocked, SafetyInv, TypeOK
    <3> QED BY <3>1, <3>2, <3>3 DEF NextRun, IsNext
  <2> QED BY <1>4, <2>1, <2>2 DEF IsNext
<1>5. mode # "user" => ClockSecond \/ TimerHandler
  BY <1>1 DEF Next, SystemCall, SysLoadProcess, SysKill, exitProcess, SysBlock, SysUnblock, SysNice,
              wait, blockIO, quitCPU, sleep, Calling, TimerInterrupt, unblockIO
<1> QED BY <1>2, <1>3, <1>4, <1>5

\* While a process runs its own code no woken waiter is on its way.
LEMMA NoneHanded ==
  ASSUME HandedIsNext, InUserCode, NEW p \in Pid
  PROVE  ~Handed(p)
BY DEF HandedIsNext, InUserCode, Handed, IsNext

LEMMA QueueScheduler ==
  ASSUME SafetyInv, SemTypes, QueueInv, SchedulerStep, "spuriousWake" \notin faults'
  PROVE  mode' # "corrupt" /\ (WaitersStopped /\ HandedIsNext /\ QueuesExact /\ BlockedIsQueued)'
<1>1. /\ Next /\ entering' = entering /\ faults \subseteq faults'
      /\ waitingOn' = [p \in Pid |-> IF state'[p] = "DEAD" THEN NoSem ELSE waitingOn[p]]
  BY DEF SchedulerStep
<1>2. mode # "corrupt" /\ WaitersStopped /\ HandedIsNext /\ QueuesExact /\ BlockedIsQueued
  BY <1>1 DEF QueueInv
<1>3. \A p \in Pid : waitingOn[p] # NoSem =>
        /\ state'[p] = "READY" => state[p] = "READY"
        /\ state'[p] = "DEAD" => "killedWaiter" \in faults'
  BY DEF SchedulerStep
<1>4. \A p \in Pid : Handed(p) => state'[p] = "READY" /\ IsNext(p)'
  BY <1>2, HandedKept DEF WaitersStopped, HandedIsNext, Handed
<1>5. \A p \in Pid : state[p] = "BLOCKED" => state'[p] \in {"BLOCKED", "READY", "DEAD"}
  BY <1>1, BlockedSteps
<1>6. \A p \in Pid : waitingOn[p] # NoSem =>
        \/ state[p] = "BLOCKED" /\ state'[p] \in {"BLOCKED", "DEAD"}
        \/ Handed(p) /\ Handed(p)' /\ IsNext(p)'
  BY <1>1, <1>2, <1>3, <1>4, <1>5 DEF WaitersStopped, Handed
<1>7. mode' # "corrupt"
  BY <1>1, <1>2 DEF Next, SystemCall, SysLoadProcess, SysKill, exitProcess, SysBlock, SysUnblock,
                    SysNice, wait, blockIO, quitCPU, sleep, kill, block, forceTimer,
                    TimerInterrupt, unblockIO, ClockSecond, TimerHandler, wakeUp, nextProcess,
                    EnterNextProcess, NextWrap, NextAllBlocked, NextReap, NextSkip, NextRun
<1>8. WaitersStopped' /\ HandedIsNext'
  BY <1>1, <1>2, <1>6 DEF WaitersStopped, HandedIsNext, Handed
<1>9. QueuesExact'
  <2> SUFFICES ASSUME NEW s \in Sems, NEW p \in Pid, In(p, entering[s])
               PROVE  \/ waitingOn'[p] = s /\ state'[p] = "BLOCKED"
                      \/ "killedWaiter" \in faults' /\ p < pids' /\ state'[p] \in {"DEAD", "NONE"}
    BY <1>1, <1>2 DEF QueuesExact
  <2>1. CASE waitingOn[p] = s /\ state[p] = "BLOCKED"
    <3>1. waitingOn[p] # NoSem
      BY <2>1, SemaphoresAssumption
    <3>2. p < pids'
      BY <1>1, <2>1, PidsGrow DEF SafetyInv, ListWellFormed
    <3> QED BY <1>1, <1>3, <1>6, <2>1, <3>1, <3>2 DEF Handed
  <2>2. CASE "killedWaiter" \in faults /\ p < pids /\ state[p] \in {"DEAD", "NONE"}
    <3>1. p < pids' /\ Buried(p)
      BY <1>1, <2>2, PidsGrow, EveryStepBuries
    <3> QED BY <1>1, <2>2, <3>1 DEF Buried
  <2> QED BY <1>2, <2>1, <2>2 DEF QueuesExact
<1>10. BlockedIsQueued'
  <2> SUFFICES ASSUME NEW s \in Sems, NEW p \in Pid, waitingOn'[p] = s, state'[p] = "BLOCKED"
               PROVE  In(p, entering[s])
    BY <1>1 DEF BlockedIsQueued
  <2>1. waitingOn[p] = s /\ s # NoSem
    BY <1>1, SemaphoresAssumption
  <2>2. state[p] = "BLOCKED"
    BY <1>6, <2>1 DEF Handed
  <2> QED BY <1>2, <2>1, <2>2 DEF BlockedIsQueued
<1> QED BY <1>7, <1>8, <1>9, <1>10

\* semWait on a semaphore that is taken: the caller is queued, once.
LEMMA QueueWait ==
  ASSUME SafetyInv, SemTypes, QueueInv, "spuriousWake" \notin faults,
         NEW s \in Sems, semWait(s), value[s] = 0
  PROVE  QueueInv'
<1>1. /\ state' = [state EXCEPT ![current] = "BLOCKED"] /\ mode' = "checkSleeping"
      /\ UNCHANGED <<procs, cpuVars, pids>>
  BY WaitBlocks
<1>2. /\ entering' = [entering EXCEPT ![s] = Append(@, current)]
      /\ waitingOn' = [waitingOn EXCEPT ![current] = s]
      /\ faults' = faults
  BY DEF semWait
<1>3. /\ current \in Pid /\ state[current] = "READY" /\ waitingOn[current] = NoSem
      /\ current # IDLE_PID /\ InUserCode
  BY CallerFacts DEF semWait, SemCalling
<1>4. WaitersStopped /\ HandedIsNext /\ QueuesExact /\ BlockedIsQueued
  BY DEF QueueInv
<1>5. \A p \in Pid \ {current} : state'[p] = state[p] /\ waitingOn'[p] = waitingOn[p]
  BY <1>1, <1>2 DEF SafetyInv, TypeOK, SemTypes
<1>6. state'[current] = "BLOCKED" /\ waitingOn'[current] = s
  BY <1>1, <1>2, <1>3 DEF SafetyInv, TypeOK, SemTypes
<1>7. \A r \in Sems : ~In(current, entering[r])
  BY <1>3, <1>4, SemaphoresAssumption DEF QueuesExact
<1>8. /\ \A r \in Sems : Distinct(entering'[r])
      /\ \A r \in Sems, p \in Pid :
           In(p, entering'[r]) <=> In(p, entering[r]) \/ (r = s /\ p = current)
  <2>1. entering[s] \in Seq(Pid) /\ Distinct(entering[s])
    BY <1>4 DEF SemTypes, QueuesExact
  <2>2. /\ Distinct(Append(entering[s], current))
        /\ \A x : In(x, Append(entering[s], current)) <=> In(x, entering[s]) \/ x = current
    BY <1>3, <1>7, <2>1, AppendDistinct
  <2>3. \A r \in Sems : entering'[r] = IF r = s THEN Append(entering[s], current) ELSE entering[r]
    BY <1>2 DEF SemTypes
  <2> QED BY <1>4, <2>2, <2>3 DEF QueuesExact
<1>9. WaitersStopped'
  BY <1>3, <1>4, <1>5, <1>6 DEF WaitersStopped
<1>10. HandedIsNext'
  <2>1. \A p \in Pid : ~Handed(p)'
    BY <1>3, <1>4, <1>5, <1>6, NoneHanded DEF Handed
  <2> QED BY <2>1 DEF HandedIsNext
<1>11. QueuesExact' /\ BlockedIsQueued'
  BY <1>1, <1>2, <1>3, <1>4, <1>5, <1>6, <1>7, <1>8 DEF QueuesExact, BlockedIsQueued
<1> QED BY <1>1, <1>9, <1>10, <1>11 DEF QueueInv

\* semPost hands the semaphore to the first of the queue, which is then the next
\* process to run.
LEMMA QueuePost ==
  ASSUME SafetyInv, SemTypes, QueueInv, "spuriousWake" \notin faults,
         NEW s \in Sems, semPost(s), entering[s] # << >>, Alive(Head(entering[s]))
  PROVE  /\ QueueInv'
         /\ waitingOn[Head(entering[s])] = s
         /\ \A p \in Pid : Handed(p)' <=> p = Head(entering[s])
<1>0. PICK h \in Pid : h = Head(entering[s]) /\ In(h, entering[s])
  BY HeadFacts
<1>1. /\ unblockFirst(h) /\ entering' = [entering EXCEPT ![s] = Tail(@)]
      /\ UNCHANGED <<ppid, priority, children, cpuVars, pids, sleeping, lapses>>
      /\ UNCHANGED <<waitingOn, faults>>
  BY <1>0 DEF semPost
<1>2. h \in Pid /\ In(h, entering[s]) /\ state[h] # "DEAD" /\ state[h] # "NONE"
  BY <1>0 DEF Alive, SafetyInv, ListWellFormed
<1>3. WaitersStopped /\ HandedIsNext /\ QueuesExact /\ BlockedIsQueued
  BY DEF QueueInv
<1>4. /\ current \in Pid /\ state[current] = "READY" /\ waitingOn[current] = NoSem
      /\ mode = "user" /\ InUserCode
  BY CallerFacts DEF semPost, SemCalling
<1>5. waitingOn[h] = s /\ state[h] = "BLOCKED" /\ h # current
  BY <1>2, <1>3, <1>4 DEF QueuesExact
<1>6. /\ Distinct(Tail(entering[s])) /\ ~In(h, Tail(entering[s]))
      /\ \A x : In(x, Tail(entering[s])) => In(x, entering[s])
      /\ \A x : In(x, entering[s]) => x = h \/ In(x, Tail(entering[s]))
  BY <1>0, <1>3, HeadFacts DEF QueuesExact
<1>7. /\ NextOf(current)' = h /\ executions'[current] = Quantum(current)'
  BY <1>1, <1>2, <1>4, <1>5, UnblockFirstFacts
<1>8. /\ state' = [state EXCEPT ![h] = "READY"] /\ mode' = "checkSleeping" /\ current' = current
  BY <1>1, <1>5 DEF unblockFirst, forceTimer, cpuVars
<1>9. /\ state'[h] = "READY" /\ state'[current] = "READY"
      /\ \A p \in Pid \ {h} : state'[p] = state[p]
  BY <1>2, <1>4, <1>8 DEF SafetyInv, TypeOK
<1>10. \A r \in Sems : entering'[r] = IF r = s THEN Tail(entering[s]) ELSE entering[r]
  BY <1>1 DEF SemTypes
<1>11. \A p \in Pid : Handed(p)' <=> p = h
  <2>1. \A p \in Pid : ~Handed(p)
    BY <1>3, <1>4, NoneHanded
  <2>2. waitingOn'[h] # NoSem
    BY <1>1, <1>5, SemaphoresAssumption
  <2> QED BY <1>1, <1>9, <2>1, <2>2 DEF Handed
<1>12. HandedIsNext'
  <2>1. IsNext(h)'
    <3>1. current' # NULL /\ mode' = "checkSleeping" /\ state'[current'] = "READY"
      BY <1>4, <1>8, <1>9, IdlePid DEF Pid, NULL
    <3>2. /\ executions'[current'] = Quantum(current)' /\ NextOf(current)' = h
      BY <1>7, <1>8
    <3> QED BY <3>1, <3>2 DEF IsNext
  <2>2. ASSUME NEW p \in Pid, Handed(p)' PROVE IsNext(p)'
    <3>1. p = h
      BY <1>11, <2>2
    <3> QED BY <2>1, <3>1
  <2> QED BY <2>2 DEF HandedIsNext
<1>13. WaitersStopped'
  BY <1>1, <1>3, <1>9 DEF WaitersStopped
<1>14. QueuesExact'
  <2>1. \A r \in Sems \ {s} : ~In(h, entering[r])
    BY <1>2, <1>3, <1>5 DEF QueuesExact
  <2> QED BY <1>1, <1>3, <1>6, <1>9, <1>10, <2>1 DEF QueuesExact
<1>15. BlockedIsQueued'
  BY <1>1, <1>3, <1>6, <1>9, <1>10 DEF BlockedIsQueued
<1> QED BY <1>0, <1>5, <1>8, <1>11, <1>12, <1>13, <1>14, <1>15 DEF QueueInv

\* Steps that leave the processes, the queues and who waits alone.
LEMMA QueueSame ==
  ASSUME QueueInv, UNCHANGED <<vars, entering, waitingOn, faults>>
  PROVE  QueueInv'
BY DEF QueueInv, WaitersStopped, HandedIsNext, QueuesExact, BlockedIsQueued, Handed, IsNext,
       NextOf, Position, Quantum, Distinct, In, vars, procVars, cpuVars

LEMMA QueueNext ==
  SafetyInv /\ SemTypes /\ QueueInv /\ [SemNext]_allVars => QueueInv'
<1> SUFFICES ASSUME SafetyInv, SemTypes, QueueInv, [SemNext]_allVars PROVE QueueInv'
  OBVIOUS
<1>1. faults \subseteq faults'
  BY DEF SemNext, semOpen, semClose, semWait, semPost, semWaitResume, SchedulerStep, allVars,
         semVars
<1> SUFFICES ASSUME "spuriousWake" \notin faults' PROVE QueueInv'
  BY DEF QueueInv
<1>2. /\ "spuriousWake" \notin faults /\ mode # "corrupt"
      /\ WaitersStopped /\ HandedIsNext /\ QueuesExact /\ BlockedIsQueued
  BY <1>1 DEF QueueInv
<1>3. CASE \E s \in Sems : semOpen(s)
  BY <1>3, QueueSame DEF semOpen
<1>4. ASSUME NEW s \in Sems, semClose(s) PROVE QueueInv'
  <2>1. /\ UNCHANGED vars /\ InUserCode
        /\ waitingOn' = [p \in Pid |-> IF waitingOn[p] = s THEN Freed ELSE waitingOn[p]]
        /\ entering' = [entering EXCEPT ![s] = << >>]
        /\ faults' \subseteq faults \union {"closedWaiter"}
    BY <1>4 DEF semClose, SemCalling
  <2>2. UNCHANGED <<state, pids, mode>>
    BY <2>1 DEF vars, procVars
  <2>3. \A p \in Pid : waitingOn'[p] = IF waitingOn[p] = s THEN Freed ELSE waitingOn[p]
    BY <2>1
  <2>4. \A p \in Pid : waitingOn'[p] # NoSem <=> waitingOn[p] # NoSem
    BY <2>3, SemaphoresAssumption
  <2>5. WaitersStopped'
    BY <1>2, <2>2, <2>4 DEF WaitersStopped
  <2>6. HandedIsNext'
    BY <1>2, <2>1, <2>2, <2>4, NoneHanded DEF HandedIsNext, Handed
  <2>7. /\ \A r \in Sems \ {s} : entering'[r] = entering[r]
        /\ entering'[s] = << >>
    BY <2>1 DEF SemTypes
  <2>8. Distinct(<< >>) /\ \A x : ~In(x, << >>)
    BY DEF Distinct, In
  <2>9. QueuesExact'
    BY <1>1, <1>2, <2>2, <2>3, <2>7, <2>8, SemaphoresAssumption DEF QueuesExact
  <2>10. BlockedIsQueued'
    BY <1>2, <2>2, <2>3, <2>7, SemaphoresAssumption DEF BlockedIsQueued
  <2> QED BY <1>2, <2>2, <2>5, <2>6, <2>9, <2>10 DEF QueueInv
<1>5. ASSUME NEW s \in Sems, semWait(s) PROVE QueueInv'
  <2>1. CASE value[s] = 0
    BY <1>2, <1>5, <2>1, QueueWait
  <2>2. CASE value[s] # 0
    BY <1>5, <2>2, QueueSame DEF semWait
  <2> QED BY <2>1, <2>2
<1>6. ASSUME NEW s \in Sems, semPost(s) PROVE QueueInv'
  <2>1. CASE entering[s] = << >>
    BY <1>6, <2>1, QueueSame DEF semPost
  <2>2. CASE entering[s] # << >> /\ Alive(Head(entering[s]))
    BY <1>2, <1>6, <2>2, QueuePost
  <2>3. CASE entering[s] # << >> /\ ~Alive(Head(entering[s]))
    <3>1. /\ entering' = [entering EXCEPT ![s] = Tail(@)]
          /\ UNCHANGED vars /\ UNCHANGED <<waitingOn, faults>>
      BY <1>6, <2>3 DEF semPost
    <3>2. \A r \in Sems : entering'[r] = IF r = s THEN Tail(entering[s]) ELSE entering[r]
      BY <3>1 DEF SemTypes
    <3>3. UNCHANGED <<procs, state, executions, priority, current, pids, mode>>
      BY <3>1 DEF vars, procVars, cpuVars
    <3>4. /\ Distinct(Tail(entering[s]))
          /\ \A x : In(x, Tail(entering[s])) => In(x, entering[s])
          /\ \A x : In(x, entering[s]) => x = Head(entering[s]) \/ In(x, Tail(entering[s]))
      BY <1>2, <2>3, HeadFacts DEF QueuesExact
    <3>5. Head(entering[s]) \in Pid /\ state[Head(entering[s])] \in {"DEAD", "NONE"}
      BY <2>3, HeadFacts DEF Alive, SafetyInv, ListWellFormed
    <3>6. WaitersStopped' /\ HandedIsNext'
      BY <1>2, <3>1, <3>3
      DEF WaitersStopped, HandedIsNext, Handed, IsNext, NextOf, Position, Quantum
    <3>7. QueuesExact' /\ BlockedIsQueued'
      BY <1>2, <3>1, <3>2, <3>3, <3>4, <3>5 DEF QueuesExact, BlockedIsQueued
    <3> QED BY <1>2, <3>3, <3>6, <3>7 DEF QueueInv
  <2> QED BY <2>1, <2>2, <2>3
<1>7. CASE semWaitResume
  <2>1. /\ waitingOn' = [waitingOn EXCEPT ![current] = NoSem]
        /\ UNCHANGED vars /\ UNCHANGED <<entering, faults>> /\ mode = "user"
    BY <1>7 DEF semWaitResume
  <2>2. current \in Pid /\ state[current] = "READY"
    BY <2>1, UserFacts
  <2>3. UNCHANGED <<procs, state, executions, priority, current, pids, mode>>
    BY <2>1 DEF vars, procVars, cpuVars
  <2>4. \A p \in Pid : waitingOn'[p] = IF p = current THEN NoSem ELSE waitingOn[p]
    BY <2>1, <2>2 DEF SemTypes
  <2>5. WaitersStopped'
    BY <1>2, <2>3, <2>4 DEF WaitersStopped
  <2>6. HandedIsNext'
    BY <1>2, <2>1, <2>3, <2>4 DEF HandedIsNext, Handed, IsNext
  <2>7. QueuesExact'
    BY <1>2, <2>1, <2>2, <2>3, <2>4 DEF QueuesExact
  <2>8. BlockedIsQueued'
    BY <1>2, <2>1, <2>2, <2>3, <2>4, SemaphoresAssumption DEF BlockedIsQueued
  <2> QED BY <1>2, <2>3, <2>5, <2>6, <2>7, <2>8 DEF QueueInv
<1>8. CASE SchedulerStep
  BY <1>8, QueueScheduler DEF QueueInv
<1>9. CASE UNCHANGED allVars
  BY <1>9, QueueSame DEF allVars, semVars
<1> QED BY <1>3, <1>4, <1>5, <1>6, <1>7, <1>8, <1>9 DEF SemNext

LEMMA QueueAlways == SemSpec => [](SafetyInv /\ SemTypes /\ QueueInv)
<1>1. SemInit => QueueInv
  <2> SUFFICES ASSUME SemInit PROVE QueueInv
    OBVIOUS
  <2>1. \A p \in Pid : waitingOn[p] = NoSem
    BY DEF SemInit
  <2>2. \A s \in Sems : entering[s] = << >>
    BY DEF SemInit
  <2>3. Distinct(<< >>) /\ \A x : ~In(x, << >>)
    BY DEF Distinct, In
  <2>4. WaitersStopped /\ HandedIsNext
    BY <2>1 DEF WaitersStopped, HandedIsNext, Handed
  <2>5. QueuesExact /\ BlockedIsQueued
    BY <2>1, <2>2, <2>3, SemaphoresAssumption DEF QueuesExact, BlockedIsQueued
  <2>6. mode # "corrupt"
    BY DEF SemInit, Init
  <2> QED BY <2>4, <2>5, <2>6 DEF QueueInv
<1> QED BY <1>1, QueueNext, SemSafe, PTL DEF SemSpec

\* A semaphore that is posted goes to the first waiter before any process runs
\* code of its own, and unblockFirst never makes a process its own successor.
THEOREM Handoff == SemSpec => []HandoffIsImmediate
<1>1. SafetyInv /\ QueueInv => HandoffIsImmediate
  <2> SUFFICES ASSUME SafetyInv, QueueInv, "spuriousWake" \notin faults
               PROVE  /\ InUserCode => \A p \in Pid : waitingOn[p] # NoSem => state[p] # "READY"
                      /\ mode # "corrupt"
    BY DEF HandoffIsImmediate
  <2>1. mode # "corrupt" /\ HandedIsNext
    BY DEF QueueInv
  <2> QED BY <2>1, NoneHanded DEF Handed
<1> QED BY <1>1, QueueAlways, PTL

-----------------------------------------------------------------------------
(* The counters.                                                           *)

HandedOn(s) == \E p \in Pid : Handed(p) /\ waitingOn[p] = s

\* A woken waiter finds its semaphore available; a semaphore with a queue has
\* nothing to give but what is on its way to a woken waiter.
ValueInv ==
  "spuriousWake" \notin faults =>
    \A s \in Sems :
      /\ value[s] <= SemMod \div 2
      /\ HandedOn(s) => value[s] > 0
      /\ "killedWaiter" \notin faults /\ entering[s] # << >> =>
           value[s] = IF HandedOn(s) THEN 1 ELSE 0

\* Counting up and down without wrapping around.
LEMMA HalfFacts ==
  /\ SemMod \in Nat /\ SemMod \div 2 \in Nat
  /\ SemMod \div 2 >= 1 /\ SemMod \div 2 < SemMod
BY SemaphoresAssumption

LEMMA SmallMod ==
  ASSUME NEW x \in Nat, x < SemMod
  PROVE  x % SemMod = x
BY SemaphoresAssumption

\* A step of the scheduler wakes no waiter and stops none that was woken.
LEMMA HandedSame ==
  ASSUME SafetyInv, SemTypes, QueueInv, SchedulerStep, "spuriousWake" \notin faults'
  PROVE  \A p \in Pid : /\ Handed(p)' <=> Handed(p)
                        /\ Handed(p) => waitingOn'[p] = waitingOn[p]
<1>1. /\ faults \subseteq faults'
      /\ waitingOn' = [p \in Pid |-> IF state'[p] = "DEAD" THEN NoSem ELSE waitingOn[p]]
  BY DEF SchedulerStep
<1>2. WaitersStopped /\ HandedIsNext
  BY <1>1 DEF QueueInv
<1>3. \A p \in Pid : waitingOn[p] # NoSem /\ state'[p] = "READY" => state[p] = "READY"
  BY DEF SchedulerStep
<1>4. \A p \in Pid : Handed(p) => state'[p] = "READY"
  BY <1>2, HandedKept DEF WaitersStopped, HandedIsNext, Handed
<1> QED BY <1>1, <1>3, <1>4 DEF Handed

LEMMA ValueNext ==
  SafetyInv /\ SemTypes /\ QueueInv /\ ValueInv /\ [SemNext]_allVars => ValueInv'
<1> SUFFICES ASSUME SafetyInv, SemTypes, QueueInv, ValueInv, [SemNext]_allVars,
                    "spuriousWake" \notin faults'
             PROVE  ValueInv'
  BY DEF ValueInv
<1>1. faults \subseteq faults'
  BY DEF SemNext, semOpen, semClose, semWait, semPost, semWaitResume, SchedulerStep, allVars,
         semVars
<1>2. /\ "spuriousWake" \notin faults
      /\ WaitersStopped /\ HandedIsNext /\ QueuesExact /\ BlockedIsQueued
  BY <1>1 DEF QueueInv
<1>3. \A s \in Sems :
        /\ value[s] \in Nat /\ value[s] <= SemMod \div 2
        /\ HandedOn(s) => value[s] > 0
        /\ "killedWaiter" \notin faults /\ entering[s] # << >> =>
             value[s] = IF HandedOn(s) THEN 1 ELSE 0
  BY <1>2 DEF ValueInv, SemTypes
<1>4. InUserCode => \A s \in Sems : ~HandedOn(s)
  BY <1>2, NoneHanded DEF HandedOn
<1>5. ASSUME NEW s \in Sems, semOpen(s) PROVE ValueInv'
  <2>1. /\ InUserCode /\ ~isOpen[s] /\ UNCHANGED vars /\ UNCHANGED <<entering, waitingOn, faults>>
        /\ value' = [value EXCEPT ![s] = IF s \in Mutexes THEN 1 ELSE 0]
    BY <1>5 DEF semOpen
  <2>2. \A r \in Sems : ~HandedOn(r)'
    BY <1>4, <2>1 DEF HandedOn, Handed, vars, procVars
  <2>3. entering[s] = << >> /\ \A r \in Sems \ {s} : value'[r] = value[r]
    BY <2>1 DEF SemTypes
  <2>4. value'[s] <= SemMod \div 2
    BY <2>1, HalfFacts DEF SemTypes
  <2> QED BY <1>3, <1>4, <2>1, <2>2, <2>3, <2>4 DEF ValueInv
<1>6. ASSUME NEW s \in Sems, semClose(s) PROVE ValueInv'
  <2>1. /\ InUserCode /\ UNCHANGED vars
        /\ waitingOn' = [p \in Pid |-> IF waitingOn[p] = s THEN Freed ELSE waitingOn[p]]
        /\ entering' = [entering EXCEPT ![s] = << >>]
        /\ value' = [value EXCEPT ![s] = 0]
    BY <1>6 DEF semClose, SemCalling
  <2>2. \A r \in Sems : ~HandedOn(r)'
    BY <1>2, <2>1, NoneHanded, SemaphoresAssumption DEF HandedOn, Handed, vars, procVars
  <2>3. /\ entering'[s] = << >> /\ value'[s] = 0
        /\ \A r \in Sems \ {s} : value'[r] = value[r] /\ entering'[r] = entering[r]
    BY <2>1 DEF SemTypes
  <2> QED BY <1>1, <1>3, <1>4, <2>1, <2>2, <2>3, HalfFacts DEF ValueInv
<1>7. ASSUME NEW s \in Sems, semWait(s) PROVE ValueInv'
  <2>1. InUserCode /\ current \in Pid /\ faults' = faults
    BY <1>7, CallerFacts DEF semWait, SemCalling
  <2>2. CASE value[s] = 0
    <3>1. /\ entering' = [entering EXCEPT ![s] = Append(@, current)]
          /\ waitingOn' = [waitingOn EXCEPT ![current] = s] /\ value' = value
      BY <1>7, <2>2 DEF semWait
    <3>2. state' = [state EXCEPT ![current] = "BLOCKED"]
      BY <1>7, <2>2, WaitBlocks
    <3>3. \A r \in Sems : ~HandedOn(r)'
      <4>1. \A p \in Pid : ~Handed(p)
        BY <1>2, <2>1, NoneHanded
      <4>2. \A p \in Pid : ~Handed(p)'
        BY <2>1, <3>1, <3>2, <4>1 DEF Handed, SafetyInv, TypeOK, SemTypes
      <4> QED BY <4>2 DEF HandedOn
    <3>4. \A r \in Sems \ {s} : entering'[r] = entering[r]
      BY <3>1 DEF SemTypes
    <3> QED BY <1>3, <1>4, <2>1, <2>2, <3>1, <3>3, <3>4 DEF ValueInv
  <2>3. CASE value[s] # 0
    <3>1. /\ value' = [value EXCEPT ![s] = @ - 1] /\ value[s] > 0
          /\ UNCHANGED vars /\ UNCHANGED <<entering, waitingOn>>
      BY <1>7, <2>3 DEF semWait
    <3>2. \A r \in Sems : ~HandedOn(r)'
      BY <1>4, <2>1, <3>1 DEF HandedOn, Handed, vars, procVars
    <3>3. value'[s] = value[s] - 1 /\ \A r \in Sems \ {s} : value'[r] = value[r]
      BY <3>1 DEF SemTypes
    <3>4. value'[s] <= SemMod \div 2
      BY <1>3, <3>1, <3>3, HalfFacts
    <3> QED BY <1>3, <1>4, <2>1, <3>1, <3>2, <3>3, <3>4 DEF ValueInv
  <2> QED BY <2>2, <2>3
<1>8. ASSUME NEW s \in Sems, semPost(s) PROVE ValueInv'
  <2>1. /\ InUserCode /\ UNCHANGED <<waitingOn, faults>> /\ value[s] # SemMod \div 2
        /\ value' = [value EXCEPT ![s] = (@ + 1) % SemMod]
    BY <1>8 DEF semPost, SemCalling
  <2>2. /\ value'[s] = value[s] + 1 /\ value'[s] <= SemMod \div 2
        /\ \A r \in Sems \ {s} : value'[r] = value[r]
    <3>1. value[s] + 1 \in Nat /\ value[s] + 1 <= SemMod \div 2 /\ value[s] + 1 < SemMod
      BY <1>3, <2>1, HalfFacts
    <3>2. (value[s] + 1) % SemMod = value[s] + 1
      BY <3>1, SmallMod
    <3> QED BY <2>1, <3>1, <3>2 DEF SemTypes
  <2>3. \A r \in Sems \ {s} : entering'[r] = entering[r]
    BY <1>8 DEF semPost, SemTypes
  <2>4. CASE entering[s] # << >> /\ Alive(Head(entering[s]))
    <3>1. /\ waitingOn[Head(entering[s])] = s
          /\ \A p \in Pid : Handed(p)' <=> p = Head(entering[s])
      BY <1>2, <1>8, <2>4, QueuePost
    <3>2. Head(entering[s]) \in Pid
      BY <2>4, HeadFacts
    <3>3. HandedOn(s)' /\ \A r \in Sems \ {s} : ~HandedOn(r)'
      BY <2>1, <3>1, <3>2 DEF HandedOn
    <3>4. "killedWaiter" \notin faults => value[s] = 0
      BY <1>3, <1>4, <2>1, <2>4
    <3>5. value'[s] > 0 /\ ("killedWaiter" \notin faults => value'[s] = 1)
      BY <1>3, <2>2, <3>4
    <3> QED BY <1>3, <1>4, <2>1, <2>2, <2>3, <3>3, <3>5 DEF ValueInv
  <2>5. CASE entering[s] = << >> \/ ~Alive(Head(entering[s]))
    <3>1. UNCHANGED vars
      BY <1>8, <2>5 DEF semPost
    <3>2. \A r \in Sems : ~HandedOn(r)'
      BY <1>4, <2>1, <3>1 DEF HandedOn, Handed, vars, procVars
    <3>3. "killedWaiter" \notin faults => entering'[s] = << >>
      <4>1. CASE entering[s] = << >>
        BY <1>8, <4>1 DEF semPost
      <4>2. CASE entering[s] # << >> /\ ~Alive(Head(entering[s]))
        <5>1. /\ Head(entering[s]) \in Pid /\ In(Head(entering[s]), entering[s])
              /\ state[Head(entering[s])] \in {"DEAD", "NONE"}
          BY <4>2, HeadFacts DEF Alive, SafetyInv, ListWellFormed
        <5> QED BY <1>2, <5>1 DEF QueuesExact
      <4> QED BY <2>5, <4>1, <4>2
    <3> QED BY <1>3, <1>4, <2>1, <2>2, <2>3, <3>2, <3>3 DEF ValueInv
  <2> QED BY <2>4, <2>5
<1>9. CASE semWaitResume
  <2> DEFINE s == waitingOn[current]
  <2>1. /\ mode = "user" /\ s # NoSem /\ UNCHANGED vars /\ UNCHANGED <<entering, faults>>
        /\ waitingOn' = [waitingOn EXCEPT ![current] = NoSem]
        /\ IF s = Freed THEN value' = value ELSE value' = [value EXCEPT ![s] = (@ - 1) % SemMod]
    BY <1>9 DEF semWaitResume
  <2>2. current \in Pid /\ Handed(current) /\ s \in Sems \union {Freed}
    BY <2>1, UserFacts DEF Handed, SemTypes
  <2> HIDE DEF s
  <2>3. \A p \in Pid : Handed(p) => p = current
    BY <1>2, <2>1 DEF HandedIsNext, IsNext
  <2>4. \A r \in Sems : (HandedOn(r) <=> r = s) /\ ~HandedOn(r)'
    <3>1. \A r \in Sems : HandedOn(r) <=> r = s
      BY <2>2, <2>3 DEF HandedOn, s
    <3>2. \A p \in Pid : ~Handed(p)'
      BY <2>1, <2>2, <2>3 DEF Handed, SemTypes, vars, procVars
    <3> QED BY <3>1, <3>2 DEF HandedOn
  <2>5. s \in Sems => value'[s] = value[s] - 1 /\ value[s] > 0
    <3> SUFFICES ASSUME s \in Sems PROVE value'[s] = value[s] - 1 /\ value[s] > 0
      OBVIOUS
    <3>1. value[s] > 0 /\ value[s] \in Nat /\ value[s] <= SemMod \div 2
      BY <1>3, <2>4
    <3>2. value[s] - 1 \in Nat /\ value[s] - 1 < SemMod
      BY <3>1, HalfFacts
    <3>3. (value[s] - 1) % SemMod = value[s] - 1
      BY <3>2, SmallMod
    <3> QED BY <2>1, <3>1, <3>3, SemaphoresAssumption DEF SemTypes
  <2>6. \A r \in Sems \ {s} : value'[r] = value[r]
    BY <2>1, <2>2 DEF SemTypes
  <2>7. \A r \in Sems : value'[r] <= SemMod \div 2
    BY <1>3, <2>5, <2>6, HalfFacts
  <2>8. \A r \in Sems : "killedWaiter" \notin faults /\ entering[r] # << >> => value'[r] = 0
    BY <1>3, <2>4, <2>5, <2>6
  <2> QED BY <2>1, <2>4, <2>7, <2>8 DEF ValueInv
<1>10. CASE SchedulerStep
  <2>1. UNCHANGED <<value, entering>>
    BY <1>10 DEF SchedulerStep
  <2>2. \A r \in Sems : HandedOn(r)' <=> HandedOn(r)
    BY <1>10, HandedSame DEF HandedOn
  <2> QED BY <1>1, <1>3, <2>1, <2>2 DEF ValueInv
<1>11. CASE UNCHANGED allVars
  BY <1>3, <1>11 DEF allVars, semVars, vars, procVars, ValueInv, HandedOn, Handed
<1> QED BY <1>5, <1>6, <1>7, <1>8, <1>9, <1>10, <1>11 DEF SemNext

LEMMA ValueAlways == SemSpec => [](SafetyInv /\ SemTypes /\ QueueInv /\ ValueInv)
<1>1. SemInit => ValueInv
  BY HalfFacts DEF SemInit, ValueInv, HandedOn, Handed
<1> QED BY <1>1, ValueNext, QueueAlways, PTL DEF SemSpec

\* No wake-up is lost: a process blocked in semWait is in the queue of its
\* semaphore, once, and nobody is queued on a semaphore that is available.
THEOREM WaitersServed == SemSpec => []WaitersAreServed
<1>1. SemTypes /\ QueueInv /\ ValueInv => WaitersAreServed
  <2> SUFFICES ASSUME SemTypes, QueueInv, ValueInv, "spuriousWake" \notin faults
               PROVE  WaitersAreServed
    BY DEF WaitersAreServed
  <2>1. WaitersStopped /\ HandedIsNext /\ QueuesExact /\ BlockedIsQueued
    BY DEF QueueInv
  <2>2. ASSUME NEW p \in Pid, NEW s \in Sems, waitingOn[p] = s, state[p] = "BLOCKED"
        PROVE  Cardinality(Queued(p, s)) = 1
    <3>1. Distinct(entering[s]) /\ In(p, entering[s])
      BY <2>1, <2>2 DEF QueuesExact, BlockedIsQueued
    <3>2. PICK i \in 1..Len(entering[s]) : entering[s][i] = p
      BY <3>1 DEF In
    <3>3. Queued(p, s) = {i}
      BY <3>1, <3>2 DEF Queued, Distinct
    <3> QED BY <3>3, FS_Singleton
  <2>3. ASSUME "killedWaiter" \notin faults, InUserCode, NEW s \in Sems, value[s] > 0
        PROVE  entering[s] = << >>
    <3>1. ~HandedOn(s)
      BY <2>1, <2>3, NoneHanded DEF HandedOn
    <3>2. entering[s] # << >> => value[s] = 0
      BY <2>3, <3>1 DEF ValueInv
    <3> QED BY <2>3, <3>2
  <2> QED BY <2>2, <2>3 DEF WaitersAreServed
<1> QED BY <1>1, ValueAlways, PTL

-----------------------------------------------------------------------------
(* Mutual exclusion.                                                       *)

\* A mutex is free, or held by one process; or its holder was killed.
MutexInv ==
  "spuriousWake" \notin faults =>
    \A s \in Mutexes :
      /\ value[s] \in {0, 1}
      /\ \A p, q \in Pid : s \in holding[p] /\ s \in holding[q] => p = q
      /\ value[s] = 1 => \A p \in Pid : s \notin holding[p]
      /\ ~isOpen[s] => value[s] = 0 /\ \A p \in Pid : s \notin holding[p]
      /\ faults = {} /\ isOpen[s] => value[s] = 1 \/ \E p \in Pid : s \in holding[p]

\* What a step may do to the mutex s that no call of the step is about.
LEMMA MutexSame ==
  ASSUME MutexInv, "spuriousWake" \notin faults, faults \subseteq faults', NEW s \in Mutexes,
         value'[s] = value[s], isOpen'[s] = isOpen[s],
         \A p \in Pid : s \in holding'[p] <=> s \in holding[p]
  PROVE  /\ value'[s] \in {0, 1}
         /\ \A p, q \in Pid : s \in holding'[p] /\ s \in holding'[q] => p = q
         /\ value'[s] = 1 => \A p \in Pid : s \notin holding'[p]
         /\ ~isOpen'[s] => value'[s] = 0 /\ \A p \in Pid : s \notin holding'[p]
         /\ faults' = {} /\ isOpen'[s] => value'[s] = 1 \/ \E p \in Pid : s \in holding'[p]
BY DEF MutexInv

LEMMA MutexNext ==
  SafetyInv /\ SemTypes /\ QueueInv /\ ValueInv /\ MutexInv /\ [SemNext]_allVars => MutexInv'
<1> SUFFICES ASSUME SafetyInv, SemTypes, QueueInv, ValueInv, MutexInv, [SemNext]_allVars,
                    "spuriousWake" \notin faults'
             PROVE  MutexInv'
  BY DEF MutexInv
<1>1. faults \subseteq faults'
  BY DEF SemNext, semOpen, semClose, semWait, semPost, semWaitResume, SchedulerStep, allVars,
         semVars
<1>2. "spuriousWake" \notin faults
  BY <1>1
<1>3. \A s \in Mutexes :
        /\ s \in Sems /\ value[s] \in {0, 1}
        /\ \A p, q \in Pid : s \in holding[p] /\ s \in holding[q] => p = q
        /\ value[s] = 1 => \A p \in Pid : s \notin holding[p]
        /\ ~isOpen[s] => value[s] = 0 /\ \A p \in Pid : s \notin holding[p]
        /\ faults = {} /\ isOpen[s] => value[s] = 1 \/ \E p \in Pid : s \in holding[p]
  BY <1>2, SemaphoresAssumption DEF MutexInv
<1>4. ASSUME NEW s \in Sems, semOpen(s) PROVE MutexInv'
  <2>1. /\ ~isOpen[s] /\ UNCHANGED holding
        /\ isOpen' = [isOpen EXCEPT ![s] = TRUE]
        /\ value' = [value EXCEPT ![s] = IF s \in Mutexes THEN 1 ELSE 0]
    BY <1>4 DEF semOpen
  <2>2. \A r \in Sems \ {s} : value'[r] = value[r] /\ isOpen'[r] = isOpen[r]
    BY <2>1 DEF SemTypes
  <2>3. isOpen'[s] /\ (s \in Mutexes => value'[s] = 1)
    BY <2>1 DEF SemTypes
  <2> QED BY <1>1, <1>2, <1>3, <2>1, <2>2, <2>3, MutexSame DEF MutexInv
<1>5. ASSUME NEW s \in Sems, semClose(s) PROVE MutexInv'
  <2>1. /\ holding' = [p \in Pid |-> holding[p] \ {s}]
        /\ isOpen' = [isOpen EXCEPT ![s] = FALSE]
        /\ value' = [value EXCEPT ![s] = 0]
    BY <1>5 DEF semClose
  <2>2. \A r \in Sems \ {s} :
          /\ value'[r] = value[r] /\ isOpen'[r] = isOpen[r]
          /\ \A p \in Pid : r \in holding'[p] <=> r \in holding[p]
    BY <2>1 DEF SemTypes
  <2>3. ~isOpen'[s] /\ value'[s] = 0 /\ \A p \in Pid : s \notin holding'[p]
    BY <2>1 DEF SemTypes
  <2> QED BY <1>1, <1>2, <1>3, <2>2, <2>3, MutexSame DEF MutexInv
<1>6. ASSUME NEW s \in Sems, value[s] > 0, current \in Pid, UNCHANGED <<isOpen, faults>>,
             value'[s] = value[s] - 1, \A r \in Sems \ {s} : value'[r] = value[r],
             holding' = [holding EXCEPT ![current] = @ \union {s}]
      PROVE  MutexInv'
  <2>1. \A r \in Sems \ {s} : \A p \in Pid : r \in holding'[p] <=> r \in holding[p]
    BY <1>6 DEF SemTypes
  <2>2. \A p \in Pid : s \in holding'[p] <=> s \in holding[p] \/ p = current
    BY <1>6 DEF SemTypes
  <2>3. s \in Mutexes => /\ value[s] = 1 /\ value'[s] = 0 /\ isOpen[s]
                         /\ \A p \in Pid : s \in holding'[p] <=> p = current
    BY <1>3, <1>6, <2>2
  <2> QED BY <1>2, <1>3, <1>6, <2>1, <2>3, MutexSame DEF MutexInv
<1>7. ASSUME UNCHANGED <<isOpen, value, holding, faults>> PROVE MutexInv'
  BY <1>7 DEF MutexInv
<1>8. ASSUME NEW s \in Sems, semWait(s) PROVE MutexInv'
  <2>1. current \in Pid /\ UNCHANGED <<isOpen, faults>>
    BY <1>8, CallerFacts DEF semWait, SemCalling
  <2>2. CASE value[s] > 0
    <3>1. /\ value' = [value EXCEPT ![s] = @ - 1]
          /\ holding' = [holding EXCEPT ![current] = @ \union {s}]
      BY <1>8, <2>2 DEF semWait
    <3>2. value'[s] = value[s] - 1 /\ \A r \in Sems \ {s} : value'[r] = value[r]
      BY <3>1 DEF SemTypes
    <3> QED BY <1>6, <2>1, <2>2, <3>1, <3>2
  <2>3. CASE ~(value[s] > 0)
    <3>1. UNCHANGED <<value, holding>>
      BY <1>8, <2>3 DEF semWait
    <3> QED BY <1>7, <2>1, <3>1
  <2> QED BY <2>2, <2>3
<1>9. ASSUME NEW s \in Sems, semPost(s) PROVE MutexInv'
  <2>1. /\ UNCHANGED <<isOpen, faults>> /\ (s \in Mutexes => s \in holding[current])
        /\ value' = [value EXCEPT ![s] = (@ + 1) % SemMod]
        /\ holding' = [holding EXCEPT ![current] = @ \ {s}] /\ isOpen[s]
    BY <1>9 DEF semPost, SemCalling
  <2>2. current \in Pid
    BY <1>9, CallerFacts DEF semPost, SemCalling
  <2>3. \A r \in Sems \ {s} :
          /\ value'[r] = value[r]
          /\ \A p \in Pid : r \in holding'[p] <=> r \in holding[p]
    BY <2>1, <2>2 DEF SemTypes
  <2>4. s \in Mutexes => value'[s] = 1 /\ \A p \in Pid : s \notin holding'[p]
    <3> SUFFICES ASSUME s \in Mutexes
                 PROVE  value'[s] = 1 /\ \A p \in Pid : s \notin holding'[p]
      OBVIOUS
    <3>1. value[s] = 0
      BY <1>3, <2>1, <2>2
    <3>2. 1 % SemMod = 1
      BY SmallMod, SemaphoresAssumption
    <3>3. \A p \in Pid : s \in holding[p] => p = current
      BY <1>3, <2>1, <2>2
    <3> QED BY <2>1, <2>2, <3>1, <3>2, <3>3 DEF SemTypes
  <2> QED BY <1>2, <1>3, <2>1, <2>3, <2>4, MutexSame DEF MutexInv
<1>10. CASE semWaitResume
  <2> DEFINE s == waitingOn[current]
  <2>1. /\ mode = "user" /\ s # NoSem /\ UNCHANGED <<isOpen, faults>>
        /\ IF s = Freed THEN UNCHANGED <<value, holding>>
           ELSE /\ value' = [value EXCEPT ![s] = (@ - 1) % SemMod]
                /\ holding' = [holding EXCEPT ![current] = @ \union {s}]
    BY <1>10 DEF semWaitResume
  <2>2. current \in Pid /\ Handed(current) /\ s \in Sems \union {Freed}
    BY <2>1, UserFacts DEF Handed, SemTypes
  <2>3. CASE s = Freed
    BY <1>7, <2>1, <2>3
  <2>4. CASE s # Freed
    <3>1. s \in Sems /\ HandedOn(s)
      BY <2>2, <2>4 DEF HandedOn
    <3> HIDE DEF s
    <3>2. value[s] > 0 /\ value[s] \in Nat /\ value[s] <= SemMod \div 2
      BY <1>2, <3>1 DEF ValueInv, SemTypes
    <3>3. value[s] - 1 \in Nat /\ value[s] - 1 < SemMod
      BY <3>2, HalfFacts
    <3>4. (value[s] - 1) % SemMod = value[s] - 1
      BY <3>3, SmallMod
    <3>5. value'[s] = value[s] - 1 /\ \A r \in Sems \ {s} : value'[r] = value[r]
      BY <2>1, <2>4, <3>1, <3>4 DEF SemTypes
    <3> QED BY <1>6, <2>1, <2>2, <2>4, <3>1, <3>2, <3>5
  <2> QED BY <2>3, <2>4
<1>11. CASE SchedulerStep
  <2>1. /\ UNCHANGED <<value, isOpen>>
        /\ holding' = [p \in Pid |-> IF state'[p] = "DEAD" THEN {} ELSE holding[p]]
    BY <1>11 DEF SchedulerStep
  <2>2. "killedHolder" \notin faults' => \A p \in Pid : holding'[p] = holding[p]
    BY <1>11, <2>1 DEF SchedulerStep
  <2>3. \A p \in Pid : holding'[p] \subseteq holding[p]
    BY <2>1
  <2> QED BY <1>1, <1>3, <2>1, <2>2, <2>3 DEF MutexInv
<1>12. CASE UNCHANGED allVars
  BY <1>7, <1>12 DEF allVars, semVars
<1> QED BY <1>4, <1>5, <1>8, <1>9, <1>10, <1>11, <1>12 DEF SemNext

LEMMA MutexAlways == SemSpec => []MutexInv
<1>1. SemInit => MutexInv
  BY SemaphoresAssumption DEF SemInit, MutexInv
<1> QED BY <1>1, MutexNext, ValueAlways, PTL DEF SemSpec

\* A mutex excludes, although a woken waiter decrements the counter without
\* testing it again; and it is never lost unless its holder is killed.
THEOREM MutexesExclude == SemSpec => []MutexConserved
<1>1. MutexInv => MutexConserved
  <2> SUFFICES ASSUME MutexInv PROVE MutexConserved
    OBVIOUS
  <2>1. MutualExclusion
    BY DEF MutexInv, MutualExclusion, Holders
  <2>2. ASSUME faults = {}, NEW s \in Mutexes, isOpen[s]
        PROVE  value[s] + Cardinality(Holders(s)) = 1
    <3>1. /\ value[s] \in {0, 1}
          /\ \A p, q \in Holders(s) : p = q
          /\ value[s] = 1 => Holders(s) = {}
          /\ value[s] = 1 \/ Holders(s) # {}
      BY <2>2 DEF MutexInv, Holders
    <3>2. CASE value[s] = 1
      BY <3>1, <3>2, FS_EmptySet
    <3>3. CASE value[s] = 0
      <4>1. PICK p \in Holders(s) : TRUE
        BY <3>1, <3>3
      <4>2. Holders(s) = {p}
        BY <3>1, <4>1
      <4>3. Cardinality({p}) = 1
        BY FS_Singleton
      <4> QED BY <3>3, <4>2, <4>3
    <3> QED BY <3>1, <3>2, <3>3
  <2> QED BY <2>1, <2>2 DEF MutexConserved
<1> QED BY <1>1, MutexAlways, PTL
=============================================================================
