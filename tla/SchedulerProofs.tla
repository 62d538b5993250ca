--------------------------- MODULE SchedulerProofs ---------------------------
(***************************************************************************)
(* Proofs about Scheduler, for every number of processes and priorities,   *)
(* sizes of a char, lengths of a sleep and sets of system calls: the list  *)
(* of processes and who runs, the dead, parents and children, the          *)
(* foreground, turns, and the idle process.                                *)
(***************************************************************************)
EXTENDS Scheduler, SequenceTheorems, FiniteSetTheorems, WellFoundedInduction, TLAPS

-----------------------------------------------------------------------------
(* Facts about sequences and numbers.                                      *)

\* A nonempty set of natural numbers has a smallest element: checkSleeping finds
\* a first sleeper that is due if there is one.
LEMMA SmallestExists ==
  ASSUME NEW T, T \subseteq Nat, T # {}
  PROVE  \E x \in T : \A y \in T : x <= y
<1>1. PICK x \in T : \A y \in T : ~(<<y, x>> \in OpToRel(<, Nat))
  BY NatLessThanWellFounded, WFMin
<1>2. \A y \in T : <<y, x>> \in OpToRel(<, Nat) <=> y < x
  BY DEF OpToRel
<1>3. \A y \in T : ~(y < x)
  BY <1>1, <1>2
<1>4. \A y \in T : x <= y
  BY <1>3
<1> QED BY <1>4

\* RemoveAt, with which removeProcess unlinks a process and wakeUp a sleeper.
LEMMA RemoveAtFacts ==
  ASSUME NEW S, NEW s \in Seq(S), NEW i \in 1..Len(s)
  PROVE  /\ RemoveAt(s, i) \in Seq(S)
         /\ Len(RemoveAt(s, i)) = Len(s) - 1
         /\ \A j \in 1..(Len(s) - 1) :
              RemoveAt(s, i)[j] = IF j < i THEN s[j] ELSE s[j + 1]
<1> DEFINE a == SubSeq(s, 1, i - 1)
           b == SubSeq(s, i + 1, Len(s))
<1>1. /\ a \in Seq(S) /\ Len(a) = i - 1
      /\ \A j \in 1..(i - 1) : a[j] = s[j]
  OBVIOUS
<1>2. /\ b \in Seq(S) /\ Len(b) = Len(s) - i
      /\ \A j \in 1..(Len(s) - i) : b[j] = s[i + j]
  OBVIOUS
<1>3. RemoveAt(s, i) = a \o b
  BY DEF RemoveAt
<1> HIDE DEF a, b
<1>4. /\ a \o b \in Seq(S)
      /\ Len(a \o b) = Len(s) - 1
  <2>1. Len(a \o b) = Len(a) + Len(b) /\ a \o b \in Seq(S)
    BY <1>1, <1>2, ConcatProperties, Zenon
  <2> QED BY <1>1, <1>2, <2>1
<1>5. \A j \in 1..(Len(s) - 1) : (a \o b)[j] = IF j < i THEN s[j] ELSE s[j + 1]
  BY <1>1, <1>2
<1> QED BY <1>3, <1>4, <1>5

Distinct(s) == \A i, j \in 1..Len(s) : s[i] = s[j] => i = j
In(x, s) == \E i \in 1..Len(s) : s[i] = x

\* Unlinking one process leaves all the others, once each.
LEMMA RemoveDistinct ==
  ASSUME NEW S, NEW s \in Seq(S), NEW i \in 1..Len(s), Distinct(s)
  PROVE  /\ Distinct(RemoveAt(s, i))
         /\ \A x : In(x, RemoveAt(s, i)) <=> In(x, s) /\ x # s[i]
<1> DEFINE r == RemoveAt(s, i)
<1>1. /\ Len(s) \in Nat
      /\ Len(r) = Len(s) - 1
      /\ \A j \in 1..(Len(s) - 1) : r[j] = IF j < i THEN s[j] ELSE s[j + 1]
  BY RemoveAtFacts
<1> HIDE DEF r
<1>2. Distinct(r)
  BY <1>1 DEF Distinct
<1>3. ASSUME NEW x, In(x, r) PROVE In(x, s) /\ x # s[i]
  BY <1>1, <1>3 DEF Distinct, In
<1>4. ASSUME NEW x, In(x, s), x # s[i] PROVE In(x, r)
  <2>1. PICK j \in 1..Len(s) : s[j] = x
    BY <1>4 DEF In
  <2>2. CASE j < i
    BY <1>1, <2>1, <2>2 DEF In
  <2>3. CASE j > i
    <3>1. j - 1 \in 1..Len(r) /\ r[j - 1] = x
      BY <1>1, <2>1, <2>3
    <3> QED BY <3>1 DEF In
  <2> QED BY <1>4, <2>1, <2>2, <2>3
<1> QED BY <1>2, <1>3, <1>4 DEF r

\* Appending a new process.
LEMMA AppendDistinct ==
  ASSUME NEW S, NEW s \in Seq(S), NEW y \in S, Distinct(s), ~In(y, s)
  PROVE  /\ Append(s, y) \in Seq(S)
         /\ Distinct(Append(s, y))
         /\ \A x : In(x, Append(s, y)) <=> In(x, s) \/ x = y
<1> DEFINE r == Append(s, y)
<1>1. /\ Len(s) \in Nat
      /\ r \in Seq(S)
      /\ Len(r) = Len(s) + 1
      /\ \A j \in 1..Len(s) : r[j] = s[j]
      /\ r[Len(s) + 1] = y
  BY AppendProperties, LenProperties
<1> HIDE DEF r
<1>2. Distinct(r)
  BY <1>1 DEF Distinct, In
<1>3. ASSUME NEW x PROVE In(x, r) <=> In(x, s) \/ x = y
  <2>1. In(x, r) => In(x, s) \/ x = y
    BY <1>1 DEF In
  <2>2. In(x, s) => In(x, r)
    BY <1>1 DEF In
  <2>3. In(y, r)
    BY <1>1 DEF In
  <2> QED BY <2>1, <2>2, <2>3
<1> QED BY <1>1, <1>2, <1>3 DEF r

\* A signed char is in its range.
LEMMA CharRange ==
  ASSUME NEW x \in Int
  PROVE  Char(x) \in -(CHAR_MAX + 1)..CHAR_MAX
<1> DEFINE half == CHAR_MAX + 1
           n == 2 * half
           y == x + half
<1>1. /\ half \in Nat /\ n \in Nat /\ n > 0 /\ y \in Int
      /\ n = 2 * half /\ CHAR_MAX = half - 1
  BY SchedulerAssumption
<1>2. Char(x) = (y % n) - half
  BY SchedulerAssumption DEF Char
<1> HIDE DEF half, n, y
<1>3. y % n \in 0..(n - 1)
  BY <1>1
<1> QED BY <1>1, <1>2, <1>3

\* So are 0 and a quantum.
LEMMA ZeroIsChar == 0 \in -(CHAR_MAX + 1)..CHAR_MAX
BY SchedulerAssumption

LEMMA QuantumIsChar ==
  ASSUME TypeOK, NEW p \in Pid
  PROVE  Quantum(p) \in 1..CHAR_MAX /\ Quantum(p) \in -(CHAR_MAX + 1)..CHAR_MAX
<1>1. priority[p] \in 0..(MAX_PRIORITY - 1)
  BY DEF TypeOK
<1> QED BY <1>1, SchedulerAssumption DEF Quantum

-----------------------------------------------------------------------------
(* The list of processes and the processes in it.                          *)

\* The mark is only in use inside the loop of nextProcess.
MarkInLoop == mode # "nextProcess" => firstBlockedIteration = NULL

\* checkSleeping starts at the head of the list of sleepers.
ScanInList == mode = "checkSleeping" => scan >= 1

\* The inductive invariant.
SafetyInv ==
  /\ TypeOK
  /\ ListWellFormed
  /\ NoDanglingProcess
  /\ RunningIsReady
  /\ MarkInLoop
  /\ ScanInList

\* process->next of a listed process is another listed process or NULL.
LEMMA NextOfFacts ==
  ASSUME TypeOK, ListWellFormed, NEW p \in Pid, state[p] # "NONE"
  PROVE  /\ Position(p) \in 1..Len(procs) /\ procs[Position(p)] = p
         /\ NextOf(p) \in Pid \union {NULL}
         /\ NextOf(p) # NULL => NextOf(p) # p /\ state[NextOf(p)] # "NONE"
<1>1. \E i \in 1..Len(procs) : procs[i] = p
  BY DEF ListWellFormed, searchProcess
<1>2. Position(p) \in 1..Len(procs) /\ procs[Position(p)] = p
  BY <1>1 DEF Position
<1>3. CASE Position(p) < Len(procs)
  <2> DEFINE q == procs[Position(p) + 1]
  <2>1. Position(p) + 1 \in 1..Len(procs) /\ Position(p) + 1 # Position(p)
    <3>1. Len(procs) \in Nat
      BY DEF TypeOK
    <3> QED BY <1>2, <1>3, <3>1
  <2>2. q \in Pid
    BY <2>1 DEF TypeOK
  <2>3. state[q] # "NONE" /\ q # p
    BY <1>2, <2>1, <2>2 DEF ListWellFormed, searchProcess
  <2>4. NextOf(p) = q
    BY <1>3 DEF NextOf
  <2> QED BY <1>2, <2>2, <2>3, <2>4
<1>4. CASE ~(Position(p) < Len(procs))
  BY <1>2, <1>4 DEF NextOf, NULL
<1> QED BY <1>3, <1>4

\* A step that changes states but neither creates nor frees a process.
LEMMA SameProcesses ==
  ASSUME ListWellFormed, UNCHANGED <<procs, pids>>,
         \A p \in Pid : state'[p] = "NONE" <=> state[p] = "NONE"
  PROVE  ListWellFormed'
BY DEF ListWellFormed, searchProcess

\* The initial state made by main() satisfies the inductive invariant.
LEMMA SafetyInit == Init => SafetyInv
<1> SUFFICES ASSUME Init PROVE SafetyInv
  OBVIOUS
<1>1. IDLE_PID \in Pid /\ INIT_PID \in Pid /\ IDLE_PID # INIT_PID
  BY SchedulerAssumption DEF Pid, IDLE_PID, INIT_PID
<1>2. TypeOK
  BY <1>1, SchedulerAssumption
  DEF Init, TypeOK, NiceHalf, States, Modes, Lapses, NULL
<1>3. ListWellFormed
  BY <1>1, SchedulerAssumption DEF Init, ListWellFormed, searchProcess, IDLE_PID, INIT_PID, Pid
<1>4. NoDanglingProcess /\ RunningIsReady /\ MarkInLoop /\ ScanInList
  BY DEF Init, NoDanglingProcess, RunningIsReady, MarkInLoop, ScanInList
<1> QED BY <1>2, <1>3, <1>4 DEF SafetyInv

\* In user code the current process is a listed, ready one.
LEMMA UserFacts ==
  ASSUME SafetyInv, mode = "user"
  PROVE  /\ current \in Pid /\ state[current] = "READY" /\ current < pids
         /\ firstBlockedIteration = NULL
<1>1. current \in Pid /\ state[current] = "READY"
  BY DEF SafetyInv, TypeOK, RunningIsReady
<1>2. current < pids
  BY <1>1 DEF SafetyInv, ListWellFormed
<1> QED BY <1>1, <1>2 DEF SafetyInv, MarkInLoop

\* The idle process is a pid.
LEMMA IdlePid == IDLE_PID \in Pid /\ INIT_PID \in Pid /\ NULL \notin Pid
BY SchedulerAssumption DEF Pid, IDLE_PID, INIT_PID, NULL

\* Passing the foreground keeps the types of the two flags.
LEMMA ForegroundTypes ==
  ASSUME TypeOK, NEW p \in Pid, GiveBack(p) \/ TakeOver(p)
  PROVE  foreground' \in [Pid -> BOOLEAN] /\ backWait' \in [Pid -> BOOLEAN]
<1>1. CASE GiveBack(p)
  BY <1>1 DEF GiveBack, TypeOK
<1>2. CASE TakeOver(p)
  BY <1>2 DEF TakeOver, TypeOK
<1> QED BY <1>1, <1>2

LEMMA LoadProcessSafe == SafetyInv /\ SysLoadProcess => SafetyInv'
<1> SUFFICES ASSUME SafetyInv, SysLoadProcess PROVE SafetyInv'
  OBVIOUS
<1>1. PICK fg \in BOOLEAN : enqueueProcess(fg)
  BY DEF SysLoadProcess
<1>2. /\ mode = "user" /\ current # IDLE_PID
      /\ UNCHANGED <<cpuVars, sleeping, mode, scan, lapses>>
  BY DEF SysLoadProcess, Calling
<1>3. /\ current \in Pid /\ state[current] = "READY" /\ current < pids
      /\ firstBlockedIteration = NULL
  BY <1>2, UserFacts
<1>4. pids \in Pid /\ pids' = pids + 1 /\ procs' = Append(procs, pids)
  BY <1>1, SchedulerAssumption DEF enqueueProcess, SafetyInv, TypeOK, Pid
<1>5. ~In(pids, procs) /\ Distinct(procs)
  <2>1. ~(pids < pids)
    BY DEF SafetyInv, TypeOK
  <2> QED BY <1>4, <2>1 DEF SafetyInv, ListWellFormed, searchProcess, In, Distinct
<1>6. /\ procs' \in Seq(Pid)
      /\ Distinct(procs')
      /\ \A x : In(x, procs') <=> In(x, procs) \/ x = pids
  BY <1>4, <1>5, AppendDistinct DEF SafetyInv, TypeOK
<1>7. /\ state' \in [Pid -> States]
      /\ state'[pids] = "READY"
      /\ \A p \in Pid : p # pids => (state'[p] = "NONE" <=> state[p] = "NONE")
      /\ state'[current] = "READY"
  <2>1. PICK base \in {state, [state EXCEPT ![IDLE_PID] = "BLOCKED"]} :
          /\ base # state => state[IDLE_PID] # "NONE"
          /\ state' = [base EXCEPT ![pids] = "READY"]
    BY <1>1, IdlePid DEF enqueueProcess, IdleBlocked, Alive, SafetyInv, ListWellFormed
  <2>2. state \in [Pid -> States] /\ pids \in Pid /\ current # pids
    BY <1>3, <1>4 DEF SafetyInv, TypeOK
  <2>3. /\ base \in [Pid -> States] /\ base[current] = "READY"
        /\ \A p \in Pid : base[p] = "NONE" <=> state[p] = "NONE"
    BY <1>2, <1>3, <2>1, <2>2, IdlePid DEF States
  <2> QED BY <1>3, <2>1, <2>2, <2>3 DEF States
<1>8. TypeOK'
  <2>1. ppid' \in [Pid -> Pid \union {NULL}] /\ children' \in [Pid -> Int]
    BY SMTT(20), <1>1, <1>3, <1>4 DEF enqueueProcess, SafetyInv, TypeOK
  <2>2. priority' \in [Pid -> 0..(MAX_PRIORITY - 1)]
    BY <1>1, <1>4, SchedulerAssumption DEF enqueueProcess, SafetyInv, TypeOK, NiceHalf
  <2>3. foreground' \in [Pid -> BOOLEAN] /\ backWait' \in [Pid -> BOOLEAN]
    BY <1>1, <1>3, <1>4 DEF enqueueProcess, SafetyInv, TypeOK
  <2>4. pids' \in 3..(MaxPid + 1)
    BY <1>1, <1>4, SchedulerAssumption DEF SafetyInv, TypeOK, Pid
  <2>5. executions' \in [Pid -> -(CHAR_MAX + 1)..CHAR_MAX]
    BY <1>1, <1>4, ZeroIsChar DEF enqueueProcess, SafetyInv, TypeOK
  <2> QED BY <1>2, <1>6, <1>7, <2>1, <2>2, <2>3, <2>4, <2>5 DEF SafetyInv, TypeOK, cpuVars
<1>9. ListWellFormed'
  <2>1. \A p \in Pid : (state'[p] # "NONE") <=> In(p, procs')
    BY <1>4, <1>6, <1>7 DEF SafetyInv, ListWellFormed, searchProcess, In
  <2>2. \A p \in Pid : In(p, procs') => p < pids'
    <3>1. \A p \in Pid : In(p, procs) => p < pids
      BY DEF SafetyInv, ListWellFormed, searchProcess, In
    <3>2. pids < pids' /\ \A p \in Pid : p < pids => p < pids'
      BY <1>4 DEF SafetyInv, TypeOK, Pid
    <3> QED BY <1>4, <1>6, <3>1, <3>2
  <2> QED BY <1>6, <2>1, <2>2 DEF ListWellFormed, searchProcess, In, Distinct
<1>10. NoDanglingProcess' /\ RunningIsReady' /\ MarkInLoop' /\ ScanInList'
  BY <1>2, <1>3, <1>7, IdlePid
  DEF cpuVars, NoDanglingProcess, RunningIsReady, MarkInLoop, ScanInList, Live
<1> QED BY <1>8, <1>9, <1>10 DEF SafetyInv

\* Steps that neither create nor free a process nor change the current one.
LEMMA CalmStep ==
  ASSUME SafetyInv, firstBlockedIteration = NULL, TypeOK',
         UNCHANGED <<procs, pids, cpuVars>>,
         \A p \in Pid : state'[p] = "NONE" <=> state[p] = "NONE",
         mode' = "user" => current \in Pid /\ state'[current] = "READY",
         mode' = "checkSleeping" => scan' >= 1
  PROVE  SafetyInv'
<1>1. ListWellFormed'
  BY SameProcesses DEF SafetyInv
<1>2. NoDanglingProcess'
  BY DEF SafetyInv, TypeOK, NoDanglingProcess, cpuVars
<1>3. RunningIsReady' /\ MarkInLoop' /\ ScanInList'
  BY IdlePid DEF RunningIsReady, MarkInLoop, ScanInList, cpuVars
<1> QED BY <1>1, <1>2, <1>3 DEF SafetyInv

\* kill() of a listed process, by the current one.
LEMMA KillFacts ==
  ASSUME TypeOK, ListWellFormed, NEW pid \in Pid, kill(pid)
  PROVE  /\ state' \in [Pid -> States] /\ children' \in [Pid -> Int]
         /\ foreground' \in [Pid -> BOOLEAN] /\ backWait' \in [Pid -> BOOLEAN]
         /\ lapses' \subseteq Lapses /\ mode' \in Modes /\ scan' \in Nat
         /\ mode' = "user" => pid # current
         /\ mode' # mode => scan' = 1
         /\ \A p \in Pid : state'[p] = "NONE" <=> state[p] = "NONE"
         /\ \A p \in Pid : p # pid /\ state[p] = "READY" => state'[p] = "READY"
<1>1. state[pid] # "NONE"
  BY DEF kill, ListWellFormed
<1>2. /\ state' \in [Pid -> States]
      /\ \A p \in Pid : state'[p] = "NONE" <=> state[p] = "NONE"
      /\ \A p \in Pid : p # pid /\ state[p] = "READY" => state'[p] = "READY"
  BY <1>1 DEF kill, TypeOK, States
<1>3. children' \in [Pid -> Int]
  BY DEF kill, TypeOK
<1>4. foreground' \in [Pid -> BOOLEAN] /\ backWait' \in [Pid -> BOOLEAN]
  BY ForegroundTypes DEF kill
<1>5. lapses' \subseteq Lapses
  BY DEF kill, TypeOK, Lapses
<1>6. /\ mode' \in Modes /\ scan' \in Nat /\ (mode' = "user" => pid # current)
      /\ mode' # mode => scan' = 1
  <2>1. \/ mode' = "checkSleeping" /\ scan' = 1
        \/ pid # current /\ mode' = mode /\ scan' = scan
    BY DEF kill, forceTimer
  <2> QED BY <2>1, SMTT(20) DEF TypeOK, Modes
<1> QED BY <1>2, <1>3, <1>4, <1>5, <1>6

LEMMA KillSafe == SafetyInv /\ (SysKill \/ exitProcess) => SafetyInv'
<1> SUFFICES ASSUME SafetyInv, SysKill \/ exitProcess PROVE SafetyInv'
  OBVIOUS
<1>1. /\ mode = "user"
      /\ UNCHANGED <<procs, ppid, priority, executions, cpuVars, pids, sleeping>>
  BY DEF SysKill, exitProcess, Calling
<1>2. current \in Pid /\ state[current] = "READY" /\ firstBlockedIteration = NULL
  BY <1>1, UserFacts
<1>3. PICK pid \in Pid : kill(pid)
  BY <1>2 DEF SysKill, exitProcess
<1>4. /\ state' \in [Pid -> States] /\ children' \in [Pid -> Int]
      /\ foreground' \in [Pid -> BOOLEAN] /\ backWait' \in [Pid -> BOOLEAN]
      /\ lapses' \subseteq Lapses /\ mode' \in Modes /\ scan' \in Nat
      /\ mode' = "user" => pid # current
      /\ mode' # mode => scan' = 1
      /\ \A p \in Pid : state'[p] = "NONE" <=> state[p] = "NONE"
      /\ \A p \in Pid : p # pid /\ state[p] = "READY" => state'[p] = "READY"
  BY <1>3, KillFacts DEF SafetyInv
<1>5. TypeOK'
  BY <1>1, <1>4 DEF SafetyInv, TypeOK, cpuVars
<1> QED BY <1>1, <1>2, <1>4, <1>5, CalmStep

\* block() of a listed process.
LEMMA BlockFacts ==
  ASSUME TypeOK, ListWellFormed, NEW pid \in Pid, block(pid)
  PROVE  /\ state' \in [Pid -> States]
         /\ foreground' \in [Pid -> BOOLEAN] /\ backWait' \in [Pid -> BOOLEAN]
         /\ executions' \in [Pid -> -(CHAR_MAX + 1)..CHAR_MAX]
         /\ mode' \in Modes /\ scan' \in Nat
         /\ mode' = "user" => pid # current
         /\ mode' # mode => scan' = 1
         /\ \A p \in Pid : state'[p] = "NONE" <=> state[p] = "NONE"
         /\ \A p \in Pid : p # pid => state'[p] = state[p]
<1>1. state[pid] # "NONE"
  BY DEF block, Alive, ListWellFormed
<1>2. /\ state' \in [Pid -> States]
      /\ \A p \in Pid : state'[p] = "NONE" <=> state[p] = "NONE"
      /\ \A p \in Pid : p # pid => state'[p] = state[p]
  BY <1>1 DEF block, TypeOK, States
<1>3. foreground' \in [Pid -> BOOLEAN] /\ backWait' \in [Pid -> BOOLEAN]
  BY ForegroundTypes DEF block
<1>4. executions' \in [Pid -> -(CHAR_MAX + 1)..CHAR_MAX]
  BY ZeroIsChar DEF block, TypeOK
<1>5. /\ mode' \in Modes /\ scan' \in Nat /\ (mode' = "user" => pid # current)
      /\ mode' # mode => scan' = 1
  <2>1. \/ mode' = "checkSleeping" /\ scan' = 1
        \/ pid # current /\ mode' = mode /\ scan' = scan
    BY DEF block, forceTimer
  <2> QED BY <2>1, SMTT(20) DEF TypeOK, Modes
<1> QED BY <1>2, <1>3, <1>4, <1>5

LEMMA BlockSafe == SafetyInv /\ (SysBlock \/ sleep) => SafetyInv'
<1> SUFFICES ASSUME SafetyInv, SysBlock \/ sleep PROVE SafetyInv'
  OBVIOUS
<1>1. /\ mode = "user"
      /\ UNCHANGED <<procs, ppid, priority, children, cpuVars, pids, lapses>>
  BY DEF SysBlock, sleep, Calling
<1>2. current \in Pid /\ state[current] = "READY" /\ firstBlockedIteration = NULL
  BY <1>1, UserFacts
<1>3. PICK pid \in Pid : block(pid)
  BY <1>2 DEF SysBlock, sleep
<1>4. /\ state' \in [Pid -> States]
      /\ foreground' \in [Pid -> BOOLEAN] /\ backWait' \in [Pid -> BOOLEAN]
      /\ executions' \in [Pid -> -(CHAR_MAX + 1)..CHAR_MAX]
      /\ mode' \in Modes /\ scan' \in Nat
      /\ mode' = "user" => pid # current
      /\ mode' # mode => scan' = 1
      /\ \A p \in Pid : state'[p] = "NONE" <=> state[p] = "NONE"
      /\ \A p \in Pid : p # pid => state'[p] = state[p]
  BY <1>3, BlockFacts DEF SafetyInv
<1>5. sleeping' \in Seq([pid : Pid, left : 0..MaxSecs])
  <2>1. CASE SysBlock
    BY <2>1 DEF SysBlock, SafetyInv, TypeOK
  <2>2. CASE sleep
    <3>1. PICK secs \in 0..MaxSecs :
            sleeping' = <<[pid |-> current, left |-> secs]>> \o sleeping
      BY <2>2 DEF sleep
    <3>2. <<[pid |-> current, left |-> secs]>> \in Seq([pid : Pid, left : 0..MaxSecs])
      BY <1>2
    <3> QED BY <3>1, <3>2, ConcatProperties DEF SafetyInv, TypeOK
  <2> QED BY <2>1, <2>2
<1>6. TypeOK'
  BY <1>1, <1>4, <1>5 DEF SafetyInv, TypeOK, cpuVars
<1> QED BY <1>1, <1>2, <1>4, <1>6, CalmStep

\* unblock() of a listed process.
LEMMA UnblockFacts ==
  ASSUME TypeOK, ListWellFormed, NEW pid \in Pid, unblock(pid)
  PROVE  /\ state' \in [Pid -> States]
         /\ foreground' \in [Pid -> BOOLEAN] /\ backWait' \in [Pid -> BOOLEAN]
         /\ \A p \in Pid : state'[p] = "NONE" <=> state[p] = "NONE"
         /\ \A p \in Pid : p # pid => state'[p] = state[p]
         /\ state'[pid] = "READY" /\ state[pid] \notin {"NONE", "DEAD"}
<1>1. state[pid] \notin {"NONE", "DEAD"}
  BY DEF unblock, Alive, ListWellFormed
<1>2. /\ state' \in [Pid -> States]
      /\ \A p \in Pid : state'[p] = "NONE" <=> state[p] = "NONE"
      /\ \A p \in Pid : p # pid => state'[p] = state[p]
      /\ state'[pid] = "READY"
  BY <1>1 DEF unblock, TypeOK, States
<1>3. foreground' \in [Pid -> BOOLEAN] /\ backWait' \in [Pid -> BOOLEAN]
  BY ForegroundTypes DEF unblock
<1> QED BY <1>1, <1>2, <1>3

LEMMA UnblockSafe == SafetyInv /\ SysUnblock => SafetyInv'
<1> SUFFICES ASSUME SafetyInv, SysUnblock PROVE SafetyInv'
  OBVIOUS
<1>1. /\ mode = "user"
      /\ UNCHANGED <<procs, ppid, priority, executions, children, cpuVars, pids,
                     sleeping, mode, scan>>
      /\ lapses' \in {lapses, lapses \union {"wakeIdle"}}
  BY DEF SysUnblock, Calling
<1>2. current \in Pid /\ state[current] = "READY" /\ firstBlockedIteration = NULL
  BY <1>1, UserFacts
<1>3. PICK pid \in Pid : unblock(pid)
  BY DEF SysUnblock
<1>4. /\ state' \in [Pid -> States]
      /\ foreground' \in [Pid -> BOOLEAN] /\ backWait' \in [Pid -> BOOLEAN]
      /\ \A p \in Pid : state'[p] = "NONE" <=> state[p] = "NONE"
      /\ \A p \in Pid : p # pid => state'[p] = state[p]
      /\ state'[pid] = "READY"
  BY <1>3, UnblockFacts DEF SafetyInv
<1>5. TypeOK'
  BY <1>1, <1>4 DEF SafetyInv, TypeOK, cpuVars, Lapses
<1> QED BY <1>1, <1>2, <1>4, <1>5, CalmStep

LEMMA NiceSafe == SafetyInv /\ SysNice => SafetyInv'
<1> SUFFICES ASSUME SafetyInv, SysNice PROVE SafetyInv'
  OBVIOUS
<1>1. /\ mode = "user"
      /\ UNCHANGED <<procs, state, ppid, executions, foreground, backWait, children,
                     cpuVars, pids, sleeping, mode, scan>>
  BY DEF SysNice, Calling
<1>2. current \in Pid /\ state[current] = "READY" /\ firstBlockedIteration = NULL
  BY <1>1, UserFacts
<1>3. PICK pid \in Pid, offset \in -NiceHalf..(NiceHalf - 1) : nice(pid, offset + NiceHalf)
  BY DEF SysNice
<1>4. NiceHalf \in Nat /\ 2 * NiceHalf = MAX_PRIORITY
  BY SchedulerAssumption DEF NiceHalf
<1>5. offset + NiceHalf \in 0..(MAX_PRIORITY - 1)
  BY <1>3, <1>4
<1>6. priority' \in [Pid -> 0..(MAX_PRIORITY - 1)]
  BY <1>3, <1>5 DEF nice, SafetyInv, TypeOK
<1>7. lapses' \subseteq Lapses
  BY <1>3 DEF nice, SafetyInv, TypeOK, Lapses
<1>8. TypeOK'
  BY <1>1, <1>6, <1>7 DEF SafetyInv, TypeOK, cpuVars
<1> QED BY <1>1, <1>2, <1>8, CalmStep

\* The calls by which the current process stops or gives up its turn.
LEMMA YieldSafe == SafetyInv /\ (wait \/ blockIO \/ quitCPU) => SafetyInv'
<1> SUFFICES ASSUME SafetyInv, wait \/ blockIO \/ quitCPU PROVE SafetyInv'
  OBVIOUS
<1>1. /\ mode = "user" /\ mode' = "checkSleeping" /\ scan' = 1
      /\ UNCHANGED <<procs, ppid, priority, foreground, backWait, children, cpuVars,
                     pids, sleeping>>
  BY DEF wait, blockIO, quitCPU, Calling, forceTimer
<1>2. current \in Pid /\ state[current] = "READY" /\ firstBlockedIteration = NULL
  BY <1>1, UserFacts
<1>3. /\ state' \in [Pid -> States]
      /\ \A p \in Pid : state'[p] = "NONE" <=> state[p] = "NONE"
  BY <1>2 DEF wait, blockIO, quitCPU, SafetyInv, TypeOK, States
<1>4. executions' \in [Pid -> -(CHAR_MAX + 1)..CHAR_MAX]
  BY <1>2, ZeroIsChar, QuantumIsChar DEF wait, blockIO, quitCPU, SafetyInv, TypeOK
<1>5. lapses' \subseteq Lapses
  <2>1. lapses' \in {lapses, lapses \union {"lateWait"}}
    BY DEF wait, blockIO, quitCPU
  <2> QED BY <2>1 DEF SafetyInv, TypeOK, Lapses
<1>6. TypeOK'
  BY <1>1, <1>3, <1>4, <1>5 DEF SafetyInv, TypeOK, cpuVars, Modes
<1> QED BY <1>1, <1>2, <1>3, <1>6, CalmStep

LEMMA InterruptSafe == SafetyInv /\ (TimerInterrupt \/ unblockIO) => SafetyInv'
<1> SUFFICES ASSUME SafetyInv, TimerInterrupt \/ unblockIO PROVE SafetyInv'
  OBVIOUS
<1>1. /\ mode = "user"
      /\ UNCHANGED <<procs, ppid, priority, executions, foreground, backWait, children,
                     cpuVars, pids, sleeping, lapses>>
  BY DEF TimerInterrupt, unblockIO, procVars
<1>2. current \in Pid /\ state[current] = "READY" /\ firstBlockedIteration = NULL
  BY <1>1, UserFacts
<1>3. /\ state' \in [Pid -> States]
      /\ \A p \in Pid : state'[p] = "NONE" <=> state[p] = "NONE"
      /\ state'[current] = "READY"
  BY <1>2 DEF TimerInterrupt, unblockIO, procVars, SafetyInv, TypeOK, States
<1>4. mode' \in Modes /\ scan' \in Nat /\ (mode' # mode => scan' = 1)
  BY DEF TimerInterrupt, unblockIO, forceTimer, SafetyInv, TypeOK, Modes
<1>5. TypeOK'
  BY <1>1, <1>3, <1>4 DEF SafetyInv, TypeOK, cpuVars
<1> QED BY <1>1, <1>2, <1>3, <1>4, <1>5, CalmStep

LEMMA ClockSafe == SafetyInv /\ ClockSecond => SafetyInv'
<1> SUFFICES ASSUME SafetyInv, ClockSecond PROVE SafetyInv'
  OBVIOUS
<1>1. UNCHANGED <<procs, procVars, cpuVars, pids, mode, scan, lapses>>
  BY DEF ClockSecond
<1>2. sleeping' \in Seq([pid : Pid, left : 0..MaxSecs])
  <2> DEFINE n == Len(sleeping)
             T == [pid : Pid, left : 0..MaxSecs]
  <2>1. n \in Nat /\ \A i \in 1..n : sleeping[i] \in [pid : Pid, left : 0..MaxSecs]
    BY LenProperties, ElementOfSeq DEF SafetyInv, TypeOK
  <2>2. \A i \in 1..n :
          [sleeping[i] EXCEPT !.left = IF @ > 0 THEN @ - 1 ELSE 0]
            \in [pid : Pid, left : 0..MaxSecs]
    BY <2>1, SchedulerAssumption
  <2>3. sleeping' \in [1..n -> [pid : Pid, left : 0..MaxSecs]]
    BY <2>2 DEF ClockSecond
  <2> HIDE DEF n, T
  <2>4. sleeping' \in UNION {[1..m -> T] : m \in Nat}
    BY <2>1, <2>3 DEF T
  <2>5. sleeping' \in Seq(T)
    BY <2>4, SeqDef
  <2> QED BY <2>5 DEF T
<1>3. TypeOK'
  BY <1>1, <1>2 DEF SafetyInv, TypeOK, procVars, cpuVars
<1>4. ListWellFormed'
  BY <1>1, SameProcesses DEF SafetyInv, procVars
<1>5. NoDanglingProcess' /\ RunningIsReady' /\ MarkInLoop' /\ ScanInList'
  BY <1>1 DEF SafetyInv, NoDanglingProcess, RunningIsReady, MarkInLoop, ScanInList, Live,
              procVars, cpuVars
<1> QED BY <1>3, <1>4, <1>5 DEF SafetyInv

-----------------------------------------------------------------------------
(* The timer handler.                                                      *)

\* checkSleeping finds a sleeper of the list.
LEMMA FirstDueFacts ==
  ASSUME TypeOK, scan >= 1, DueFrom(scan) # {}
  PROVE  FirstDue \in 1..Len(sleeping) /\ sleeping[FirstDue].pid \in Pid
<1>1. DueFrom(scan) \subseteq 1..Len(sleeping) /\ DueFrom(scan) \subseteq Nat
  <2>1. Len(sleeping) \in Nat /\ scan \in Nat
    BY LenProperties DEF TypeOK
  <2> QED BY <2>1 DEF DueFrom
<1>2. \E i \in DueFrom(scan) : \A j \in DueFrom(scan) : i <= j
  BY <1>1, SmallestExists
<1>3. FirstDue \in 1..Len(sleeping)
  BY <1>1, <1>2 DEF FirstDue
<1>4. sleeping[FirstDue] \in [pid : Pid, left : 0..MaxSecs]
  BY <1>3, ElementOfSeq DEF TypeOK
<1> QED BY <1>3, <1>4

LEMMA WakeUpSafe == SafetyInv /\ wakeUp => SafetyInv'
<1> SUFFICES ASSUME SafetyInv, wakeUp PROVE SafetyInv'
  OBVIOUS
<1> DEFINE i == FirstDue
           pid == sleeping[i].pid
<1>1. /\ mode = "checkSleeping" /\ DueFrom(scan) # {}
      /\ sleeping' = RemoveAt(sleeping, i)
      /\ scan' = IF i = 1 THEN Len(sleeping) ELSE i
      /\ unblock(pid) \/ UNCHANGED <<state, foreground, backWait>>
      /\ UNCHANGED <<procs, ppid, priority, executions, children, cpuVars, pids, mode, lapses>>
  BY DEF wakeUp
<1>2. i \in 1..Len(sleeping) /\ pid \in Pid
  BY <1>1, FirstDueFacts DEF SafetyInv, ScanInList
<1>3. /\ state' \in [Pid -> States]
      /\ foreground' \in [Pid -> BOOLEAN] /\ backWait' \in [Pid -> BOOLEAN]
      /\ \A p \in Pid : state'[p] = "NONE" <=> state[p] = "NONE"
  <2>1. CASE unblock(pid)
    BY <1>2, <2>1, UnblockFacts DEF SafetyInv
  <2>2. CASE UNCHANGED <<state, foreground, backWait>>
    BY <2>2 DEF SafetyInv, TypeOK
  <2> QED BY <1>1, <2>1, <2>2
<1>4. sleeping' \in Seq([pid : Pid, left : 0..MaxSecs])
  BY <1>1, <1>2, RemoveAtFacts DEF SafetyInv, TypeOK
<1>5. scan' \in Nat /\ scan' >= 1
  <2>1. Len(sleeping) \in Nat
    BY LenProperties DEF SafetyInv, TypeOK
  <2> HIDE DEF i
  <2> QED BY <1>1, <1>2, <2>1
<1>6. TypeOK'
  BY <1>1, <1>3, <1>4, <1>5 DEF SafetyInv, TypeOK, cpuVars
<1>7. firstBlockedIteration = NULL
  BY <1>1 DEF SafetyInv, MarkInLoop
<1> QED BY <1>1, <1>3, <1>5, <1>6, <1>7, CalmStep

LEMMA EnterSafe == SafetyInv /\ EnterNextProcess => SafetyInv'
<1> SUFFICES ASSUME SafetyInv, EnterNextProcess PROVE SafetyInv'
  OBVIOUS
<1>1. /\ mode = "checkSleeping" /\ mode' = "nextProcess" /\ scan' = 0
      /\ UNCHANGED <<procs, state, ppid, priority, foreground, backWait, children, idleFlag,
                     firstBlockedIteration, pids, sleeping, lapses>>
  BY DEF EnterNextProcess
<1>2. /\ executions' \in [Pid -> -(CHAR_MAX + 1)..CHAR_MAX]
      /\ current' \in Pid \union {NULL}
      /\ current' # NULL => state[current'] # "NONE"
  <2>1. CASE UNCHANGED <<executions, current>>
    BY <2>1 DEF SafetyInv, TypeOK, NoDanglingProcess
  <2>2. CASE /\ current # NULL
             /\ executions' = [executions EXCEPT ![current] = 0]
             /\ current' = NextOf(current)
    <3>1. current \in Pid /\ state[current] # "NONE"
      BY <2>2 DEF SafetyInv, TypeOK, NoDanglingProcess
    <3>2. executions' \in [Pid -> -(CHAR_MAX + 1)..CHAR_MAX]
      BY <2>2, <3>1, ZeroIsChar DEF SafetyInv, TypeOK
    <3> QED BY <2>2, <3>1, <3>2, NextOfFacts DEF SafetyInv
  <2> QED BY <2>1, <2>2 DEF EnterNextProcess
<1>3. TypeOK'
  BY <1>1, <1>2 DEF SafetyInv, TypeOK, Modes
<1>4. ListWellFormed'
  BY <1>1, SameProcesses DEF SafetyInv
<1>5. NoDanglingProcess' /\ RunningIsReady' /\ MarkInLoop' /\ ScanInList'
  BY <1>1, <1>2 DEF SafetyInv, NoDanglingProcess, RunningIsReady, MarkInLoop, ScanInList, Live
<1> QED BY <1>3, <1>4, <1>5 DEF SafetyInv

\* The branches of the loop that only move on.
LEMMA LoopSafe == SafetyInv /\ (NextWrap \/ NextSkip \/ NextAllBlocked) => SafetyInv'
<1> SUFFICES ASSUME SafetyInv, NextWrap \/ NextSkip \/ NextAllBlocked PROVE SafetyInv'
  OBVIOUS
<1>1. /\ mode = "nextProcess"
      /\ UNCHANGED <<procs, ppid, priority, executions, children, pids, sleeping, mode,
                     scan, lapses>>
  BY DEF NextWrap, NextSkip, NextAllBlocked, procVars
<1>2. idleFlag' \in 0..2
  BY DEF NextWrap, NextSkip, NextAllBlocked, SafetyInv, TypeOK
<1>3. /\ current' \in Pid \union {NULL}
      /\ current' # NULL => state[current'] # "NONE"
  <2>1. CASE NextWrap
    <3>1. CASE procs = << >>
      BY <2>1, <3>1 DEF NextWrap
    <3>2. CASE procs # << >>
      <4>1. 1 \in 1..Len(procs)
        BY <3>2, EmptySeq DEF SafetyInv, TypeOK
      <4>2. procs[1] \in Pid
        BY <4>1, ElementOfSeq DEF SafetyInv, TypeOK
      <4>3. state[procs[1]] # "NONE"
        BY <4>1, <4>2 DEF SafetyInv, ListWellFormed, searchProcess
      <4> QED BY <2>1, <3>2, <4>2, <4>3 DEF NextWrap
    <3> QED BY <3>1, <3>2
  <2>2. CASE NextSkip \/ NextAllBlocked
    <3>1. current # NULL /\ current' = NextOf(current)
      BY <2>2 DEF NextSkip, NextAllBlocked
    <3>2. current \in Pid /\ state[current] # "NONE"
      BY <3>1 DEF SafetyInv, TypeOK, NoDanglingProcess
    <3> QED BY <3>1, <3>2, NextOfFacts DEF SafetyInv
  <2> QED BY <2>1, <2>2
<1>4. /\ firstBlockedIteration' \in Pid \union {NULL}
      /\ firstBlockedIteration' # NULL => Live(firstBlockedIteration')
  BY IdlePid DEF NextWrap, NextSkip, NextAllBlocked, SafetyInv, TypeOK, NoDanglingProcess, Live
<1>5. /\ state' \in [Pid -> States]
      /\ foreground' \in [Pid -> BOOLEAN] /\ backWait' \in [Pid -> BOOLEAN]
      /\ \A p \in Pid : state'[p] = "NONE" <=> state[p] = "NONE"
      /\ \A p \in Pid : state'[p] = "DEAD" <=> state[p] = "DEAD"
  <2>1. CASE unblock(IDLE_PID)
    <3>1. /\ state' \in [Pid -> States]
          /\ foreground' \in [Pid -> BOOLEAN] /\ backWait' \in [Pid -> BOOLEAN]
          /\ \A p \in Pid : state'[p] = "NONE" <=> state[p] = "NONE"
          /\ \A p \in Pid : p # IDLE_PID => state'[p] = state[p]
          /\ state'[IDLE_PID] = "READY" /\ state[IDLE_PID] \notin {"NONE", "DEAD"}
      BY <2>1, IdlePid, UnblockFacts DEF SafetyInv
    <3> QED BY <3>1
  <2>2. CASE UNCHANGED <<state, foreground, backWait>>
    BY <2>2 DEF SafetyInv, TypeOK
  <2>3. unblock(IDLE_PID) \/ UNCHANGED <<state, foreground, backWait>>
    BY DEF NextWrap, NextSkip, NextAllBlocked, procVars
  <2> QED BY <2>1, <2>2, <2>3
<1>6. TypeOK'
  BY <1>1, <1>2, <1>3, <1>4, <1>5 DEF SafetyInv, TypeOK
<1>7. ListWellFormed'
  BY <1>1, <1>5, SameProcesses DEF SafetyInv
<1>8. NoDanglingProcess'
  BY <1>3, <1>4, <1>5 DEF NoDanglingProcess, Live
<1>9. RunningIsReady' /\ MarkInLoop' /\ ScanInList'
  BY <1>1 DEF RunningIsReady, MarkInLoop, ScanInList
<1> QED BY <1>6, <1>7, <1>8, <1>9 DEF SafetyInv

LEMMA ReapSafe == SafetyInv /\ NextReap => SafetyInv'
<1> SUFFICES ASSUME SafetyInv, NextReap PROVE SafetyInv'
  OBVIOUS
<1>1. /\ mode = "nextProcess" /\ current # NULL /\ current # firstBlockedIteration
      /\ current' = NextOf(current) /\ procs' = removeProcess(current)
      /\ state' = [state EXCEPT ![current] = "NONE"]
      /\ UNCHANGED <<idleFlag, firstBlockedIteration, pids, sleeping, mode, scan, lapses>>
  BY DEF NextReap
<1>2. current \in Pid /\ state[current] # "NONE"
  BY <1>1 DEF SafetyInv, TypeOK, NoDanglingProcess
<1>3. /\ Position(current) \in 1..Len(procs) /\ procs[Position(current)] = current
      /\ NextOf(current) \in Pid \union {NULL}
      /\ NextOf(current) # NULL => NextOf(current) # current /\ state[NextOf(current)] # "NONE"
  BY <1>2, NextOfFacts DEF SafetyInv
<1>4. Distinct(procs) /\ procs \in Seq(Pid)
  BY DEF SafetyInv, TypeOK, ListWellFormed, Distinct
<1>5. /\ procs' \in Seq(Pid)
      /\ Distinct(procs')
      /\ \A x : In(x, procs') <=> In(x, procs) /\ x # current
  <2>1. procs' = RemoveAt(procs, Position(current))
    BY <1>1 DEF removeProcess
  <2> QED BY <1>3, <1>4, <2>1, RemoveAtFacts, RemoveDistinct
<1>6. TypeOK'
  <2>1. /\ state' \in [Pid -> States] /\ ppid' \in [Pid -> Pid \union {NULL}]
        /\ foreground' \in [Pid -> BOOLEAN] /\ backWait' \in [Pid -> BOOLEAN]
        /\ children' \in [Pid -> Int]
    BY <1>2 DEF NextReap, SafetyInv, TypeOK, States
  <2>2. executions' \in [Pid -> -(CHAR_MAX + 1)..CHAR_MAX]
    BY <1>2, ZeroIsChar DEF NextReap, SafetyInv, TypeOK
  <2>3. priority' \in [Pid -> 0..(MAX_PRIORITY - 1)]
    <3>1. 0 \in 0..(MAX_PRIORITY - 1)
      BY SchedulerAssumption
    <3> QED BY <1>2, <3>1 DEF NextReap, SafetyInv, TypeOK
  <2> QED BY <1>1, <1>3, <1>5, <2>1, <2>2, <2>3 DEF SafetyInv, TypeOK
<1>7. ListWellFormed'
  <2>1. \A p \in Pid : (state'[p] # "NONE") <=> In(p, procs')
    BY <1>1, <1>2, <1>5 DEF SafetyInv, TypeOK, ListWellFormed, searchProcess, In
  <2>2. \A p \in Pid : In(p, procs') => p < pids'
    BY <1>1, <1>5 DEF SafetyInv, ListWellFormed, searchProcess, In
  <2> QED BY <1>5, <2>1, <2>2 DEF ListWellFormed, searchProcess, In, Distinct
<1>8. NoDanglingProcess'
  BY <1>1, <1>2, <1>3 DEF SafetyInv, TypeOK, NoDanglingProcess, Live
<1>9. RunningIsReady' /\ MarkInLoop' /\ ScanInList'
  BY <1>1 DEF RunningIsReady, MarkInLoop, ScanInList
<1> QED BY <1>6, <1>7, <1>8, <1>9 DEF SafetyInv

LEMMA RunSafe == SafetyInv /\ NextRun => SafetyInv'
<1> SUFFICES ASSUME SafetyInv, NextRun PROVE SafetyInv'
  OBVIOUS
<1>1. /\ mode = "nextProcess" /\ current # NULL /\ state[current] = "READY"
      /\ firstBlockedIteration' = NULL
      /\ executions' = [executions EXCEPT ![current] = Char(@ + 1)]
      /\ mode' = "user"
      /\ UNCHANGED <<procs, ppid, priority, foreground, backWait, children, current, pids,
                     sleeping, scan, lapses>>
  BY DEF NextRun, Runnable
<1>2. current \in Pid
  BY <1>1 DEF SafetyInv, TypeOK
<1>3. /\ state' \in [Pid -> States]
      /\ \A p \in Pid : state'[p] = "NONE" <=> state[p] = "NONE"
      /\ state'[current] = "READY"
      /\ idleFlag' \in 0..2
  <2>1. CASE UNCHANGED <<idleFlag, state>>
    BY <1>1, <2>1 DEF SafetyInv, TypeOK
  <2>2. CASE current # IDLE_PID /\ idleFlag' = 0 /\ state' = IdleBlocked
    BY SMTT(20), <1>1, <1>2, <2>2, IdlePid
    DEF IdleBlocked, Alive, SafetyInv, TypeOK, ListWellFormed, States
  <2> QED BY <2>1, <2>2 DEF NextRun
<1>4. executions' \in [Pid -> -(CHAR_MAX + 1)..CHAR_MAX]
  <2>1. executions[current] + 1 \in Int
    BY <1>2, SchedulerAssumption DEF SafetyInv, TypeOK
  <2>2. Char(executions[current] + 1) \in -(CHAR_MAX + 1)..CHAR_MAX
    BY <2>1, CharRange
  <2> QED BY <1>1, <1>2, <2>2 DEF SafetyInv, TypeOK
<1>5. TypeOK'
  BY <1>1, <1>3, <1>4 DEF SafetyInv, TypeOK, Modes
<1>6. ListWellFormed'
  BY <1>1, <1>3, SameProcesses DEF SafetyInv
<1>7. NoDanglingProcess' /\ RunningIsReady' /\ MarkInLoop' /\ ScanInList'
  BY <1>1, <1>2, <1>3, IdlePid
  DEF NoDanglingProcess, RunningIsReady, MarkInLoop, ScanInList
<1> QED BY <1>5, <1>6, <1>7 DEF SafetyInv

\* Every step of the scheduler preserves the inductive invariant.
LEMMA SafetyNext == SafetyInv /\ [Next]_vars => SafetyInv'
<1> SUFFICES ASSUME SafetyInv, [Next]_vars PROVE SafetyInv'
  OBVIOUS
<1>1. CASE Next
  BY <1>1, LoadProcessSafe, KillSafe, BlockSafe, UnblockSafe, NiceSafe, YieldSafe,
     InterruptSafe, ClockSafe, WakeUpSafe, EnterSafe, LoopSafe, ReapSafe, RunSafe
  DEF Next, SystemCall, TimerHandler, nextProcess
<1>2. CASE UNCHANGED vars
  <2>1. TypeOK'
    BY <1>2 DEF SafetyInv, TypeOK, vars, procVars, cpuVars
  <2>2. ListWellFormed'
    BY <1>2, SameProcesses DEF SafetyInv, vars, procVars
  <2>3. NoDanglingProcess' /\ RunningIsReady' /\ MarkInLoop' /\ ScanInList'
    BY <1>2 DEF SafetyInv, NoDanglingProcess, RunningIsReady, MarkInLoop, ScanInList, Live,
                vars, procVars, cpuVars
  <2> QED BY <2>1, <2>2, <2>3 DEF SafetyInv
<1> QED BY <1>1, <1>2

\* So every state the scheduler reaches satisfies it.
LEMMA SafetyAlways == Spec => []SafetyInv
BY SafetyInit, SafetyNext, PTL DEF Spec

\* The types of the scheduler's state, whatever the processes call.
THEOREM TypeCorrect == Spec => []TypeOK
<1>1. SafetyInv => TypeOK
  BY DEF SafetyInv
<1> QED BY <1>1, SafetyAlways, PTL

\* No process is lost from the list of scheduler.c, or in it twice.
THEOREM NoProcessLost == Spec => []ListWellFormed
<1>1. SafetyInv => ListWellFormed
  BY DEF SafetyInv
<1> QED BY <1>1, SafetyAlways, PTL

\* Only a ready process ever runs, and currentProcess and firstBlockedIteration
\* never point to a processCDT that nextProcess has freed.
THEOREM OnlyReadyRuns == Spec => []CpuIsSound
<1>1. SafetyInv => CpuIsSound
  BY DEF SafetyInv, CpuIsSound
<1> QED BY <1>1, SafetyAlways, PTL

-----------------------------------------------------------------------------
(* The dead stay dead.                                                     *)

\* What one step may do to a dead process, and to a pid already given up.
Buried(p) ==
  /\ state[p] = "DEAD" => state'[p] \in {"DEAD", "NONE"}
  /\ state[p] = "NONE" /\ p < pids => state'[p] = "NONE"

\* System calls revive no one: they look for a live process first, or act on the
\* current one.
LEMMA CallsBury == SafetyInv /\ SystemCall => \A p \in Pid : Buried(p)
<1> SUFFICES ASSUME SafetyInv, SystemCall, NEW p \in Pid PROVE Buried(p)
  OBVIOUS
<1>1. current \in Pid /\ state[current] = "READY"
  BY UserFacts DEF SystemCall, SysLoadProcess, SysKill, exitProcess, SysBlock, SysUnblock, SysNice,
                   wait, blockIO, quitCPU, sleep, Calling
<1>2. CASE SysLoadProcess
  <2>1. PICK fg \in BOOLEAN : enqueueProcess(fg)
    BY <1>2 DEF SysLoadProcess
  <2>2. pids \in Int /\ p \in Int /\ pids <= MaxPid /\ 1 <= pids
    BY <2>1, SchedulerAssumption DEF enqueueProcess, SafetyInv, TypeOK, Pid
  <2>3. pids \in Pid /\ state[pids] = "NONE"
    BY <2>2, SchedulerAssumption DEF SafetyInv, ListWellFormed, Pid
  <2>4. p # pids => \/ state'[p] = state[p]
                    \/ state'[p] = "BLOCKED" /\ state[p] \notin {"DEAD", "NONE"}
    BY <2>1, <2>3, IdlePid
    DEF enqueueProcess, IdleBlocked, Alive, SafetyInv, TypeOK, ListWellFormed
  <2> QED BY <2>2, <2>3, <2>4 DEF Buried
<1>3. CASE SysKill \/ exitProcess
  <2>1. PICK pid \in Pid : kill(pid)
    BY <1>1, <1>3 DEF SysKill, exitProcess
  <2> QED BY <2>1 DEF kill, Buried, SafetyInv, TypeOK, ListWellFormed
<1>4. CASE SysBlock \/ sleep
  <2>1. PICK pid \in Pid : block(pid)
    BY <1>1, <1>4 DEF SysBlock, sleep
  <2> QED BY <2>1 DEF block, Alive, Buried, SafetyInv, TypeOK, ListWellFormed
<1>5. CASE SysUnblock
  <2>1. PICK pid \in Pid : unblock(pid)
    BY <1>5 DEF SysUnblock
  <2> QED BY <2>1 DEF unblock, Alive, Buried, SafetyInv, TypeOK, ListWellFormed
<1>6. CASE wait \/ blockIO
  BY <1>1, <1>6 DEF wait, blockIO, Buried, SafetyInv, TypeOK
<1>7. CASE SysNice \/ quitCPU
  BY <1>7 DEF SysNice, quitCPU, Buried
<1> QED BY <1>2, <1>3, <1>4, <1>5, <1>6, <1>7 DEF SystemCall

\* Nor does the timer handler, which may wake sleepers and the idle process.
LEMMA HandlerBuries == SafetyInv /\ TimerHandler => \A p \in Pid : Buried(p)
<1> SUFFICES ASSUME SafetyInv, TimerHandler, NEW p \in Pid PROVE Buried(p)
  OBVIOUS
<1>1. CASE wakeUp
  <2>1. sleeping[FirstDue].pid \in Pid
    BY <1>1, FirstDueFacts DEF wakeUp, SafetyInv, ScanInList
  <2> QED BY <1>1, <2>1 DEF wakeUp, unblock, Alive, Buried, SafetyInv, TypeOK, ListWellFormed
<1>2. CASE NextAllBlocked
  BY <1>2, IdlePid DEF NextAllBlocked, unblock, Alive, Buried, SafetyInv, TypeOK, ListWellFormed
<1>3. CASE NextReap
  BY <1>3 DEF NextReap, Buried, SafetyInv, TypeOK
<1>4. CASE NextRun
  BY <1>4, IdlePid DEF NextRun, IdleBlocked, Alive, Buried, SafetyInv, TypeOK, ListWellFormed
<1>5. CASE EnterNextProcess \/ NextWrap \/ NextSkip
  BY <1>5 DEF EnterNextProcess, NextWrap, NextSkip, procVars, Buried
<1> QED BY <1>1, <1>2, <1>3, <1>4, <1>5 DEF TimerHandler, nextProcess

\* No step of the scheduler revives a dead process or gives out its pid again.
LEMMA EveryStepBuries == SafetyInv /\ Next => \A p \in Pid : Buried(p)
<1> SUFFICES ASSUME SafetyInv, Next PROVE \A p \in Pid : Buried(p)
  OBVIOUS
<1>1. CASE SystemCall \/ TimerHandler
  BY <1>1, CallsBury, HandlerBuries
<1>2. CASE TimerInterrupt \/ ClockSecond
  BY <1>2 DEF TimerInterrupt, ClockSecond, procVars, Buried
<1>3. CASE unblockIO
  BY <1>3 DEF unblockIO, SafetyInv, TypeOK, Buried
<1> QED BY <1>1, <1>2, <1>3 DEF Next

\* A killed process never comes back and its pid is not used again, in any step.
THEOREM DeadNeverReturn == Spec => DeadStaysDead
<1> DEFINE Step == \A p \in Pid : /\ state[p] = "DEAD" => state'[p] \in {"DEAD", "NONE"}
                                  /\ state[p] = "NONE" /\ p < pids => state'[p] = "NONE"
<1>1. SafetyInv /\ [Next]_vars => [Step]_vars
  BY EveryStepBuries DEF Buried
<1> QED BY <1>1, SafetyAlways, PTL DEF Spec, DeadStaysDead

-----------------------------------------------------------------------------
(* Parents and children: the counter that enqueueProcess increments, that  *)
(* kill() decrements and that wait() tests is exact, and somebody always   *)
(* has the terminal.                                                       *)

\* The counter is exact, and not zero for a process blocked in wait(); a pid of
\* the future is nobody's parent.
FamilyInv ==
  /\ \A p \in Pid : ppid[p] < pids
  /\ "killDead" \notin lapses =>
       \A p \in Pid : /\ state[p] # "NONE" => children[p] = Cardinality(LiveChildren(p))
                      /\ state[p] = "WAITING" => children[p] # 0

\* Sets of children are finite.
LEMMA LiveChildrenFinite ==
  ASSUME NEW p
  PROVE  IsFiniteSet(LiveChildren(p)) /\ Cardinality(LiveChildren(p)) \in Nat
<1>1. IsFiniteSet(Pid)
  BY SchedulerAssumption, FS_Interval DEF Pid
<1>2. LiveChildren(p) \subseteq Pid
  BY DEF LiveChildren
<1> QED BY <1>1, <1>2, FS_Subset, FS_CardinalityType

\* Steps by which no process is born or dies and no counter changes.
LEMMA FamilyUnchanged ==
  ASSUME FamilyInv, pids' = pids, lapses \subseteq lapses',
         \A p \in Pid : /\ Live(p)' <=> Live(p)
                        /\ Live(p) => ppid'[p] = ppid[p]
                        /\ ppid'[p] < pids
                        /\ state'[p] # "NONE" => state[p] # "NONE" /\ children'[p] = children[p]
                        /\ state'[p] = "WAITING" => state[p] = "WAITING" \/ children[p] # 0
  PROVE  FamilyInv'
<1>1. \A p \in Pid : LiveChildren(p)' = LiveChildren(p)
  BY DEF LiveChildren
<1>2. \A p \in Pid : ppid'[p] < pids'
  OBVIOUS
<1>3. ASSUME "killDead" \notin lapses', NEW p \in Pid
      PROVE  /\ state'[p] # "NONE" => children'[p] = Cardinality(LiveChildren(p)')
             /\ state'[p] = "WAITING" => children'[p] # 0
  <2>1. "killDead" \notin lapses
    BY <1>3
  <2>2. /\ state[p] # "NONE" => children[p] = Cardinality(LiveChildren(p))
        /\ state[p] = "WAITING" => children[p] # 0
    BY <2>1 DEF FamilyInv
  <2>3. LiveChildren(p)' = LiveChildren(p)
    BY <1>1
  <2> QED BY <2>2, <2>3
<1> QED BY <1>2, <1>3 DEF FamilyInv

\* At boot there is no child.
LEMMA FamilyInit == Init => FamilyInv
<1> SUFFICES ASSUME Init PROVE FamilyInv
  OBVIOUS
<1>1. \A p \in Pid : ppid[p] = 0 /\ ppid[p] < pids /\ children[p] = 0 /\ state[p] # "WAITING"
  BY DEF Init, NULL
<1>2. ASSUME NEW p \in Pid PROVE Cardinality(LiveChildren(p)) = 0
  <2>1. p # 0
    BY DEF Pid
  <2>2. LiveChildren(p) = {}
    BY <1>1, <2>1 DEF LiveChildren
  <2> QED BY <2>2, FS_EmptySet
<1> QED BY <1>1, <1>2 DEF FamilyInv

\* loadProcess: the new process has no child and its creator has one more.
LEMMA FamilyLoad == SafetyInv /\ FamilyInv /\ SysLoadProcess => FamilyInv'
<1> SUFFICES ASSUME SafetyInv, FamilyInv, SysLoadProcess PROVE FamilyInv'
  OBVIOUS
<1>1. PICK fg \in BOOLEAN : enqueueProcess(fg)
  BY DEF SysLoadProcess
<1>2. mode = "user" /\ lapses' = lapses
  BY DEF SysLoadProcess, Calling
<1>3. current \in Pid /\ current < pids /\ state[current] = "READY"
  BY <1>2, UserFacts
<1>4. pids \in Pid /\ pids \in Nat /\ state[pids] = "NONE" /\ pids # current
  <2>1. pids \in Pid
    BY <1>1, SchedulerAssumption DEF enqueueProcess, SafetyInv, TypeOK, Pid
  <2>2. ~(pids < pids) /\ pids \in Nat
    BY <2>1 DEF Pid
  <2> QED BY <1>3, <2>1, <2>2 DEF SafetyInv, ListWellFormed, Pid
<1>5. /\ pids' = pids + 1
      /\ ppid' = [ppid EXCEPT ![pids] = current]
      /\ children' = [children EXCEPT ![pids] = 0, ![current] = @ + 1]
      /\ \A p \in Pid : ppid[p] < pids
  BY <1>1 DEF enqueueProcess, FamilyInv
<1>6. \A p \in Pid \ {pids} : /\ Live(p)' <=> Live(p)
                              /\ state'[p] = "NONE" <=> state[p] = "NONE"
                              /\ state'[p] = "WAITING" => state[p] = "WAITING"
  BY <1>1, <1>4, IdlePid
  DEF enqueueProcess, IdleBlocked, Alive, Live, SafetyInv, TypeOK, ListWellFormed
<1>7. state'[pids] = "READY"
  BY <1>1, <1>4, IdlePid DEF enqueueProcess, IdleBlocked, SafetyInv, TypeOK
<1>8. \A p \in Pid : ppid'[p] = IF p = pids THEN current ELSE ppid[p]
  BY <1>4, <1>5 DEF SafetyInv, TypeOK
<1>9. \A p \in Pid : ppid'[p] < pids'
  <2>1. \A p \in Pid : ppid'[p] \in Int /\ ppid'[p] < pids
    <3>1. \A p \in Pid : ppid[p] \in Int
      <4>1. \A p \in Pid : ppid[p] \in Pid \/ ppid[p] = 0
        BY DEF SafetyInv, TypeOK, NULL
      <4>2. \A q \in Pid : q \in Int
        BY SchedulerAssumption DEF Pid
      <4> QED BY <4>1, <4>2
    <3>2. current \in Int
      BY <1>3 DEF Pid
    <3> QED BY <1>3, <1>5, <1>8, <3>1, <3>2
  <2> QED BY <2>1, <1>4, <1>5
<1>10. ASSUME "killDead" \notin lapses', NEW p \in Pid
       PROVE  /\ state'[p] # "NONE" => children'[p] = Cardinality(LiveChildren(p)')
              /\ state'[p] = "WAITING" => children'[p] # 0
  <2>1. /\ state[p] # "NONE" => children[p] = Cardinality(LiveChildren(p))
        /\ state[p] = "WAITING" => children[p] # 0
    BY <1>2, <1>10 DEF FamilyInv
  <2>2. CASE p = pids
    <3>1. LiveChildren(p)' = {}
      BY <1>4, <1>5, <1>8, <2>2 DEF LiveChildren, SafetyInv, TypeOK, Pid, NULL
    <3>2. children'[p] = 0
      BY <1>4, <1>5, <2>2 DEF SafetyInv, TypeOK
    <3> QED BY <3>1, <3>2, <2>2, <1>7, FS_EmptySet
  <2>3. CASE p = current
    <3>1. LiveChildren(p)' = LiveChildren(p) \union {pids}
      BY <1>4, <1>6, <1>7, <1>8, <2>3 DEF LiveChildren, Live
    <3>2. pids \notin LiveChildren(p)
      BY <1>4 DEF LiveChildren, Live
    <3>3. Cardinality(LiveChildren(p)') = Cardinality(LiveChildren(p)) + 1
      BY <3>1, <3>2, LiveChildrenFinite, FS_AddElement
    <3>4. children'[p] = children[p] + 1
      BY <1>3, <1>4, <1>5, <2>3 DEF SafetyInv, TypeOK
    <3>5. Cardinality(LiveChildren(p)) \in Nat
      BY LiveChildrenFinite
    <3> QED BY <1>3, <2>1, <2>3, <3>3, <3>4, <3>5
  <2>4. CASE p # pids /\ p # current
    <3>1. LiveChildren(p)' = LiveChildren(p)
      BY <1>4, <1>6, <1>8, <2>4 DEF LiveChildren, Live
    <3>2. children'[p] = children[p]
      BY <1>5, <2>4 DEF SafetyInv, TypeOK
    <3> QED BY <1>6, <2>1, <2>4, <3>1, <3>2
  <2> QED BY <2>2, <2>3, <2>4
<1> QED BY <1>9, <1>10 DEF FamilyInv

\* kill() of a live process: its parent, if there, has one child less.
LEMMA FamilyKill == SafetyInv /\ FamilyInv /\ (SysKill \/ exitProcess) => FamilyInv'
<1> SUFFICES ASSUME SafetyInv, FamilyInv, SysKill \/ exitProcess PROVE FamilyInv'
  OBVIOUS
<1>1. mode = "user" /\ UNCHANGED <<ppid, pids>>
  BY DEF SysKill, exitProcess, Calling
<1>2. current \in Pid
  BY <1>1, UserFacts
<1>3. PICK pid \in Pid : kill(pid)
  BY <1>2 DEF SysKill, exitProcess
<1> DEFINE parent == ppid[pid]
<1>4. \A p \in Pid : ppid'[p] < pids'
  BY <1>1 DEF FamilyInv
<1>5. lapses \subseteq lapses' /\ (state[pid] = "DEAD" => "killDead" \in lapses')
  BY <1>3 DEF kill
<1>6. state[pid] # "NONE" /\ state'[pid] = "DEAD"
  BY <1>3 DEF kill, SafetyInv, TypeOK, ListWellFormed
<1>7. \A p \in Pid \ {pid} :
        \/ state'[p] = state[p]
        \/ /\ p = parent /\ state[p] = "WAITING" /\ state'[p] = "READY"
  BY <1>3 DEF kill, SafetyInv, TypeOK
<1>8. \A p \in Pid : p # parent => children'[p] = children[p]
  BY <1>3 DEF kill, SafetyInv, TypeOK
<1>9. \A p \in Pid : p = parent /\ state[p] # "NONE" =>
        /\ children'[p] = children[p] - 1
        /\ p # pid /\ children[p] = 1 => state'[p] # "WAITING"
  BY <1>3 DEF kill, SafetyInv, TypeOK, ListWellFormed
<1>10. ASSUME "killDead" \notin lapses', NEW p \in Pid
       PROVE  /\ state'[p] # "NONE" => children'[p] = Cardinality(LiveChildren(p)')
              /\ state'[p] = "WAITING" => children'[p] # 0
  <2>1. /\ state[p] # "NONE" => children[p] = Cardinality(LiveChildren(p))
        /\ state[p] = "WAITING" => children[p] # 0
    BY <1>5, <1>10 DEF FamilyInv
  <2>2. state'[p] # "NONE" => state[p] # "NONE"
    BY <1>6, <1>7
  <2>3. Live(pid)
    BY <1>5, <1>6, <1>10 DEF Live
  <2>4. CASE p = parent
    <3>1. LiveChildren(p)' = LiveChildren(p) \ {pid} /\ pid \in LiveChildren(p)
      BY <1>1, <1>6, <1>7, <2>3, <2>4 DEF LiveChildren, Live
    <3>2. Cardinality(LiveChildren(p)') = Cardinality(LiveChildren(p)) - 1
      BY <3>1, LiveChildrenFinite, FS_RemoveElement
    <3>3. state[p] # "NONE" => children'[p] = Cardinality(LiveChildren(p)')
      BY <1>9, <2>1, <2>4, <3>2
    <3>4. state'[p] = "WAITING" => children'[p] # 0
      <4>1. children[p] \in Int
        BY DEF SafetyInv, TypeOK
      <4> QED BY <1>6, <1>9, <2>1, <2>2, <2>4, <4>1
    <3> QED BY <2>2, <3>3, <3>4
  <2>5. CASE p # parent
    <3>1. LiveChildren(p)' = LiveChildren(p)
      BY <1>1, <1>6, <1>7, <2>5 DEF LiveChildren, Live
    <3> QED BY <1>6, <1>7, <1>8, <2>1, <2>2, <2>5, <3>1
  <2> QED BY <2>4, <2>5
<1> QED BY <1>4, <1>10 DEF FamilyInv

\* The other calls and the interrupts neither make nor end a process.
LEMMA FamilyCalls ==
  SafetyInv /\ FamilyInv /\ ( \/ SysBlock \/ sleep \/ SysUnblock \/ SysNice \/ wait \/ blockIO
                              \/ quitCPU \/ TimerInterrupt \/ unblockIO \/ ClockSecond )
    => FamilyInv'
<1> SUFFICES ASSUME SafetyInv, FamilyInv,
                    \/ SysBlock \/ sleep \/ SysUnblock \/ SysNice \/ wait \/ blockIO
                    \/ quitCPU \/ TimerInterrupt \/ unblockIO \/ ClockSecond
             PROVE  FamilyInv'
  OBVIOUS
<1>1. UNCHANGED <<ppid, children, pids>> /\ lapses \subseteq lapses'
  BY DEF SysBlock, sleep, SysUnblock, SysNice, nice, wait, blockIO, quitCPU, TimerInterrupt,
         unblockIO, ClockSecond, procVars
<1>2. \A p \in Pid : /\ Live(p)' <=> Live(p)
                     /\ state'[p] # "NONE" => state[p] # "NONE"
                     /\ state'[p] = "WAITING" => state[p] = "WAITING" \/ children[p] # 0
  <2>1. CASE SysBlock \/ sleep
    <3>1. current \in Pid
      BY <2>1, UserFacts DEF SysBlock, sleep, Calling
    <3>2. PICK pid \in Pid : block(pid)
      BY <2>1, <3>1 DEF SysBlock, sleep
    <3> QED BY <3>2 DEF block, Alive, Live, SafetyInv, TypeOK, ListWellFormed
  <2>2. CASE SysUnblock
    <3>1. PICK pid \in Pid : unblock(pid)
      BY <2>2 DEF SysUnblock
    <3> QED BY <3>1 DEF unblock, Alive, Live, SafetyInv, TypeOK, ListWellFormed
  <2>3. CASE wait \/ blockIO
    <3>1. current \in Pid /\ state[current] = "READY"
      BY <2>3, UserFacts DEF wait, blockIO, Calling
    <3> QED BY <2>3, <3>1 DEF wait, blockIO, Live, SafetyInv, TypeOK
  <2>4. CASE unblockIO
    BY <2>4 DEF unblockIO, Live, SafetyInv, TypeOK
  <2>5. CASE SysNice \/ quitCPU \/ TimerInterrupt \/ ClockSecond
    BY <2>5 DEF SysNice, quitCPU, TimerInterrupt, ClockSecond, procVars, Live
  <2> QED BY <2>1, <2>2, <2>3, <2>4, <2>5
<1> QED BY <1>1, <1>2, FamilyUnchanged DEF FamilyInv

\* The timer handler ends no process either: nextProcess frees only dead ones.
LEMMA FamilyHandler == SafetyInv /\ FamilyInv /\ TimerHandler => FamilyInv'
<1> SUFFICES ASSUME SafetyInv, FamilyInv, TimerHandler PROVE FamilyInv'
  OBVIOUS
<1>1. pids' = pids /\ lapses' = lapses
  BY DEF TimerHandler, wakeUp, nextProcess, EnterNextProcess, NextWrap, NextAllBlocked, NextReap,
         NextSkip, NextRun
<1>2. CASE NextReap
  <2>1. current \in Pid /\ state[current] = "DEAD" /\ 0 < pids
    BY <1>2 DEF NextReap, SafetyInv, TypeOK
  <2>2. \A p \in Pid : /\ Live(p)' <=> Live(p)
                       /\ Live(p) => ppid'[p] = ppid[p]
                       /\ ppid'[p] < pids
                       /\ state'[p] # "NONE" => state[p] # "NONE" /\ children'[p] = children[p]
                       /\ state'[p] = "WAITING" => state[p] = "WAITING"
    BY <1>2, <2>1 DEF NextReap, Live, SafetyInv, TypeOK, FamilyInv, NULL
  <2> QED BY <1>1, <2>2, FamilyUnchanged
<1>3. CASE ~NextReap
  <2>1. UNCHANGED <<ppid, children>>
    BY <1>3 DEF TimerHandler, wakeUp, nextProcess, EnterNextProcess, NextWrap, NextAllBlocked,
                NextSkip, NextRun, procVars
  <2>2. \A p \in Pid : /\ Live(p)' <=> Live(p)
                       /\ state'[p] # "NONE" => state[p] # "NONE"
                       /\ state'[p] = "WAITING" => state[p] = "WAITING"
    <3>1. CASE wakeUp
      <4>1. sleeping[FirstDue].pid \in Pid
        BY <3>1, FirstDueFacts DEF wakeUp, SafetyInv, ScanInList
      <4> QED BY <3>1, <4>1
              DEF wakeUp, unblock, Alive, Live, SafetyInv, TypeOK, ListWellFormed
    <3>2. CASE NextAllBlocked
      BY <3>2, IdlePid
      DEF NextAllBlocked, unblock, Alive, Live, SafetyInv, TypeOK, ListWellFormed
    <3>3. CASE NextRun
      BY <3>3, IdlePid DEF NextRun, IdleBlocked, Alive, Live, SafetyInv, TypeOK, ListWellFormed
    <3>4. CASE EnterNextProcess \/ NextWrap \/ NextSkip
      BY <3>4 DEF EnterNextProcess, NextWrap, NextSkip, procVars, Live
    <3> QED BY <1>3, <3>1, <3>2, <3>3, <3>4 DEF TimerHandler, nextProcess
  <2> QED BY <1>1, <2>1, <2>2, FamilyUnchanged DEF FamilyInv
<1> QED BY <1>2, <1>3

\* Every step preserves it.
LEMMA FamilyNext == SafetyInv /\ FamilyInv /\ [Next]_vars => FamilyInv'
<1> SUFFICES ASSUME SafetyInv, FamilyInv, [Next]_vars PROVE FamilyInv'
  OBVIOUS
<1>1. CASE Next
  BY <1>1, FamilyLoad, FamilyKill, FamilyCalls, FamilyHandler DEF Next, SystemCall
<1>2. CASE UNCHANGED vars
  BY <1>2, FamilyUnchanged DEF FamilyInv, Live, vars, procVars
<1> QED BY <1>1, <1>2

LEMMA FamilyAlways == Spec => [](SafetyInv /\ FamilyInv)
<1>1. Init => SafetyInv /\ FamilyInv
  BY SafetyInit, FamilyInit
<1>2. SafetyInv /\ FamilyInv /\ [Next]_vars => (SafetyInv /\ FamilyInv)'
  BY SafetyNext, FamilyNext
<1> QED BY <1>1, <1>2, PTL DEF Spec

\* The counter children of every process that has not been freed is the number of
\* its live children, unless a dead process was killed again.
THEOREM ChildrenAreCounted == Spec => []ChildrenCounted
<1>1. FamilyInv => ChildrenCounted
  BY DEF FamilyInv, ChildrenCounted
<1> QED BY <1>1, FamilyAlways, PTL

\* A process blocked in wait() always has a live child left to wake it.
THEOREM WaiterIsWoken == Spec => []WaiterHasChild
<1>1. FamilyInv => WaiterHasChild
  <2> SUFFICES ASSUME FamilyInv, "killDead" \notin lapses, NEW p \in Pid, state[p] = "WAITING"
               PROVE  LiveChildren(p) # {}
    BY DEF WaiterHasChild
  <2>1. Cardinality(LiveChildren(p)) # 0
    BY DEF FamilyInv
  <2> QED BY <2>1, FS_EmptySet
<1> QED BY <1>1, FamilyAlways, PTL

-----------------------------------------------------------------------------
(* The foreground.                                                         *)

\* Has the foreground, or has lent it to a child.
Holds(p) == foreground[p] \/ backWait[p]

\* Who has lent the foreground has a live child that holds it; so the chain of
\* loans that starts at the first user process does not end in the grave.
TerminalInv ==
  /\ \A p \in Pid : ppid[p] < p
  /\ "killLender" \notin lapses =>
       /\ Live(INIT_PID) => Holds(INIT_PID)
       /\ \A p \in Pid : Live(p) /\ backWait[p] =>
            \E c \in Pid : Live(c) /\ ppid[c] = p /\ Holds(c)

\* block() and kill() pass the foreground from pid to its parent.
LEMMA GiveBackFacts ==
  ASSUME TypeOK, NEW pid \in Pid, GiveBack(pid)
  PROVE  /\ \A p \in Pid : Holds(p)' <=> Holds(p)
         /\ \A p \in Pid : backWait'[p] => backWait[p]
         /\ \A p \in Pid : p = ppid[pid] /\ foreground[pid] /\ searchProcess(p) => ~backWait'[p]
BY DEF GiveBack, Holds, TypeOK

\* unblock() passes it from the parent of pid to pid.
LEMMA TakeOverFacts ==
  ASSUME TypeOK, NEW pid \in Pid, TakeOver(pid)
  PROVE  /\ \A p \in Pid : Holds(p)' <=> Holds(p)
         /\ \A p \in Pid : backWait'[p] => backWait[p] \/ (p = ppid[pid] /\ Holds(pid))
BY DEF TakeOver, Holds, TypeOK

\* Steps that lend nothing to a process that does not hold it, and by which
\* nobody who holds it dies.
LEMMA TerminalKept ==
  ASSUME TerminalInv, TypeOK, lapses \subseteq lapses',
         \A p \in Pid : /\ Live(p)' => Live(p)
                        /\ ppid'[p] < p
                        /\ Live(p) => ppid'[p] = ppid[p]
                        /\ Live(p)' => (Holds(p)' <=> Holds(p)),
         "killLender" \notin lapses' =>
           \A p \in Pid : Live(p)' /\ backWait'[p] =>
             \/ /\ backWait[p]
                /\ \A c \in Pid : Live(c) /\ ppid[c] = p /\ Holds(c) => Live(c)'
             \/ \E c \in Pid : Live(c)' /\ ppid[c] = p /\ Holds(c)
  PROVE  TerminalInv'
<1>1. \A p \in Pid : ppid'[p] < p
  OBVIOUS
<1> SUFFICES ASSUME "killLender" \notin lapses'
             PROVE  /\ Live(INIT_PID)' => Holds(INIT_PID)'
                    /\ \A p \in Pid : Live(p)' /\ backWait'[p] =>
                         \E c \in Pid : Live(c)' /\ ppid'[c] = p /\ Holds(c)'
  BY <1>1 DEF TerminalInv
<1>2. "killLender" \notin lapses
  OBVIOUS
<1>3. Live(INIT_PID)' => Holds(INIT_PID)'
  BY <1>2, IdlePid DEF TerminalInv
<1>4. ASSUME NEW p \in Pid, Live(p)', backWait'[p]
      PROVE  \E c \in Pid : Live(c)' /\ ppid'[c] = p /\ Holds(c)'
  <2>1. \E c \in Pid : Live(c)' /\ ppid[c] = p /\ Holds(c)
    <3>1. CASE /\ backWait[p]
               /\ \A c \in Pid : Live(c) /\ ppid[c] = p /\ Holds(c) => Live(c)'
      <4>1. PICK c \in Pid : Live(c) /\ ppid[c] = p /\ Holds(c)
        BY <1>2, <1>4, <3>1 DEF TerminalInv
      <4> QED BY <3>1, <4>1
    <3> QED BY <1>4, <3>1
  <2>2. PICK c \in Pid : Live(c)' /\ ppid[c] = p /\ Holds(c)
    BY <2>1
  <2>3. Live(c) /\ ppid'[c] = p /\ Holds(c)'
    BY <2>2
  <2> QED BY <2>2, <2>3
<1> QED BY <1>3, <1>4

\* At boot the first user process has the foreground.
LEMMA TerminalInit == Init => TerminalInv
<1> SUFFICES ASSUME Init PROVE TerminalInv
  OBVIOUS
<1>1. \A p \in Pid : ppid[p] < p /\ ~backWait[p]
  BY DEF Init, Pid, NULL
<1>2. foreground[INIT_PID]
  BY IdlePid DEF Init
<1> QED BY <1>1, <1>2 DEF TerminalInv, Holds

\* loadProcess: the new process may borrow the foreground from its creator.
LEMMA TerminalLoad == SafetyInv /\ TerminalInv /\ SysLoadProcess => TerminalInv'
<1> SUFFICES ASSUME SafetyInv, TerminalInv, SysLoadProcess PROVE TerminalInv'
  OBVIOUS
<1>1. PICK fg \in BOOLEAN : enqueueProcess(fg)
  BY DEF SysLoadProcess
<1>2. mode = "user" /\ lapses' = lapses
  BY DEF SysLoadProcess, Calling
<1>3. current \in Pid /\ current < pids /\ state[current] = "READY"
  BY <1>2, UserFacts
<1>4. PICK new \in Pid : new = pids /\ state[new] = "NONE" /\ new # current
  <2>1. pids \in Pid
    BY <1>1, SchedulerAssumption DEF enqueueProcess, SafetyInv, TypeOK, Pid
  <2>2. ~(pids < pids)
    BY <2>1 DEF Pid
  <2> QED BY <1>3, <2>1, <2>2 DEF SafetyInv, ListWellFormed
<1>5. /\ \A p \in Pid \ {new} : Live(p)' <=> Live(p)
      /\ Live(new)'
  <2> DEFINE base == IF idleFlag = 0 THEN IdleBlocked ELSE state
  <2>1. state \in [Pid -> States] /\ IDLE_PID \in Pid
    BY IdlePid DEF SafetyInv, TypeOK
  <2>2. base \in [Pid -> States] /\ \A p \in Pid : base[p] \in {"NONE", "DEAD"} <=> ~Live(p)
    <3>1. CASE base = state
      BY <2>1, <3>1 DEF Live
    <3>2. CASE Alive(IDLE_PID) /\ base = [state EXCEPT ![IDLE_PID] = "BLOCKED"]
      <4>1. Live(IDLE_PID)
        BY <2>1, <3>2 DEF Alive, Live, SafetyInv, ListWellFormed
      <4> QED BY <2>1, <3>2, <4>1 DEF Live, States
    <3> QED BY <3>1, <3>2 DEF IdleBlocked
  <2>3. state' = [base EXCEPT ![new] = "READY"]
    BY <1>1, <1>4 DEF enqueueProcess
  <2> HIDE DEF base
  <2> QED BY <1>4, <2>2, <2>3 DEF Live
<1>6. \A p \in Pid : ppid'[p] = IF p = new THEN current ELSE ppid[p]
  BY <1>1, <1>4 DEF enqueueProcess, SafetyInv, TypeOK
<1>7. \A p \in Pid : ppid'[p] < p
  BY <1>3, <1>4, <1>6 DEF TerminalInv
<1>8. /\ \A p \in Pid \ {new} : Holds(p)' <=> Holds(p)
      /\ \A p \in Pid \ {new} : backWait'[p] => backWait[p] \/ (p = current /\ Holds(new)')
      /\ ~backWait'[new]
  <2> DEFINE lends == foreground[current] /\ fg
  <2>1. /\ foreground \in [Pid -> BOOLEAN] /\ backWait \in [Pid -> BOOLEAN]
        /\ foreground' = [foreground EXCEPT ![new] = fg, ![current] = foreground[current] /\ ~lends]
        /\ backWait' = [backWait EXCEPT ![new] = FALSE, ![current] = backWait[current] \/ lends]
    BY <1>1, <1>4 DEF enqueueProcess, SafetyInv, TypeOK
  <2>2. /\ foreground'[new] = fg /\ backWait'[new] = FALSE
        /\ foreground'[current] = (foreground[current] /\ ~lends)
        /\ backWait'[current] = (backWait[current] \/ lends)
        /\ \A p \in Pid \ {new, current} :
             foreground'[p] = foreground[p] /\ backWait'[p] = backWait[p]
    BY <1>3, <1>4, <2>1
  <2>3. \A p \in Pid \ {new} : Holds(p)' <=> Holds(p)
    BY <1>3, <1>4, <2>2 DEF Holds
  <2>4. \A p \in Pid \ {new} : backWait'[p] => backWait[p] \/ (p = current /\ fg)
    BY <1>3, <1>4, <2>2
  <2> QED BY <2>2, <2>3, <2>4 DEF Holds
<1> SUFFICES ASSUME "killLender" \notin lapses
             PROVE  /\ Live(INIT_PID)' => Holds(INIT_PID)'
                    /\ \A p \in Pid : Live(p)' /\ backWait'[p] =>
                         \E c \in Pid : Live(c)' /\ ppid'[c] = p /\ Holds(c)'
  BY <1>2, <1>7 DEF TerminalInv
<1>9. Live(INIT_PID)' => Holds(INIT_PID)'
  <2>1. INIT_PID # new
    BY <1>4 DEF INIT_PID, SafetyInv, TypeOK
  <2> QED BY <1>5, <1>8, <2>1, IdlePid DEF TerminalInv
<1>10. ASSUME NEW p \in Pid, Live(p)', backWait'[p]
       PROVE  \E c \in Pid : Live(c)' /\ ppid'[c] = p /\ Holds(c)'
  <2>1. p # new
    BY <1>8, <1>10
  <2>2. CASE p = current /\ Holds(new)'
    <3>1. Live(new)' /\ ppid'[new] = p /\ Holds(new)'
      BY <1>4, <1>5, <1>6, <2>2
    <3> QED BY <1>4, <3>1
  <2>3. CASE backWait[p]
    <3>1. PICK c \in Pid : Live(c) /\ ppid[c] = p /\ Holds(c)
      BY <1>5, <1>10, <2>1, <2>3 DEF TerminalInv
    <3>2. c # new
      BY <1>4, <3>1 DEF Live
    <3> QED BY <1>5, <1>6, <1>8, <3>1, <3>2
  <2> QED BY <1>8, <1>10, <2>1, <2>2, <2>3
<1> QED BY <1>9, <1>10

\* kill(): a process in the foreground gives it back; a lender is recorded.
LEMMA TerminalKill == SafetyInv /\ TerminalInv /\ (SysKill \/ exitProcess) => TerminalInv'
<1> SUFFICES ASSUME SafetyInv, TerminalInv, SysKill \/ exitProcess PROVE TerminalInv'
  OBVIOUS
<1>1. mode = "user" /\ ppid' = ppid
  BY DEF SysKill, exitProcess, Calling
<1>2. current \in Pid
  BY <1>1, UserFacts
<1>3. PICK pid \in Pid : kill(pid)
  BY <1>2 DEF SysKill, exitProcess
<1>4. /\ \A p \in Pid : Holds(p)' <=> Holds(p)
      /\ \A p \in Pid : backWait'[p] => backWait[p]
      /\ \A p \in Pid : p = ppid[pid] /\ foreground[pid] /\ searchProcess(p) => ~backWait'[p]
  BY <1>3, GiveBackFacts DEF kill, SafetyInv
<1>5. \A p \in Pid : Live(p)' <=> Live(p) /\ p # pid
  BY <1>3 DEF kill, Live, SafetyInv, TypeOK, ListWellFormed
<1>6. /\ lapses \subseteq lapses'
      /\ "killLender" \notin lapses' => ~backWait[pid]
  BY <1>3 DEF kill
<1>7. ASSUME "killLender" \notin lapses', NEW p \in Pid, Live(p)', backWait'[p]
      PROVE  /\ backWait[p]
             /\ \A c \in Pid : Live(c) /\ ppid[c] = p /\ Holds(c) => Live(c)'
  <2>1. backWait[p] /\ searchProcess(p)
    BY <1>4, <1>5, <1>7 DEF Live, SafetyInv, ListWellFormed
  <2>2. ~(Holds(pid) /\ ppid[pid] = p)
    BY <1>4, <1>6, <1>7, <2>1 DEF Holds
  <2> QED BY <1>5, <2>1, <2>2
<1>8. \A p \in Pid : ppid[p] < p
  BY DEF TerminalInv
<1> QED BY <1>1, <1>4, <1>5, <1>6, <1>7, <1>8, TerminalKept DEF SafetyInv

\* Steps in which nobody is created, killed or freed.
LEMMA TerminalLent ==
  ASSUME SafetyInv, TerminalInv, lapses \subseteq lapses', ppid' = ppid,
         \A p \in Pid : Live(p)' <=> Live(p),
         \/ UNCHANGED <<foreground, backWait>>
         \/ \E pid \in Pid : GiveBack(pid)
         \/ \E pid \in Pid : Live(pid) /\ TakeOver(pid)
  PROVE  TerminalInv'
<1>1. \A p \in Pid : ppid'[p] < p
  BY DEF TerminalInv
<1>2. CASE UNCHANGED <<foreground, backWait>> \/ \E pid \in Pid : GiveBack(pid)
  <2>1. \A p \in Pid : (Holds(p)' <=> Holds(p)) /\ (backWait'[p] => backWait[p])
    BY <1>2, GiveBackFacts DEF SafetyInv, Holds
  <2> QED BY <1>1, <2>1, TerminalKept DEF SafetyInv
<1>3. CASE \E pid \in Pid : Live(pid) /\ TakeOver(pid)
  <2>1. PICK pid \in Pid : Live(pid) /\ TakeOver(pid)
    BY <1>3
  <2>2. /\ \A p \in Pid : Holds(p)' <=> Holds(p)
        /\ \A p \in Pid : backWait'[p] => backWait[p] \/ (p = ppid[pid] /\ Holds(pid))
    BY <2>1, TakeOverFacts DEF SafetyInv
  <2> QED BY <1>1, <2>1, <2>2, TerminalKept DEF SafetyInv
<1> QED BY <1>2, <1>3

LEMMA TerminalCalls ==
  SafetyInv /\ TerminalInv /\ ( \/ SysBlock \/ sleep \/ SysUnblock \/ SysNice \/ wait \/ blockIO
                                \/ quitCPU \/ TimerInterrupt \/ unblockIO \/ ClockSecond )
    => TerminalInv'
<1> SUFFICES ASSUME SafetyInv, TerminalInv,
                    \/ SysBlock \/ sleep \/ SysUnblock \/ SysNice \/ wait \/ blockIO
                    \/ quitCPU \/ TimerInterrupt \/ unblockIO \/ ClockSecond
             PROVE  TerminalInv'
  OBVIOUS
<1>1. lapses \subseteq lapses' /\ ppid' = ppid
  BY DEF SysBlock, sleep, SysUnblock, SysNice, nice, wait, blockIO, quitCPU, TimerInterrupt,
         unblockIO, ClockSecond, procVars
<1>2. CASE SysBlock \/ sleep
  <2>1. current \in Pid
    BY <1>2, UserFacts DEF SysBlock, sleep, Calling
  <2>2. PICK pid \in Pid : block(pid)
    BY <1>2, <2>1 DEF SysBlock, sleep
  <2>3. GiveBack(pid) /\ \A p \in Pid : Live(p)' <=> Live(p)
    BY <2>2 DEF block, Alive, Live, SafetyInv, TypeOK, ListWellFormed
  <2> QED BY <1>1, <2>3, TerminalLent
<1>3. CASE SysUnblock
  <2>1. PICK pid \in Pid : unblock(pid)
    BY <1>3 DEF SysUnblock
  <2>2. TakeOver(pid) /\ Live(pid) /\ \A p \in Pid : Live(p)' <=> Live(p)
    BY <2>1 DEF unblock, Alive, Live, SafetyInv, TypeOK, ListWellFormed
  <2> QED BY <1>1, <2>2, TerminalLent
<1>4. CASE wait \/ blockIO \/ unblockIO
  <2>1. wait \/ blockIO => current \in Pid /\ state[current] = "READY"
    BY UserFacts DEF wait, blockIO, Calling
  <2>2. \A p \in Pid : Live(p)' <=> Live(p)
    BY <1>4, <2>1 DEF wait, blockIO, unblockIO, Live, SafetyInv, TypeOK
  <2>3. UNCHANGED <<foreground, backWait>>
    BY <1>4 DEF wait, blockIO, unblockIO
  <2> QED BY <1>1, <2>2, <2>3, TerminalLent
<1>5. CASE SysNice \/ quitCPU \/ TimerInterrupt \/ ClockSecond
  <2>1. UNCHANGED <<state, foreground, backWait>>
    BY <1>5 DEF SysNice, quitCPU, TimerInterrupt, ClockSecond, procVars
  <2> QED BY <1>1, <2>1, TerminalLent DEF Live
<1> QED BY <1>2, <1>3, <1>4, <1>5

LEMMA TerminalHandler == SafetyInv /\ TerminalInv /\ TimerHandler => TerminalInv'
<1> SUFFICES ASSUME SafetyInv, TerminalInv, TimerHandler PROVE TerminalInv'
  OBVIOUS
<1>1. lapses' = lapses
  BY DEF TimerHandler, wakeUp, nextProcess, EnterNextProcess, NextWrap, NextAllBlocked, NextReap,
         NextSkip, NextRun
<1>2. CASE NextReap
  <2>1. current \in Pid /\ state[current] = "DEAD"
    BY <1>2 DEF NextReap, SafetyInv, TypeOK
  <2>2. \A p \in Pid : Live(p)' <=> Live(p)
    BY <1>2, <2>1 DEF NextReap, Live, SafetyInv, TypeOK
  <2>3. \A p \in Pid : /\ ppid'[p] < p
                       /\ Live(p) => /\ ppid'[p] = ppid[p]
                                     /\ foreground'[p] = foreground[p]
                                     /\ backWait'[p] = backWait[p]
    <3>1. /\ \A p \in Pid \ {current} : /\ ppid'[p] = ppid[p]
                                        /\ foreground'[p] = foreground[p]
                                        /\ backWait'[p] = backWait[p]
          /\ ppid'[current] = NULL
      BY <1>2, <2>1 DEF NextReap, SafetyInv, TypeOK
    <3>2. NULL < current /\ \A p \in Pid : ppid[p] < p
      BY <2>1 DEF NULL, Pid, TerminalInv
    <3>3. ~Live(current)
      BY <2>1 DEF Live
    <3> QED BY <3>1, <3>2, <3>3
  <2> QED BY <1>1, <2>2, <2>3, TerminalKept DEF SafetyInv, Holds
<1>3. CASE wakeUp \/ NextAllBlocked
  <2>1. ppid' = ppid
    BY <1>3 DEF wakeUp, NextAllBlocked
  <2>2. \/ UNCHANGED <<state, foreground, backWait>>
        \/ \E pid \in Pid : unblock(pid)
    <3>1. CASE wakeUp
      <4>1. sleeping[FirstDue].pid \in Pid
        BY <3>1, FirstDueFacts DEF wakeUp, SafetyInv, ScanInList
      <4> QED BY <3>1, <4>1 DEF wakeUp
    <3>2. CASE NextAllBlocked
      BY <3>2, IdlePid DEF NextAllBlocked
    <3> QED BY <1>3, <3>1, <3>2
  <2>3. CASE UNCHANGED <<state, foreground, backWait>>
    BY <1>1, <2>1, <2>3, TerminalLent DEF Live
  <2>4. ASSUME NEW pid \in Pid, unblock(pid) PROVE TerminalInv'
    <3>1. TakeOver(pid) /\ Live(pid) /\ \A p \in Pid : Live(p)' <=> Live(p)
      BY <2>4 DEF unblock, Alive, Live, SafetyInv, TypeOK, ListWellFormed
    <3> QED BY <1>1, <2>1, <3>1, TerminalLent
  <2> QED BY <2>2, <2>3, <2>4
<1>4. CASE EnterNextProcess \/ NextWrap \/ NextSkip \/ NextRun
  <2>1. UNCHANGED <<ppid, foreground, backWait>>
    BY <1>4 DEF EnterNextProcess, NextWrap, NextSkip, NextRun, procVars
  <2>2. \A p \in Pid : Live(p)' <=> Live(p)
    <3>1. CASE NextRun
      BY <3>1, IdlePid DEF NextRun, IdleBlocked, Alive, Live, SafetyInv, TypeOK, ListWellFormed
    <3>2. CASE ~NextRun
      BY <1>4, <3>2 DEF EnterNextProcess, NextWrap, NextSkip, procVars, Live
    <3> QED BY <3>1, <3>2
  <2> QED BY <1>1, <2>1, <2>2, TerminalLent
<1> QED BY <1>2, <1>3, <1>4 DEF TimerHandler, nextProcess

LEMMA TerminalNext == SafetyInv /\ TerminalInv /\ [Next]_vars => TerminalInv'
<1> SUFFICES ASSUME SafetyInv, TerminalInv, [Next]_vars PROVE TerminalInv'
  OBVIOUS
<1>1. CASE Next
  BY <1>1, TerminalLoad, TerminalKill, TerminalCalls, TerminalHandler DEF Next, SystemCall
<1>2. CASE UNCHANGED vars
  BY <1>2, TerminalLent DEF Live, vars, procVars
<1> QED BY <1>1, <1>2

LEMMA TerminalAlways == Spec => [](SafetyInv /\ TerminalInv)
<1>1. Init => SafetyInv /\ TerminalInv
  BY SafetyInit, TerminalInit
<1>2. SafetyInv /\ TerminalInv /\ [Next]_vars => (SafetyInv /\ TerminalInv)'
  BY SafetyNext, TerminalNext
<1> QED BY <1>1, <1>2, PTL DEF Spec

\* While the first user process lives some live process is in the foreground,
\* unless one was killed while it had lent it: of the processes that hold the
\* foreground, the last one created has not lent it.
THEOREM TerminalIsHeld == Spec => []TerminalHeld
<1>1. SafetyInv /\ TerminalInv => TerminalHeld
  <2> SUFFICES ASSUME SafetyInv, TerminalInv, Live(INIT_PID), "killLender" \notin lapses
               PROVE  \E p \in Pid : Live(p) /\ foreground[p]
    BY DEF TerminalHeld
  <2> DEFINE S == {p \in Pid : Live(p) /\ Holds(p)}
             T == {MaxPid - p : p \in S}
  <2>1. T \subseteq Nat
    BY SchedulerAssumption DEF Pid
  <2>2. T # {}
    BY IdlePid DEF TerminalInv
  <2>3. PICK x \in T : \A y \in T : x <= y
    <3> HIDE DEF T
    <3> QED BY <2>1, <2>2, SmallestExists
  <2>4. PICK m \in S : x = MaxPid - m
    BY <2>3
  <2>5. \A p \in S : p <= m
    <3> SUFFICES ASSUME NEW p \in S PROVE p <= m
      OBVIOUS
    <3>1. MaxPid - m <= MaxPid - p
      BY <2>3, <2>4
    <3> QED BY <2>4, <3>1, SchedulerAssumption DEF Pid
  <2>6. ~backWait[m]
    <3> SUFFICES ASSUME backWait[m] PROVE FALSE
      OBVIOUS
    <3>1. PICK c \in Pid : Live(c) /\ ppid[c] = m /\ Holds(c)
      BY <2>4 DEF TerminalInv
    <3>2. m < c /\ c \in S
      BY <3>1 DEF TerminalInv
    <3>3. c <= m
      BY <2>5, <3>2
    <3> QED BY <2>4, <3>2, <3>3 DEF Pid
  <2> QED BY <2>4, <2>6 DEF Holds
<1> QED BY <1>1, TerminalAlways, PTL

-----------------------------------------------------------------------------
(* Turns: nextProcess never lets a process have more ticks than its        *)
(* quantum, although it ends a turn by a test for equality.                *)

\* The calls after which the equality test may be jumped over.
Jumps == {"niceBelow", "lateWait"}

\* Only the current process can be right at its quantum, while it is ready and
\* until the handler has entered nextProcess, which then ends its turn.
Turn(p) ==
  Live(p) =>
    /\ executions[p] \in 0..Quantum(p)
    /\ ~(p = current /\ mode # "nextProcess" /\ state[p] = "READY") => executions[p] < Quantum(p)

TurnInv == lapses \intersect Jumps = {} => \A p \in Pid : Turn(p)

\* A process whose ticks and priority are left alone, or whose ticks are reset.
LEMMA TurnKept ==
  ASSUME TypeOK, NEW p \in Pid, Turn(p), Live(p)' => Live(p), priority'[p] = priority[p],
         \/ executions'[p] = 0
         \/ /\ executions'[p] = executions[p]
            /\ \/ p = current' /\ mode' # "nextProcess" /\ state'[p] = "READY"
               \/ ~(p = current /\ mode # "nextProcess" /\ state[p] = "READY")
  PROVE  Turn(p)'
<1>1. Quantum(p) \in 1..CHAR_MAX
  BY QuantumIsChar
<1>2. Quantum(p)' = Quantum(p)
  BY DEF Quantum
<1>3. Quantum(p) \in Nat /\ 0 < Quantum(p)
  BY <1>1, SchedulerAssumption
<1> QED BY <1>2, <1>3 DEF Turn

\* Counts that fit a char are stored as they are.
LEMMA SmallChar ==
  ASSUME NEW x \in 0..CHAR_MAX
  PROVE  Char(x) = x
<1> DEFINE half == CHAR_MAX + 1
<1>1. half \in Nat /\ x \in Nat /\ x < half
  BY SchedulerAssumption
<1>2. (x + half) % (2 * half) = x + half
  <2>1. x + half \in 0..(2 * half - 1) /\ 2 * half \in Nat \ {0}
    BY <1>1
  <2> HIDE DEF half
  <2>2. \A y, n \in Nat : n > 0 /\ y < n => y % n = y
    OBVIOUS
  <2> QED BY <1>1, <2>1, <2>2
<1>3. (x + half) - half = x
  BY <1>1
<1>4. Char(x) = ((x + half) % (2 * half)) - half
  BY <1>1, SchedulerAssumption DEF Char
<1> QED BY <1>2, <1>3, <1>4

\* At boot no tick has been used.
LEMMA TurnInit == Init => TurnInv
<1> SUFFICES ASSUME Init, NEW p \in Pid PROVE Turn(p)
  BY DEF TurnInv
<1>1. executions[p] = 0
  BY DEF Init
<1>2. Quantum(p) \in 1..CHAR_MAX
  BY SafetyInit, QuantumIsChar DEF SafetyInv
<1> QED BY <1>1, <1>2, SchedulerAssumption DEF Turn

\* System calls.
LEMMA TurnCalls == SafetyInv /\ TurnInv /\ SystemCall => TurnInv'
<1> SUFFICES ASSUME SafetyInv, TurnInv, SystemCall, lapses' \intersect Jumps = {}, NEW p \in Pid
             PROVE  Turn(p)'
  BY DEF TurnInv
<1>1. mode = "user"
  BY DEF SystemCall, SysLoadProcess, SysKill, exitProcess, SysBlock, SysUnblock, SysNice,
         wait, blockIO, quitCPU, sleep, Calling
<1>2. current \in Pid /\ state[current] = "READY" /\ current < pids
  BY <1>1, UserFacts
<1>3. lapses \subseteq lapses'
  BY DEF SystemCall, SysLoadProcess, SysKill, exitProcess, SysBlock, SysUnblock, SysNice,
         wait, blockIO, quitCPU, sleep, kill, nice
<1>4. Turn(p) /\ TypeOK
  BY <1>3 DEF TurnInv, SafetyInv
<1>5. current' = current
  BY DEF SystemCall, SysLoadProcess, SysKill, exitProcess, SysBlock, SysUnblock, SysNice,
         wait, blockIO, quitCPU, sleep, cpuVars
<1>6. CASE SysLoadProcess
  <2>1. PICK fg \in BOOLEAN : enqueueProcess(fg)
    BY <1>6 DEF SysLoadProcess
  <2>2. current # IDLE_PID /\ mode' = mode
    BY <1>6 DEF SysLoadProcess, Calling
  <2>3. CASE p = pids
    <3>1. executions'[p] = 0
      BY <2>1, <2>3 DEF enqueueProcess, SafetyInv, TypeOK
    <3>2. TypeOK'
      BY <1>6, LoadProcessSafe DEF SafetyInv
    <3>3. Quantum(p)' \in 1..CHAR_MAX
      <4>1. priority'[p] \in 0..(MAX_PRIORITY - 1)
        BY <3>2 DEF TypeOK
      <4> QED BY <4>1, SchedulerAssumption DEF Quantum
    <3> QED BY <3>1, <3>3, SchedulerAssumption DEF Turn
  <2>4. CASE p # pids
    <3>1. executions'[p] = executions[p] /\ priority'[p] = priority[p]
      BY <2>1, <2>4 DEF enqueueProcess, SafetyInv, TypeOK
    <3>2. /\ Live(p)' => Live(p)
          /\ p = current => state'[p] = state[p]
      BY <2>1, <2>2, <2>4, IdlePid
      DEF enqueueProcess, IdleBlocked, Alive, Live, SafetyInv, TypeOK, ListWellFormed
    <3> QED BY <1>1, <1>2, <1>4, <1>5, <2>2, <3>1, <3>2, TurnKept
  <2> QED BY <2>3, <2>4
<1>7. CASE SysKill \/ exitProcess
  <2>1. PICK pid \in Pid : kill(pid)
    BY <1>2, <1>7 DEF SysKill, exitProcess
  <2>2. executions' = executions /\ priority' = priority /\ mode' # "nextProcess"
    BY <1>1, <1>7, <2>1 DEF SysKill, exitProcess, kill, forceTimer
  <2>3. /\ Live(p)' => Live(p) /\ p # pid
        /\ p # pid /\ p = current => state'[p] = state[p]
    BY <1>2, <2>1 DEF kill, Live, SafetyInv, TypeOK
  <2>4. CASE p = pid
    BY <2>3, <2>4 DEF Turn
  <2>5. CASE p # pid
    BY <1>1, <1>2, <1>4, <1>5, <2>2, <2>3, <2>5, TurnKept
  <2> QED BY <2>4, <2>5
<1>8. CASE SysBlock \/ sleep
  <2>1. PICK pid \in Pid : block(pid)
    BY <1>2, <1>8 DEF SysBlock, sleep
  <2>2. priority' = priority /\ mode' # "nextProcess"
    BY <1>1, <1>8, <2>1 DEF SysBlock, sleep, block, forceTimer
  <2>3. /\ Live(p)' => Live(p)
        /\ p # pid => state'[p] = state[p] /\ executions'[p] = executions[p]
        /\ p = pid => \/ p = current /\ executions'[p] = 0
                      \/ p # current /\ executions'[p] = executions[p]
    BY <1>2, <2>1 DEF block, Alive, Live, SafetyInv, TypeOK, ListWellFormed
  <2> QED BY <1>1, <1>2, <1>4, <1>5, <2>2, <2>3, TurnKept
<1>9. CASE SysUnblock
  <2>1. PICK pid \in Pid : unblock(pid)
    BY <1>9 DEF SysUnblock
  <2>2. priority' = priority /\ executions' = executions /\ mode' = mode
    BY <1>9 DEF SysUnblock
  <2>3. /\ Live(p)' => Live(p)
        /\ p = current => state'[p] = "READY"
    BY <1>2, <2>1 DEF unblock, Alive, Live, SafetyInv, TypeOK, ListWellFormed
  <2> QED BY <1>1, <1>2, <1>4, <1>5, <2>2, <2>3, TurnKept
<1>10. CASE SysNice
  <2>1. PICK pid \in Pid, offset \in -NiceHalf..(NiceHalf - 1) : nice(pid, offset + NiceHalf)
    BY <1>10 DEF SysNice
  <2>2. UNCHANGED <<state, executions, mode>>
    BY <1>10 DEF SysNice
  <2>3. CASE p # pid
    <3>1. priority'[p] = priority[p]
      BY <2>1, <2>3 DEF nice, SafetyInv, TypeOK
    <3>2. Live(p)' => Live(p)
      BY <2>2 DEF Live
    <3> QED BY <1>1, <1>2, <1>4, <1>5, <2>2, <3>1, <3>2, TurnKept
  <2>4. CASE p = pid
    <3> DEFINE quantum == MAX_PRIORITY - (offset + NiceHalf)
    <3>1. Quantum(p)' = quantum /\ quantum \in Int
      <4>1. NiceHalf \in Int /\ MAX_PRIORITY \in Int
        BY SchedulerAssumption DEF NiceHalf
      <4>2. offset \in Int
        BY <4>1
      <4>3. priority'[p] = offset + NiceHalf
        BY <2>1, <2>4 DEF nice, SafetyInv, TypeOK
      <4> QED BY <4>1, <4>2, <4>3 DEF Quantum
    <3>2. "niceBelow" \notin lapses'
      BY DEF Jumps
    <3>3. ~(executions[p] > quantum \/ (executions[p] = quantum /\ p # current))
      BY <2>1, <2>4, <3>2 DEF nice
    <3>4. executions[p] \in Int
      BY SchedulerAssumption DEF SafetyInv, TypeOK
    <3>5. Live(p)' => executions[p] >= 0
      BY <1>4, <2>2, <3>4 DEF Turn, Live
    <3>6. p = current => state'[p] = "READY" /\ p = current' /\ mode' # "nextProcess"
      BY <1>1, <1>2, <1>5, <2>2
    <3> HIDE DEF quantum
    <3> QED BY <2>2, <3>1, <3>3, <3>4, <3>5, <3>6 DEF Turn
  <2> QED BY <2>3, <2>4
<1>11. CASE wait
  <2>1. UNCHANGED <<executions, priority>> /\ mode' # "nextProcess"
    BY <1>11 DEF wait, forceTimer
  <2>2. p # current => state'[p] = state[p]
    BY <1>11 DEF wait, SafetyInv, TypeOK
  <2>3. CASE p # current
    BY <1>4, <1>5, <2>1, <2>2, <2>3, TurnKept DEF Live
  <2>4. CASE p = current
    <3>1. executions[p] # Quantum(p)
      BY <1>11, <2>4 DEF wait, Jumps
    <3>2. executions[p] \in 0..Quantum(p) /\ Quantum(p) \in 1..CHAR_MAX
      BY <1>2, <1>4, <2>4, QuantumIsChar DEF Turn, Live
    <3>3. executions[p] < Quantum(p)
      BY <3>1, <3>2, SchedulerAssumption
    <3>4. Quantum(p)' = Quantum(p)
      BY <2>1 DEF Quantum
    <3> QED BY <2>1, <3>2, <3>3, <3>4 DEF Turn
  <2> QED BY <2>3, <2>4
<1>12. CASE blockIO
  <2>1. priority' = priority
    BY <1>12 DEF blockIO
  <2>2. /\ p # current => state'[p] = state[p] /\ executions'[p] = executions[p]
        /\ p = current => executions'[p] = 0
    BY <1>12 DEF blockIO, SafetyInv, TypeOK
  <2>3. Live(p)' => Live(p)
    BY <1>2, <2>2 DEF Live
  <2> QED BY <1>4, <1>5, <2>1, <2>2, <2>3, TurnKept
<1>13. CASE quitCPU
  <2>1. UNCHANGED <<priority, state>> /\ mode' # "nextProcess"
    BY <1>13 DEF quitCPU, forceTimer
  <2>2. CASE p # current
    <3>1. executions'[p] = executions[p]
      BY <1>13, <2>2 DEF quitCPU, SafetyInv, TypeOK
    <3> QED BY <1>4, <1>5, <2>1, <2>2, <3>1, TurnKept DEF Live
  <2>3. CASE p = current
    <3>1. executions'[p] = Quantum(p) /\ Quantum(p)' = Quantum(p)
      BY <1>13, <2>1, <2>3 DEF quitCPU, SafetyInv, TypeOK, Quantum
    <3>2. Quantum(p) \in 1..CHAR_MAX
      BY <1>4, QuantumIsChar
    <3> QED BY <1>2, <1>5, <2>1, <2>3, <3>1, <3>2, SchedulerAssumption DEF Turn
  <2> QED BY <2>2, <2>3
<1> QED BY <1>6, <1>7, <1>8, <1>9, <1>10, <1>11, <1>12, <1>13 DEF SystemCall

\* Interrupts and the clock use no tick.
LEMMA TurnInterrupts ==
  SafetyInv /\ TurnInv /\ (TimerInterrupt \/ unblockIO \/ ClockSecond) => TurnInv'
<1> SUFFICES ASSUME SafetyInv, TurnInv, TimerInterrupt \/ unblockIO \/ ClockSecond,
                    lapses' \intersect Jumps = {}, NEW p \in Pid
             PROVE  Turn(p)'
  BY DEF TurnInv
<1>1. /\ UNCHANGED <<executions, priority, current, lapses>>
      /\ mode' # "nextProcess" \/ mode' = mode
  BY DEF TimerInterrupt, unblockIO, ClockSecond, forceTimer, procVars, cpuVars
<1>2. Turn(p) /\ TypeOK
  BY <1>1 DEF TurnInv, SafetyInv
<1>3. (Live(p)' => Live(p)) /\ (state[p] = "READY" => state'[p] = "READY")
  BY DEF TimerInterrupt, unblockIO, ClockSecond, procVars, Live, SafetyInv, TypeOK
<1> QED BY <1>1, <1>2, <1>3, TurnKept

\* The timer handler: on entry to nextProcess a turn that was used up ends, and a
\* tick is given to a process that has one left.
LEMMA TurnHandler == SafetyInv /\ TurnInv /\ TimerHandler => TurnInv'
<1> SUFFICES ASSUME SafetyInv, TurnInv, TimerHandler, lapses' \intersect Jumps = {}, NEW p \in Pid
             PROVE  Turn(p)'
  BY DEF TurnInv
<1>1. lapses' = lapses
  BY DEF TimerHandler, wakeUp, nextProcess, EnterNextProcess, NextWrap, NextAllBlocked, NextReap,
         NextSkip, NextRun
<1>2. Turn(p) /\ TypeOK
  BY <1>1 DEF TurnInv, SafetyInv
<1>3. Quantum(p) \in 1..CHAR_MAX
  BY <1>2, QuantumIsChar
<1>4. CASE wakeUp
  <2>1. UNCHANGED <<executions, priority, current, mode>>
    BY <1>4 DEF wakeUp, cpuVars
  <2>2. sleeping[FirstDue].pid \in Pid
    BY <1>4, FirstDueFacts DEF wakeUp, SafetyInv, ScanInList
  <2>3. (Live(p)' => Live(p)) /\ (state[p] = "READY" => state'[p] = "READY")
    BY <1>4, <2>2 DEF wakeUp, unblock, Alive, Live, SafetyInv, TypeOK, ListWellFormed
  <2> QED BY <1>2, <2>1, <2>3, TurnKept
<1>5. CASE EnterNextProcess
  <2>1. UNCHANGED <<state, priority>> /\ mode' = "nextProcess" /\ mode # "nextProcess"
    BY <1>5 DEF EnterNextProcess
  <2>2. Quantum(p)' = Quantum(p) /\ (Live(p)' <=> Live(p))
    BY <2>1 DEF Quantum, Live
  <2>3. CASE p = current /\ state[p] = "READY" /\ executions[p] = Quantum(p)
    <3>1. executions'[p] = 0
      BY <1>5, <2>3, IdlePid DEF EnterNextProcess, SafetyInv, TypeOK
    <3> QED BY <1>3, <2>2, <3>1, SchedulerAssumption DEF Turn
  <2>4. CASE ~(p = current /\ state[p] = "READY" /\ executions[p] = Quantum(p))
    <3>1. executions'[p] = executions[p]
      BY <1>5, <2>4 DEF EnterNextProcess, SafetyInv, TypeOK
    <3>2. Live(p) => executions[p] \in 0..Quantum(p) /\ executions[p] < Quantum(p)
      BY <1>2, <1>3, <2>4, SchedulerAssumption DEF Turn
    <3> QED BY <2>2, <3>1, <3>2 DEF Turn
  <2> QED BY <2>3, <2>4
<1>6. CASE NextWrap \/ NextSkip \/ NextAllBlocked
  <2>1. UNCHANGED <<executions, priority>> /\ mode = "nextProcess"
    BY <1>6 DEF NextWrap, NextSkip, NextAllBlocked, procVars
  <2>2. Live(p)' => Live(p)
    BY <1>6, IdlePid
    DEF NextWrap, NextSkip, NextAllBlocked, unblock, Alive, procVars, Live, SafetyInv, TypeOK,
        ListWellFormed
  <2> QED BY <1>2, <2>1, <2>2, TurnKept
<1>7. CASE NextReap
  <2>1. CASE p = current
    BY <1>7, <2>1 DEF NextReap, Turn, Live, SafetyInv, TypeOK
  <2>2. CASE p # current
    <3>1. UNCHANGED <<executions[p], priority[p], state[p]>> /\ mode = "nextProcess"
      BY <1>7, <2>2 DEF NextReap, SafetyInv, TypeOK
    <3>2. Live(p)' => Live(p)
      BY <3>1 DEF Live
    <3> QED BY <1>2, <3>1, <3>2, TurnKept
  <2> QED BY <2>1, <2>2
<1>8. CASE NextRun
  <2>1. /\ UNCHANGED <<priority, current>> /\ mode = "nextProcess" /\ mode' = "user"
        /\ state[current] = "READY"
    BY <1>8 DEF NextRun, Runnable
  <2>2. (Live(p)' => Live(p)) /\ (p = current => state'[p] = "READY")
    <3>1. CASE UNCHANGED <<idleFlag, state>>
      BY <2>1, <3>1 DEF Live
    <3>2. CASE current # IDLE_PID /\ idleFlag' = 0 /\ state' = IdleBlocked
      BY <2>1, <3>2, IdlePid DEF IdleBlocked, Alive, Live, SafetyInv, TypeOK, ListWellFormed
    <3> QED BY <1>8, <3>1, <3>2 DEF NextRun
  <2>3. CASE p # current
    <3>1. executions'[p] = executions[p]
      BY <1>8, <2>3 DEF NextRun, SafetyInv, TypeOK
    <3> QED BY <1>2, <2>1, <2>2, <2>3, <3>1, TurnKept
  <2>4. CASE p = current
    <3>1. executions[p] \in 0..Quantum(p) /\ executions[p] < Quantum(p)
      BY <1>2, <2>1, <2>4 DEF Turn, Live
    <3>2. executions[p] + 1 \in 1..CHAR_MAX /\ executions[p] + 1 \in 0..Quantum(p)
      BY <1>3, <3>1, SchedulerAssumption
    <3>3. Char(executions[p] + 1) = executions[p] + 1
      BY <3>2, SmallChar
    <3>4. executions'[p] = executions[p] + 1
      BY <1>8, <2>4, <3>3 DEF NextRun, SafetyInv, TypeOK
    <3>5. Quantum(p)' = Quantum(p)
      BY <2>1 DEF Quantum
    <3> QED BY <2>1, <2>2, <2>4, <3>2, <3>4, <3>5 DEF Turn
  <2> QED BY <2>3, <2>4
<1> QED BY <1>4, <1>5, <1>6, <1>7, <1>8 DEF TimerHandler, nextProcess

\* No process gets more ticks in a turn than its quantum, for any quanta and any
\* number of processes, unless nice() or wait() let the count jump over the test.
THEOREM TurnsAreBounded == Spec => []QuantumRespected
<1>1. Init => SafetyInv /\ TurnInv
  BY SafetyInit, TurnInit
<1>2. SafetyInv /\ TurnInv /\ [Next]_vars => (SafetyInv /\ TurnInv)'
  <2> SUFFICES ASSUME SafetyInv, TurnInv, [Next]_vars PROVE TurnInv'
    BY SafetyNext
  <2>1. CASE Next
    BY <2>1, TurnCalls, TurnInterrupts, TurnHandler DEF Next
  <2>2. CASE UNCHANGED vars
    BY <2>2 DEF TurnInv, Turn, Quantum, Live, vars, procVars, cpuVars
  <2> QED BY <2>1, <2>2
<1>3. TurnInv => QuantumRespected
  BY DEF TurnInv, Turn, QuantumRespected, Jumps
<1> QED BY <1>1, <1>2, <1>3, PTL DEF Spec

-----------------------------------------------------------------------------
(* The idle process.                                                       *)

\* The idle process is the first of the list for as long as it is in it.
IdleFirst == state[IDLE_PID] # "NONE" => procs # << >> /\ procs[1] = IDLE_PID

\* It has ticks only in its turn, which no other process cuts short.
IdleTurn ==
  /\ executions[IDLE_PID] \in 0..Quantum(IDLE_PID)
  /\ mode = "nextProcess" => executions[IDLE_PID] < Quantum(IDLE_PID)
  /\ executions[IDLE_PID] # 0 => current = IDLE_PID /\ state[IDLE_PID] = "READY"

\* Where currentProcess is in the list; behind it when it is NULL.
Cursor == IF current = NULL THEN Len(procs) + 1 ELSE Position(current)

\* The positions that nextProcess has gone through since it left position m.
Passed(m) == {i \in 1..Len(procs) : IF Cursor > m THEN m <= i /\ i < Cursor ELSE m <= i \/ i < Cursor}

\* What it has gone through since the mark was not ready.
MarkRound ==
  mode = "nextProcess" /\ firstBlockedIteration # NULL =>
    \A i \in Passed(Position(firstBlockedIteration)) : state[procs[i]] = "READY" => procs[i] = IDLE_PID

\* After the idle process was made ready it either has its turn, or what comes
\* after it in the list was not ready when nextProcess went through.
IdleRound ==
  idleFlag = 1 =>
    /\ mode # "nextProcess" => current = IDLE_PID /\ executions[IDLE_PID] >= 1
    /\ mode = "nextProcess" /\ Quantum(IDLE_PID) = 1 /\ Live(IDLE_PID) =>
         \A i \in 2..Len(procs) : i < Cursor \/ Cursor = 1 => state[procs[i]] # "READY"

IdleInv == IdleFirst /\ IdleTurn /\ MarkRound /\ IdleRound

\* A process is in one place of the list.
LEMMA PositionFacts ==
  ASSUME SafetyInv
  PROVE  /\ Len(procs) \in Nat
         /\ \A i \in 1..Len(procs) : procs[i] \in Pid /\ state[procs[i]] # "NONE" /\ Position(procs[i]) = i
         /\ \A p \in Pid : state[p] # "NONE" => Position(p) \in 1..Len(procs) /\ procs[Position(p)] = p
<1>1. procs \in Seq(Pid) /\ Len(procs) \in Nat /\ \A i \in 1..Len(procs) : procs[i] \in Pid
  BY DEF SafetyInv, TypeOK
<1>2. \A i, j \in 1..Len(procs) : procs[i] = procs[j] => i = j
  BY DEF SafetyInv, ListWellFormed
<1>3. \A i \in 1..Len(procs) : state[procs[i]] # "NONE"
  BY <1>1 DEF SafetyInv, ListWellFormed, searchProcess
<1>4. \A p \in Pid : state[p] # "NONE" => Position(p) \in 1..Len(procs) /\ procs[Position(p)] = p
  BY NextOfFacts DEF SafetyInv
<1> QED BY <1>1, <1>2, <1>3, <1>4

\* Going on to the next process is one place further.
LEMMA CursorFacts ==
  ASSUME SafetyInv, current # NULL
  PROVE  /\ current \in Pid /\ state[current] # "NONE"
         /\ Cursor = Position(current) /\ Cursor \in 1..Len(procs) /\ procs[Cursor] = current
         /\ current' = NextOf(current) /\ procs' = procs => Cursor' = Cursor + 1
<1>1. current \in Pid /\ state[current] # "NONE"
  BY DEF SafetyInv, TypeOK, NoDanglingProcess
<1>2. Cursor = Position(current) /\ Cursor \in 1..Len(procs) /\ procs[Cursor] = current
  BY <1>1, PositionFacts DEF Cursor
<1>3. ASSUME current' = NextOf(current), procs' = procs
      PROVE  Cursor' = Cursor + 1
  <2>1. CASE Cursor < Len(procs)
    <3>1. Cursor + 1 \in 1..Len(procs) /\ current' = procs[Cursor + 1]
      BY <1>2, <1>3, <2>1, PositionFacts DEF NextOf
    <3>2. current' # NULL /\ Position(current') = Cursor + 1
      BY <3>1, PositionFacts, IdlePid
    <3> QED BY <1>3, <3>2 DEF Cursor, Position
  <2>2. CASE ~(Cursor < Len(procs))
    <3>1. current' = NULL /\ Cursor = Len(procs)
      BY <1>2, <1>3, <2>2, PositionFacts DEF NextOf
    <3> QED BY <1>3, <3>1 DEF Cursor
  <2> QED BY <2>1, <2>2
<1> QED BY <1>1, <1>2, <1>3

LEMMA IdleInit == Init => IdleInv
<1> SUFFICES ASSUME Init PROVE IdleInv
  OBVIOUS
<1>1. Quantum(IDLE_PID) \in 1..CHAR_MAX
  BY SafetyInit, QuantumIsChar, IdlePid DEF SafetyInv
<1>2. executions[IDLE_PID] = 0 /\ procs = <<IDLE_PID, INIT_PID>> /\ idleFlag = 2 /\ mode # "nextProcess"
  BY IdlePid DEF Init
<1> QED BY <1>1, <1>2, SchedulerAssumption DEF IdleInv, IdleFirst, IdleTurn, MarkRound, IdleRound

\* Only others than the idle process make calls, and its flag is down meanwhile.
LEMMA IdleCalls == SafetyInv /\ SafetyInv' /\ IdleInv /\ SystemCall => IdleInv'
<1> SUFFICES ASSUME SafetyInv, SafetyInv', IdleInv, SystemCall PROVE IdleInv'
  OBVIOUS
<1>1. mode = "user" /\ current # IDLE_PID /\ current \in Pid /\ IDLE_PID \in Pid /\ IDLE_PID # pids
  <2>1. mode = "user" /\ current # IDLE_PID
    BY DEF SystemCall, SysLoadProcess, SysKill, exitProcess, SysBlock, SysUnblock, SysNice,
           wait, blockIO, quitCPU, sleep, Calling
  <2>2. pids \in 3..(MaxPid + 1) /\ IDLE_PID = 1
    BY DEF SafetyInv, TypeOK, IDLE_PID
  <2>3. IDLE_PID # pids
    BY <2>2, SchedulerAssumption
  <2> QED BY <2>1, <2>3, UserFacts, IdlePid
<1>2. UNCHANGED <<current, idleFlag>> /\ mode' # "nextProcess"
  BY <1>1 DEF SystemCall, SysLoadProcess, SysKill, exitProcess, SysBlock, SysUnblock, SysNice,
         wait, blockIO, quitCPU, sleep, cpuVars, kill, block, forceTimer
<1>3. idleFlag # 1 /\ executions[IDLE_PID] = 0
  BY <1>1 DEF IdleInv, IdleRound, IdleTurn
<1>4. executions'[IDLE_PID] = 0
  <2>1. \/ UNCHANGED executions
        \/ \E p : executions' = [executions EXCEPT ![p] = 0]
        \/ executions' = [executions EXCEPT ![current] = Quantum(current)]
    BY DEF SystemCall, SysLoadProcess, SysKill, exitProcess, SysBlock, SysUnblock, SysNice,
           wait, blockIO, quitCPU, sleep, block, enqueueProcess
  <2> QED BY <1>1, <1>3, <2>1 DEF SafetyInv, TypeOK
<1>5. Quantum(IDLE_PID)' \in Nat
  <2>1. priority'[IDLE_PID] \in 0..(MAX_PRIORITY - 1)
    BY <1>1 DEF SafetyInv, TypeOK
  <2> QED BY <2>1, SchedulerAssumption DEF Quantum
<1>6. IdleFirst'
  <2>1. procs' = procs \/ procs' = Append(procs, pids)
    BY DEF SystemCall, SysLoadProcess, SysKill, exitProcess, SysBlock, SysUnblock, SysNice,
           wait, blockIO, quitCPU, sleep, enqueueProcess
  <2>2. state'[IDLE_PID] # "NONE" => state[IDLE_PID] # "NONE"
    <3>1. CASE state[IDLE_PID] = "NONE"
      <4>1. IDLE_PID < pids
        <5>1. pids \in 3..(MaxPid + 1) /\ IDLE_PID = 1
          BY DEF SafetyInv, TypeOK, IDLE_PID
        <5> QED BY <5>1, SchedulerAssumption
      <4>2. Buried(IDLE_PID)
        BY <1>1, CallsBury
      <4> QED BY <1>1, <3>1, <4>1, <4>2 DEF Buried
    <3> QED BY <3>1
  <2>3. procs # << >> => Append(procs, pids) # << >> /\ Append(procs, pids)[1] = procs[1]
    <3>1. procs \in Seq(Pid) /\ pids \in Int
      BY SchedulerAssumption DEF SafetyInv, TypeOK
    <3>2. procs # << >> => 1 <= Len(procs) /\ 1 \in 1..Len(procs) /\ 1 # Len(procs) + 1
      BY <3>1
    <3> QED BY <3>1, <3>2
  <2> QED BY <2>1, <2>2, <2>3 DEF IdleInv, IdleFirst
<1> QED BY <1>2, <1>3, <1>4, <1>5, <1>6 DEF IdleInv, IdleTurn, MarkRound, IdleRound

LEMMA IdleInterrupts ==
  SafetyInv /\ IdleInv /\ (TimerInterrupt \/ unblockIO \/ ClockSecond \/ wakeUp) => IdleInv'
<1> SUFFICES ASSUME SafetyInv, IdleInv, TimerInterrupt \/ unblockIO \/ ClockSecond \/ wakeUp
             PROVE  IdleInv'
  OBVIOUS
<1>1. /\ UNCHANGED <<procs, executions, priority, current, idleFlag, firstBlockedIteration>>
      /\ mode' = "nextProcess" => mode' = mode /\ state' = state
  BY DEF TimerInterrupt, unblockIO, ClockSecond, wakeUp, forceTimer, procVars, cpuVars
<1>2. /\ state[IDLE_PID] = "READY" => state'[IDLE_PID] = "READY"
      /\ state'[IDLE_PID] # "NONE" => state[IDLE_PID] # "NONE"
  <2>1. CASE wakeUp
    <3>1. sleeping[FirstDue].pid \in Pid
      BY <2>1, FirstDueFacts DEF wakeUp, SafetyInv, ScanInList
    <3> QED BY <2>1, <3>1, IdlePid DEF wakeUp, unblock, Alive, SafetyInv, TypeOK, ListWellFormed
  <2>2. CASE TimerInterrupt \/ unblockIO \/ ClockSecond
    BY <2>2, IdlePid DEF TimerInterrupt, unblockIO, ClockSecond, procVars, SafetyInv, TypeOK
  <2> QED BY <2>1, <2>2
<1>3. mode # "nextProcess" => mode' # "nextProcess"
  BY <1>1
<1>4. Quantum(IDLE_PID)' = Quantum(IDLE_PID)
  BY <1>1 DEF Quantum
<1>5. IdleFirst' /\ IdleTurn'
  BY <1>1, <1>2, <1>3, <1>4 DEF IdleInv, IdleFirst, IdleTurn
<1>6. mode' = "nextProcess" => UNCHANGED <<Cursor, Live(IDLE_PID)>> /\ state' = state
  BY <1>1 DEF Cursor, Position, Live
<1>7. MarkRound'
  <2>1. UNCHANGED <<Position(firstBlockedIteration), Cursor, procs>>
    BY <1>1 DEF Position, Cursor
  <2> QED BY <1>1, <2>1 DEF IdleInv, MarkRound, Passed
<1>8. IdleRound'
  <2>1. CASE mode' = "nextProcess"
    <3>1. UNCHANGED <<mode, idleFlag, procs, state, Cursor, Quantum(IDLE_PID), Live(IDLE_PID)>>
      BY <1>1, <1>4, <1>6, <2>1
    <3> QED BY <2>1, <3>1 DEF IdleInv, IdleRound
  <2>2. CASE mode' # "nextProcess"
    <3>1. mode # "nextProcess"
      BY <2>2 DEF TimerInterrupt, unblockIO, ClockSecond, wakeUp
    <3> QED BY <1>1, <2>2, <3>1 DEF IdleInv, IdleRound
  <2> QED BY <2>1, <2>2
<1> QED BY <1>5, <1>7, <1>8 DEF IdleInv

\* nextProcess starts after the idle process, which had one tick.
LEMMA IdleEnter == SafetyInv /\ IdleInv /\ EnterNextProcess => IdleInv'
<1> SUFFICES ASSUME SafetyInv, IdleInv, EnterNextProcess PROVE IdleInv'
  OBVIOUS
<1>1. /\ UNCHANGED <<procs, state, priority, idleFlag, firstBlockedIteration>>
      /\ mode = "checkSleeping" /\ mode' = "nextProcess"
  BY DEF EnterNextProcess
<1>2. firstBlockedIteration' = NULL
  BY <1>1 DEF SafetyInv, MarkInLoop
<1>3. /\ Quantum(IDLE_PID)' = Quantum(IDLE_PID) /\ Quantum(IDLE_PID) \in 1..CHAR_MAX
      /\ CHAR_MAX \in Nat /\ executions[IDLE_PID] \in 0..Quantum(IDLE_PID)
  BY <1>1, QuantumIsChar, IdlePid, SchedulerAssumption DEF Quantum, SafetyInv, IdleInv, IdleTurn
<1>4. IdleFirst'
  BY <1>1 DEF IdleInv, IdleFirst
<1>5. CASE current = IDLE_PID /\ state[IDLE_PID] = "READY" /\ executions[IDLE_PID] = Quantum(IDLE_PID)
  <2>1. executions'[IDLE_PID] = 0 /\ current' = NextOf(IDLE_PID)
    BY <1>5, IdlePid DEF EnterNextProcess, SafetyInv, TypeOK
  <2>2. IdleTurn'
    BY <1>3, <2>1 DEF IdleTurn
  <2>3. Cursor' = 2
    <3>1. procs # << >> /\ procs[1] = IDLE_PID
      BY <1>5 DEF IdleInv, IdleFirst
    <3>2. 1 \in 1..Len(procs)
      BY <3>1 DEF SafetyInv, TypeOK
    <3>3. current # NULL /\ Position(current) = 1
      BY <1>5, <3>1, <3>2, PositionFacts, IdlePid
    <3>4. Cursor = 1 /\ Cursor' = Cursor + 1
      BY <1>1, <1>5, <2>1, <3>3, CursorFacts
    <3> QED BY <3>4
  <2>4. IdleRound'
    BY <1>1, <2>3 DEF IdleRound
  <2> QED BY <1>2, <1>4, <2>2, <2>4 DEF IdleInv, MarkRound
<1>6. CASE ~(current = IDLE_PID /\ state[IDLE_PID] = "READY" /\ executions[IDLE_PID] = Quantum(IDLE_PID))
  <2>1. executions'[IDLE_PID] = executions[IDLE_PID]
    BY <1>6, IdlePid DEF EnterNextProcess, SafetyInv, TypeOK
  <2>2. executions[IDLE_PID] # 0 => current' = current
    BY <1>6 DEF EnterNextProcess, IdleInv, IdleTurn
  <2>3. executions[IDLE_PID] < Quantum(IDLE_PID)
    BY <1>3, <1>6 DEF IdleInv, IdleTurn
  <2>4. IdleTurn'
    BY <1>1, <1>3, <2>1, <2>2, <2>3 DEF IdleInv, IdleTurn
  <2>5. idleFlag' = 1 => Quantum(IDLE_PID)' # 1
    BY <1>1, <1>3, <2>3 DEF IdleInv, IdleRound
  <2>6. IdleRound'
    BY <1>1, <2>5 DEF IdleRound
  <2> QED BY <1>2, <1>4, <2>4, <2>6 DEF IdleInv, MarkRound
<1> QED BY <1>5, <1>6

\* The loop comes back to the head of the list.
LEMMA IdleWrap == SafetyInv /\ IdleInv /\ NextWrap => IdleInv'
<1> SUFFICES ASSUME SafetyInv, IdleInv, NextWrap PROVE IdleInv'
  OBVIOUS
<1>1. /\ UNCHANGED <<procs, state, priority, executions, idleFlag, firstBlockedIteration, mode>>
      /\ current = NULL /\ current' = IF procs = << >> THEN NULL ELSE procs[1]
      /\ mode = "nextProcess"
  BY DEF NextWrap, procVars
<1>2. Cursor = Len(procs) + 1 /\ (procs # << >> => Cursor' = 1)
  <2>1. ASSUME procs # << >>
        PROVE  Cursor' = 1
    <3>1. 1 \in 1..Len(procs)
      BY <2>1 DEF SafetyInv, TypeOK
    <3>2. procs[1] # NULL /\ Position(procs[1]) = 1
      BY <3>1, PositionFacts, IdlePid
    <3> QED BY <1>1, <2>1, <3>2 DEF Cursor, Position
  <2> QED BY <1>1, <2>1 DEF Cursor
<1>3. IdleFirst' /\ IdleTurn'
  BY <1>1, IdlePid DEF IdleInv, IdleFirst, IdleTurn, Quantum
<1>4. MarkRound'
  <2>1. SUFFICES ASSUME firstBlockedIteration # NULL PROVE MarkRound'
    BY <1>1 DEF MarkRound
  <2> DEFINE m == Position(firstBlockedIteration)
  <2>2. firstBlockedIteration \in Pid /\ state[firstBlockedIteration] # "NONE"
    BY <2>1 DEF SafetyInv, TypeOK, NoDanglingProcess, Live
  <2>3. m \in 1..Len(procs) /\ Len(procs) \in Nat /\ procs # << >> /\ m' = m
    BY <1>1, <2>2, PositionFacts DEF Position
  <2>4. Passed(m)' \subseteq Passed(m)
    BY <1>1, <1>2, <2>3 DEF Passed
  <2> QED BY <1>1, <2>1, <2>3, <2>4 DEF IdleInv, MarkRound
<1>5. IdleRound'
  <2>1. \A i \in 2..Len(procs) : i < Cursor
    BY <1>2, PositionFacts
  <2> QED BY <1>1, <2>1 DEF IdleInv, IdleRound, Quantum, Live
<1> QED BY <1>3, <1>4, <1>5 DEF IdleInv

\* A process that is not ready is left behind, and marked when it is the first.
LEMMA IdleSkip == SafetyInv /\ IdleInv /\ NextSkip => IdleInv'
<1> SUFFICES ASSUME SafetyInv, IdleInv, NextSkip PROVE IdleInv'
  OBVIOUS
<1>1. /\ UNCHANGED <<procs, state, priority, executions, idleFlag, mode>>
      /\ current # NULL /\ current # firstBlockedIteration /\ state[current] # "READY"
      /\ current' = NextOf(current) /\ mode = "nextProcess"
      /\ firstBlockedIteration' = IF firstBlockedIteration = NULL THEN current ELSE firstBlockedIteration
  BY DEF NextSkip, procVars
<1>2. /\ Cursor = Position(current) /\ Cursor \in 1..Len(procs) /\ procs[Cursor] = current
      /\ Cursor' = Cursor + 1 /\ Len(procs) \in Nat
  BY <1>1, CursorFacts, PositionFacts
<1>3. IdleFirst' /\ IdleTurn'
  BY <1>1 DEF IdleInv, IdleFirst, IdleTurn, Quantum
<1>4. MarkRound'
  <2>1. CASE firstBlockedIteration = NULL
    <3>1. Position(firstBlockedIteration)' = Cursor
      BY <1>1, <1>2, <2>1 DEF Position
    <3>2. Passed(Position(firstBlockedIteration))' \subseteq {Cursor}
      BY <1>1, <1>2, <3>1 DEF Passed
    <3> QED BY <1>1, <1>2, <3>2 DEF MarkRound
  <2>2. CASE firstBlockedIteration # NULL
    <3> DEFINE m == Position(firstBlockedIteration)
    <3>1. firstBlockedIteration \in Pid /\ state[firstBlockedIteration] # "NONE"
      BY <2>2 DEF SafetyInv, TypeOK, NoDanglingProcess, Live
    <3>2. m \in 1..Len(procs) /\ procs[m] = firstBlockedIteration /\ m # Cursor
      BY <1>1, <1>2, <3>1, PositionFacts
    <3>3. m' = m /\ firstBlockedIteration' = firstBlockedIteration
      BY <1>1, <2>2 DEF Position
    <3>4. Passed(m)' \subseteq Passed(m) \union {Cursor}
      BY <1>1, <1>2, <3>2, <3>3 DEF Passed
    <3> QED BY <1>1, <1>2, <2>2, <3>3, <3>4 DEF IdleInv, MarkRound
  <2> QED BY <2>1, <2>2
<1>5. IdleRound'
  <2>1. \A i \in 2..Len(procs) : i < Cursor' \/ Cursor' = 1 => i < Cursor \/ i = Cursor
    BY <1>2
  <2> QED BY <1>1, <1>2, <2>1 DEF IdleInv, IdleRound, Quantum, Live
<1> QED BY <1>3, <1>4, <1>5 DEF IdleInv

\* Back at the mark, nextProcess has found nothing ready but the idle process.
LEMMA IdleAllBlocked == SafetyInv /\ IdleInv /\ NextAllBlocked => IdleInv'
<1> SUFFICES ASSUME SafetyInv, IdleInv, NextAllBlocked PROVE IdleInv'
  OBVIOUS
<1>1. /\ UNCHANGED <<procs, priority, executions, firstBlockedIteration, mode>>
      /\ current # NULL /\ current = firstBlockedIteration /\ state[current] # "READY"
      /\ mode = "nextProcess"
  BY DEF NextAllBlocked, Runnable
<1>2. /\ \A p \in Pid : p # IDLE_PID => state'[p] = state[p]
      /\ state'[IDLE_PID] # "NONE" => state[IDLE_PID] # "NONE"
  BY IdlePid DEF NextAllBlocked, unblock, Alive, SafetyInv, TypeOK, ListWellFormed
<1>3. /\ Cursor = Position(current) /\ Len(procs) \in Nat
      /\ \A i \in 1..Len(procs) : procs[i] \in Pid /\ Position(procs[i]) = i
  BY <1>1, CursorFacts, PositionFacts
<1>4. \A i \in 1..Len(procs) : state'[procs[i]] = "READY" => procs[i] = IDLE_PID
  <2>1. Passed(Position(firstBlockedIteration)) = 1..Len(procs)
    BY <1>1, <1>3, CursorFacts DEF Passed
  <2> QED BY <1>1, <1>2, <1>3, <2>1 DEF IdleInv, MarkRound
<1>5. IdleFirst' /\ IdleTurn'
  BY <1>1, <1>2 DEF IdleInv, IdleFirst, IdleTurn, Quantum
<1>6. MarkRound'
  BY <1>1, <1>4 DEF MarkRound, Passed
<1>7. IdleRound'
  <2>1. ASSUME Live(IDLE_PID)', NEW i \in 2..Len(procs)
        PROVE  state'[procs[i]] # "READY"
    <3>1. procs[1] = IDLE_PID /\ i \in 1..Len(procs) /\ 1 \in 1..Len(procs) /\ i # 1
      BY <1>2, <1>3, <2>1 DEF Live, IdleInv, IdleFirst
    <3> QED BY <1>3, <1>4, <3>1
  <2> QED BY <1>1, <2>1 DEF IdleRound
<1> QED BY <1>5, <1>6, <1>7 DEF IdleInv

\* Freeing a dead process moves what comes after it one place back.
LEMMA IdleReap == SafetyInv /\ SafetyInv' /\ IdleInv /\ NextReap => IdleInv'
<1> SUFFICES ASSUME SafetyInv, SafetyInv', IdleInv, NextReap PROVE IdleInv'
  OBVIOUS
<1> DEFINE c == Position(current)
           Old(i) == IF i < c THEN i ELSE i + 1
<1>1. /\ UNCHANGED <<idleFlag, firstBlockedIteration, mode>> /\ mode = "nextProcess"
      /\ current # NULL /\ current # firstBlockedIteration /\ state[current] = "DEAD"
      /\ current' = NextOf(current) /\ procs' = RemoveAt(procs, c)
  BY DEF NextReap, removeProcess
<1>2. /\ current \in Pid /\ Cursor = c /\ c \in 1..Len(procs) /\ procs[c] = current
      /\ Len(procs) \in Nat
      /\ \A i \in 1..Len(procs) : procs[i] \in Pid /\ Position(procs[i]) = i
  BY <1>1, CursorFacts, PositionFacts
<1>3. /\ state'[current] = "NONE" /\ executions'[current] = 0 /\ priority'[current] = 0
      /\ \A p \in Pid : p # current => UNCHANGED <<state[p], executions[p], priority[p]>>
  BY <1>2 DEF NextReap, SafetyInv, TypeOK
<1>4. /\ Len(procs') = Len(procs) - 1
      /\ \A i \in 1..Len(procs') : Old(i) \in 1..Len(procs) /\ Old(i) # c /\ procs'[i] = procs[Old(i)]
  <2>1. procs \in Seq(Pid)
    BY DEF SafetyInv, TypeOK
  <2>2. /\ Len(procs') = Len(procs) - 1
        /\ \A i \in 1..(Len(procs) - 1) : procs'[i] = IF i < c THEN procs[i] ELSE procs[i + 1]
    BY <1>1, <1>2, <2>1, RemoveAtFacts
  <2>3. \A i \in 1..(Len(procs) - 1) : Old(i) \in 1..Len(procs) /\ Old(i) # c
    BY <1>2
  <2> QED BY <2>2, <2>3
<1>5. \A i \in 1..Len(procs') : procs'[i] # current /\ state'[procs'[i]] = state[procs[Old(i)]]
  BY <1>2, <1>3, <1>4
<1>6. \A p \in Pid : \A i \in 1..Len(procs') : procs'[i] = p => Position(p)' = i
  <2>1. \A i, j \in 1..Len(procs') : procs'[i] = procs'[j] => i = j
    BY DEF SafetyInv, ListWellFormed
  <2> QED BY <2>1 DEF Position
<1>7. Cursor' = c
  <2>1. CASE c < Len(procs)
    <3>1. c \in 1..Len(procs') /\ Old(c) = c + 1
      BY <1>2, <1>4, <2>1
    <3>2. current' = procs'[c] /\ current' \in Pid
      BY <1>1, <1>2, <1>4, <2>1, <3>1 DEF NextOf
    <3>3. current' # NULL /\ Position(current)' = c
      BY <1>6, <3>1, <3>2, IdlePid DEF Position
    <3> QED BY <3>3 DEF Cursor
  <2>2. CASE ~(c < Len(procs))
    BY <1>1, <1>2, <1>4, <2>2 DEF NextOf, Cursor
  <2> QED BY <2>1, <2>2
<1>8. IDLE_PID # current => executions[IDLE_PID] = 0
  BY DEF IdleInv, IdleTurn
<1>9. state'[IDLE_PID] # "NONE" => /\ IDLE_PID # current /\ state[IDLE_PID] # "NONE"
                                   /\ procs[1] = IDLE_PID /\ c # 1
  BY <1>2, <1>3, IdlePid DEF IdleInv, IdleFirst
<1>10. IdleFirst'
  <2>1. SUFFICES ASSUME state'[IDLE_PID] # "NONE" PROVE procs' # << >> /\ procs'[1] = IDLE_PID
    BY DEF IdleFirst
  <2>2. 1 \in 1..Len(procs') /\ Old(1) = 1
    BY <1>2, <1>4, <1>9, <2>1
  <2>3. procs' # << >>
    BY <2>2
  <2> QED BY <1>4, <1>9, <2>1, <2>2, <2>3
<1>11. IdleTurn'
  <2>1. Quantum(IDLE_PID)' \in Nat /\ 0 < Quantum(IDLE_PID)'
    <3>1. priority'[IDLE_PID] \in 0..(MAX_PRIORITY - 1)
      BY IdlePid DEF SafetyInv, TypeOK
    <3> QED BY <3>1, SchedulerAssumption DEF Quantum
  <2>2. executions'[IDLE_PID] = 0
    BY <1>3, <1>8, IdlePid
  <2> QED BY <2>1, <2>2 DEF IdleTurn
<1>12. MarkRound'
  <2>1. SUFFICES ASSUME firstBlockedIteration # NULL PROVE MarkRound'
    BY <1>1 DEF MarkRound
  <2> DEFINE m == Position(firstBlockedIteration)
  <2>2. firstBlockedIteration \in Pid /\ state[firstBlockedIteration] # "NONE"
    BY <2>1 DEF SafetyInv, TypeOK, NoDanglingProcess, Live
  <2>3. m \in 1..Len(procs) /\ procs[m] = firstBlockedIteration /\ m # c
    BY <1>1, <1>2, <2>2, PositionFacts
  <2>4. m' = IF m < c THEN m ELSE m - 1
    <3> DEFINE n == IF m < c THEN m ELSE m - 1
    <3>1. n \in 1..Len(procs') /\ Old(n) = m
      BY <1>2, <1>4, <2>3
    <3>2. procs'[n] = firstBlockedIteration'
      BY <1>1, <1>4, <2>3, <3>1
    <3> QED BY <1>6, <3>1, <3>2 DEF Position
  <2>5. \A i \in Passed(m)' : i \in 1..Len(procs') /\ Old(i) \in Passed(m)
    BY <1>2, <1>4, <1>7, <2>3, <2>4 DEF Passed
  <2> QED BY <1>1, <1>4, <1>5, <2>1, <2>5 DEF IdleInv, MarkRound
<1>13. IdleRound'
  <2>1. SUFFICES ASSUME idleFlag = 1, Quantum(IDLE_PID)' = 1, Live(IDLE_PID)',
                        NEW i \in 2..Len(procs'), i < Cursor' \/ Cursor' = 1
                 PROVE  state'[procs'[i]] # "READY"
    BY <1>1 DEF IdleRound
  <2>2. IDLE_PID # current /\ c # 1
    BY <1>9, <2>1 DEF Live
  <2>3. Live(IDLE_PID) /\ Quantum(IDLE_PID) = 1
    BY <1>3, <2>1, <2>2, IdlePid DEF Live, Quantum
  <2>4. i < c /\ Old(i) = i /\ i \in 2..Len(procs) /\ i \in 1..Len(procs')
    BY <1>2, <1>4, <1>7, <2>1, <2>2
  <2>5. state[procs[i]] # "READY"
    BY <1>1, <1>2, <2>1, <2>3, <2>4 DEF IdleInv, IdleRound
  <2> QED BY <1>5, <2>4, <2>5
<1> QED BY <1>10, <1>11, <1>12, <1>13 DEF IdleInv

\* The loop ends; the idle process is put to rest or begins its turn.
LEMMA IdleRun == SafetyInv /\ IdleInv /\ NextRun => IdleInv'
<1> SUFFICES ASSUME SafetyInv, IdleInv, NextRun PROVE IdleInv'
  OBVIOUS
<1>1. /\ UNCHANGED <<procs, priority, current>> /\ mode = "nextProcess" /\ mode' = "user"
      /\ current \in Pid /\ state[current] = "READY"
  BY DEF NextRun, Runnable, SafetyInv, TypeOK
<1>2. IdleFirst'
  <2>1. state'[IDLE_PID] # "NONE" => state[IDLE_PID] # "NONE"
    BY IdlePid DEF NextRun, IdleBlocked, Alive, SafetyInv, TypeOK, ListWellFormed
  <2> QED BY <1>1, <2>1 DEF IdleInv, IdleFirst
<1>3. Quantum(IDLE_PID)' = Quantum(IDLE_PID) /\ Quantum(IDLE_PID) \in 1..CHAR_MAX /\ CHAR_MAX \in Nat
  BY <1>1, QuantumIsChar, IdlePid, SchedulerAssumption DEF Quantum, SafetyInv
<1>4. CASE current = IDLE_PID
  <2>1. executions[IDLE_PID] \in 0..Quantum(IDLE_PID) /\ executions[IDLE_PID] < Quantum(IDLE_PID)
    BY <1>1 DEF IdleInv, IdleTurn
  <2>2. executions[IDLE_PID] + 1 \in 0..CHAR_MAX /\ executions[IDLE_PID] + 1 \in 1..Quantum(IDLE_PID)
    BY <1>3, <2>1
  <2>3. executions'[IDLE_PID] = executions[IDLE_PID] + 1 /\ state' = state
    BY <1>1, <1>4, <2>2, SmallChar DEF NextRun, SafetyInv, TypeOK
  <2>4. IdleTurn' /\ IdleRound'
    BY <1>1, <1>3, <1>4, <2>2, <2>3 DEF IdleTurn, IdleRound
  <2> QED BY <1>1, <1>2, <2>4 DEF IdleInv, MarkRound
<1>5. CASE current # IDLE_PID
  <2>1. executions'[IDLE_PID] = 0
    BY <1>1, <1>5, IdlePid DEF NextRun, IdleInv, IdleTurn, SafetyInv, TypeOK
  <2>2. idleFlag' = 0
    BY <1>5 DEF NextRun
  <2>3. IdleTurn' /\ IdleRound'
    BY <1>1, <1>3, <2>1, <2>2 DEF IdleTurn, IdleRound
  <2> QED BY <1>1, <1>2, <2>3 DEF IdleInv, MarkRound
<1> QED BY <1>4, <1>5

LEMMA IdleNext == SafetyInv /\ IdleInv /\ [Next]_vars => IdleInv'
<1> SUFFICES ASSUME SafetyInv, IdleInv, [Next]_vars PROVE IdleInv'
  OBVIOUS
<1>1. SafetyInv'
  BY SafetyNext
<1>2. CASE Next
  BY <1>1, <1>2, IdleCalls, IdleInterrupts, IdleEnter, IdleWrap, IdleSkip, IdleAllBlocked,
     IdleReap, IdleRun DEF Next, TimerHandler, nextProcess
<1>3. CASE UNCHANGED vars
  <2>1. UNCHANGED <<procs, state, priority, executions, current, idleFlag, firstBlockedIteration, mode>>
    BY <1>3 DEF vars, procVars, cpuVars
  <2>2. UNCHANGED <<Cursor, Position(firstBlockedIteration), Quantum(IDLE_PID), Live(IDLE_PID)>>
    BY <2>1 DEF Cursor, Position, Quantum, Live
  <2> QED BY <2>1, <2>2 DEF IdleInv, IdleFirst, IdleTurn, MarkRound, IdleRound, Passed
<1> QED BY <1>2, <1>3

\* The idle process makes no calls: it waits for nothing, and until somebody
\* unblocks it, it is ready only while nextProcess has raised its flag.
IdleStill ==
  /\ state[IDLE_PID] \notin {"WAITING", "BLOCKEDIO"}
  /\ \A i \in 1..Len(sleeping) : sleeping[i].pid # IDLE_PID
  /\ idleFlag = 0 /\ "wakeIdle" \notin lapses => state[IDLE_PID] # "READY"

\* A step that leaves the state of the idle process, or only takes it from ready.
LEMMA StillStep ==
  ASSUME IdleStill, lapses \subseteq lapses', idleFlag' = idleFlag, sleeping' = sleeping,
         state'[IDLE_PID] \in {state[IDLE_PID], "BLOCKED", "DEAD", "NONE"}
  PROVE  IdleStill'
BY DEF IdleStill

LEMMA StillCalls == SafetyInv /\ IdleStill /\ SystemCall => IdleStill'
<1> SUFFICES ASSUME SafetyInv, IdleStill, SystemCall PROVE IdleStill'
  OBVIOUS
<1>1. mode = "user" /\ current # IDLE_PID
  BY DEF SystemCall, SysLoadProcess, SysKill, exitProcess, SysBlock, SysUnblock, SysNice,
         wait, blockIO, quitCPU, sleep, Calling
<1>2. current \in Pid /\ IDLE_PID \in Pid /\ IDLE_PID # pids /\ state \in [Pid -> States]
  <2>1. pids \in 3..(MaxPid + 1) /\ IDLE_PID = 1
    BY DEF SafetyInv, TypeOK, IDLE_PID
  <2>2. IDLE_PID # pids
    BY <2>1, SchedulerAssumption
  <2> QED BY <1>1, <2>2, UserFacts, IdlePid DEF SafetyInv, TypeOK
<1>3. idleFlag' = idleFlag /\ lapses \subseteq lapses'
  BY DEF SystemCall, SysLoadProcess, SysKill, exitProcess, SysBlock, SysUnblock, SysNice,
         wait, blockIO, quitCPU, sleep, cpuVars, kill, nice
<1>4. CASE SysLoadProcess
  <2>1. state'[IDLE_PID] \in {state[IDLE_PID], "BLOCKED"} /\ sleeping' = sleeping
    BY <1>2, <1>4 DEF SysLoadProcess, enqueueProcess, IdleBlocked
  <2> QED BY <1>3, <2>1, StillStep
<1>5. CASE SysKill \/ exitProcess
  <2>1. PICK pid \in Pid : kill(pid)
    BY <1>2, <1>5 DEF SysKill, exitProcess
  <2>2. sleeping' = sleeping
    BY <1>5 DEF SysKill, exitProcess
  <2>3. state'[IDLE_PID] \in {state[IDLE_PID], "DEAD"}
    <3>1. \/ state' = [state EXCEPT ![pid] = "DEAD"]
          \/ state[ppid[pid]] = "WAITING" /\ state' = [state EXCEPT ![ppid[pid]] = "READY", ![pid] = "DEAD"]
      BY <2>1 DEF kill
    <3> QED BY <1>2, <3>1 DEF IdleStill
  <2> QED BY <1>3, <2>2, <2>3, StillStep
<1>6. CASE SysBlock
  <2>1. state'[IDLE_PID] \in {state[IDLE_PID], "BLOCKED"} /\ sleeping' = sleeping
    BY <1>2, <1>6 DEF SysBlock, block
  <2> QED BY <1>3, <2>1, StillStep
<1>7. CASE SysUnblock
  <2>1. PICK pid \in Pid :
          /\ unblock(pid)
          /\ lapses' = IF pid = IDLE_PID THEN lapses \union {"wakeIdle"} ELSE lapses
    BY <1>7 DEF SysUnblock
  <2>2. state' = [state EXCEPT ![pid] = "READY"] /\ sleeping' = sleeping
    BY <1>7, <2>1 DEF unblock, SysUnblock
  <2>3. CASE pid = IDLE_PID
    BY <1>2, <1>3, <2>1, <2>2, <2>3 DEF IdleStill
  <2>4. CASE pid # IDLE_PID
    BY <1>2, <1>3, <2>1, <2>2, <2>4, StillStep
  <2> QED BY <2>3, <2>4
<1>8. CASE SysNice \/ quitCPU
  BY <1>3, <1>8, StillStep DEF SysNice, quitCPU
<1>9. CASE wait \/ blockIO
  <2>1. state'[IDLE_PID] = state[IDLE_PID] /\ sleeping' = sleeping
    BY <1>1, <1>2, <1>9 DEF wait, blockIO
  <2> QED BY <1>3, <2>1, StillStep
<1>10. CASE sleep
  <2>1. PICK secs \in 0..MaxSecs : sleeping' = <<[pid |-> current, left |-> secs]>> \o sleeping
    BY <1>10 DEF sleep
  <2>2. sleeping \in Seq([pid : Pid, left : 0..MaxSecs])
    BY DEF SafetyInv, TypeOK
  <2>3. \A i \in 1..Len(sleeping') : sleeping'[i].pid # IDLE_PID
    <3>1. ASSUME NEW i \in 1..Len(sleeping') PROVE sleeping'[i].pid # IDLE_PID
      <4>1. Len(sleeping') = Len(sleeping) + 1
        BY <1>2, <2>1, <2>2
      <4>2. sleeping'[i] = IF i = 1 THEN [pid |-> current, left |-> secs] ELSE sleeping[i - 1]
        BY <1>2, <2>1, <2>2, <4>1
      <4>3. i # 1 => i - 1 \in 1..Len(sleeping)
        BY <2>2, <4>1
      <4> QED BY <1>1, <4>2, <4>3 DEF IdleStill
    <3> QED BY <3>1
  <2>4. state'[IDLE_PID] = state[IDLE_PID]
    BY <1>1, <1>2, <1>10 DEF sleep, block
  <2> QED BY <1>3, <2>3, <2>4 DEF IdleStill
<1> QED BY <1>4, <1>5, <1>6, <1>7, <1>8, <1>9, <1>10 DEF SystemCall

LEMMA StillInterrupts ==
  SafetyInv /\ IdleStill /\ (TimerInterrupt \/ unblockIO \/ ClockSecond \/ wakeUp) => IdleStill'
<1> SUFFICES ASSUME SafetyInv, IdleStill, TimerInterrupt \/ unblockIO \/ ClockSecond \/ wakeUp
             PROVE  IdleStill'
  OBVIOUS
<1>1. state \in [Pid -> States] /\ IDLE_PID \in Pid
  BY IdlePid DEF SafetyInv, TypeOK
<1>2. CASE TimerInterrupt \/ unblockIO
  <2>1. /\ lapses' = lapses /\ idleFlag' = idleFlag /\ sleeping' = sleeping
        /\ state'[IDLE_PID] = state[IDLE_PID]
    BY <1>1, <1>2 DEF TimerInterrupt, unblockIO, procVars, cpuVars, IdleStill
  <2> QED BY <2>1, StillStep
<1>3. CASE ClockSecond
  <2>1. Len(sleeping') = Len(sleeping) /\ \A i \in 1..Len(sleeping) : sleeping'[i].pid = sleeping[i].pid
    <3> DEFINE n == Len(sleeping)
    <3>1. n \in Nat /\ \A i \in 1..n : sleeping[i] \in [pid : Pid, left : 0..MaxSecs]
      BY LenProperties, ElementOfSeq DEF SafetyInv, TypeOK
    <3>2. \A i \in 1..n : [sleeping[i] EXCEPT !.left = IF @ > 0 THEN @ - 1 ELSE 0].pid = sleeping[i].pid
      BY <3>1
    <3>3. \A i \in 1..n : sleeping'[i].pid = sleeping[i].pid
      BY <1>3, <3>2 DEF ClockSecond
    <3>4. DOMAIN sleeping' = 1..n
      BY <1>3 DEF ClockSecond
    <3>5. Len(sleeping') = n
      <4>1. sleeping' \in Seq([pid : Pid, left : 0..MaxSecs])
        BY <1>3, ClockSafe DEF SafetyInv, TypeOK
      <4> QED BY <3>1, <3>4, <4>1, LenProperties
    <3> QED BY <3>3, <3>5
  <2> QED BY <1>3, <2>1 DEF ClockSecond, procVars, cpuVars, IdleStill
<1>4. CASE wakeUp
  <2> DEFINE i == FirstDue
  <2>1. i \in 1..Len(sleeping) /\ sleeping \in Seq([pid : Pid, left : 0..MaxSecs])
    BY <1>4, FirstDueFacts DEF wakeUp, SafetyInv, TypeOK, ScanInList
  <2>2. sleeping' = RemoveAt(sleeping, i) /\ idleFlag' = idleFlag /\ lapses' = lapses
    BY <1>4 DEF wakeUp, cpuVars
  <2>3. /\ Len(sleeping') = Len(sleeping) - 1
        /\ \A j \in 1..(Len(sleeping) - 1) : sleeping'[j] = IF j < i THEN sleeping[j] ELSE sleeping[j + 1]
    BY <2>1, <2>2, RemoveAtFacts
  <2>4. \A j \in 1..Len(sleeping') : sleeping'[j].pid # IDLE_PID
    <3>1. \A j \in 1..(Len(sleeping) - 1) : j \in 1..Len(sleeping) /\ j + 1 \in 1..Len(sleeping)
      BY <2>1
    <3> QED BY <2>3, <3>1 DEF IdleStill
  <2>5. state'[IDLE_PID] = state[IDLE_PID]
    <3>1. sleeping[i].pid # IDLE_PID
      BY <2>1 DEF IdleStill
    <3> QED BY <1>1, <1>4, <3>1 DEF wakeUp, unblock
  <2> QED BY <2>2, <2>4, <2>5 DEF IdleStill
<1> QED BY <1>2, <1>3, <1>4

LEMMA StillHandler == SafetyInv /\ IdleStill /\ nextProcess => IdleStill'
<1> SUFFICES ASSUME SafetyInv, IdleStill, nextProcess PROVE IdleStill'
  OBVIOUS
<1>1. /\ state \in [Pid -> States] /\ IDLE_PID \in Pid
      /\ current \in Pid \union {NULL} /\ lapses' = lapses /\ sleeping' = sleeping
  BY IdlePid DEF SafetyInv, TypeOK, nextProcess, EnterNextProcess, NextWrap, NextAllBlocked,
     NextReap, NextSkip, NextRun
<1>2. CASE EnterNextProcess \/ NextWrap \/ NextSkip \/ NextReap
  <2>1. idleFlag' = idleFlag /\ state'[IDLE_PID] \in {state[IDLE_PID], "NONE"}
    BY <1>1, <1>2 DEF EnterNextProcess, NextWrap, NextSkip, NextReap, procVars
  <2> QED BY <1>1, <2>1, StillStep
<1>3. CASE NextAllBlocked
  <2>1. idleFlag' = 1 /\ state'[IDLE_PID] \in {state[IDLE_PID], "READY"}
    BY <1>1, <1>3 DEF NextAllBlocked, unblock
  <2> QED BY <1>1, <2>1 DEF IdleStill
<1>4. CASE NextRun
  <2>1. CASE current # IDLE_PID /\ idleFlag # 0
    <3>1. idleFlag' = 0 /\ state' = IdleBlocked
      BY <1>4, <2>1 DEF NextRun
    <3>2. state'[IDLE_PID] \in {"BLOCKED", "DEAD", "NONE"}
      BY <1>1, <3>1 DEF IdleBlocked, Alive, SafetyInv, ListWellFormed
    <3> QED BY <1>1, <3>2 DEF IdleStill
  <2>2. CASE ~(current # IDLE_PID /\ idleFlag # 0)
    BY <1>1, <1>4, <2>2, StillStep DEF NextRun
  <2> QED BY <2>1, <2>2
<1> QED BY <1>2, <1>3, <1>4 DEF nextProcess

LEMMA StillNext == SafetyInv /\ IdleStill /\ [Next]_vars => IdleStill'
<1> SUFFICES ASSUME SafetyInv, IdleStill, [Next]_vars PROVE IdleStill'
  OBVIOUS
<1>1. CASE Next
  BY <1>1, StillCalls, StillInterrupts, StillHandler DEF Next, TimerHandler
<1>2. CASE UNCHANGED vars
  BY <1>2 DEF vars, procVars, cpuVars, IdleStill
<1> QED BY <1>1, <1>2

\* Once the first user process has run, nextProcess runs the idle process only
\* when nothing else is ready, whatever the list, the calls and the interrupts,
\* unless the idle process was itself unblocked by a call or nice() has lengthened
\* its turn: it is ready only with its flag up (IdleStill), and the flag is up only
\* after a whole round over the list found nothing ready (IdleInv).
THEOREM IdleRunsLast == Spec => IdleIsLastResort
<1> DEFINE Chosen == /\ mode = "nextProcess" /\ mode' = "user" /\ current = IDLE_PID
                     /\ idleFlag # 2 /\ "wakeIdle" \notin lapses /\ Quantum(IDLE_PID) = 1
           Nothing == \A p \in Pid : state[p] = "READY" => p = IDLE_PID
<1>1. Init => SafetyInv /\ IdleInv /\ IdleStill
  <2>1. Init => IdleStill
    <3> SUFFICES ASSUME Init PROVE IdleStill
      OBVIOUS
    <3>1. state[IDLE_PID] = "READY" /\ idleFlag = 2
      BY IdlePid DEF Init
    <3>2. sleeping = << >> /\ Len(sleeping) = 0
      BY DEF Init
    <3> QED BY <3>1, <3>2 DEF IdleStill
  <2> QED BY <2>1, SafetyInit, IdleInit
<1>2. SafetyInv /\ IdleInv /\ IdleStill /\ [Next]_vars => (SafetyInv /\ IdleInv /\ IdleStill)'
  BY SafetyNext, IdleNext, StillNext
<1>3. ASSUME SafetyInv, IdleInv, IdleStill, [Next]_vars, Chosen PROVE Nothing
  <2>1. NextRun
    BY <1>3 DEF Next, SystemCall, SysLoadProcess, SysKill, exitProcess, SysBlock, SysUnblock, SysNice,
           wait, blockIO, quitCPU, sleep, Calling, TimerInterrupt, unblockIO, ClockSecond, TimerHandler,
           wakeUp, nextProcess, EnterNextProcess, NextWrap, NextAllBlocked, NextReap, NextSkip, vars
  <2>2. state[IDLE_PID] = "READY" /\ current # NULL /\ idleFlag = 1
    BY <1>3, <2>1 DEF NextRun, Runnable, IdleStill, SafetyInv, TypeOK
  <2>3. procs[1] = IDLE_PID /\ 1 \in 1..Len(procs) /\ Cursor = 1
    <3>1. procs # << >> /\ procs[1] = IDLE_PID
      BY <1>3, <2>2 DEF IdleInv, IdleFirst
    <3>2. 1 \in 1..Len(procs)
      BY <1>3, <3>1 DEF SafetyInv, TypeOK
    <3> QED BY <1>3, <2>2, <3>1, <3>2, PositionFacts, CursorFacts
  <2>4. \A i \in 2..Len(procs) : state[procs[i]] # "READY"
    BY <1>3, <2>2, <2>3 DEF IdleInv, IdleRound, Live
  <2>5. \A p \in Pid : state[p] = "READY" => \E i \in 1..Len(procs) : procs[i] = p
    BY <1>3, PositionFacts
  <2>6. \A i \in 1..Len(procs) : i = 1 \/ i \in 2..Len(procs)
    BY <1>3, PositionFacts
  <2> QED BY <2>3, <2>4, <2>5, <2>6
<1>4. SafetyInv /\ IdleInv /\ IdleStill /\ [Next]_vars => [Chosen => Nothing]_vars
  BY <1>3
<1>5. Spec => [][Chosen => Nothing]_vars
  BY <1>1, <1>2, <1>4, PTL DEF Spec
<1> QED BY <1>5 DEF IdleIsLastResort
=============================================================================
