----------------------------- MODULE PartsProofs -----------------------------
(***************************************************************************)
(* Proofs about three parts that share no state with the rest: the memory  *)
(* of processes, for any number of processes and blocks and any size of    *)
(* the array; the clock, for any first and last values of its units; the   *)
(* screen, of any size and for any strings.                                *)
(***************************************************************************)
EXTENDS ProcessMemory, Clock, Video, WellFoundedInduction, TLAPS

-----------------------------------------------------------------------------
(* ProcessMemory.                                                          *)

Places == 0..(MAX_MALLOCS - 1)

\* Types of what the processes have.
MemoryTypes ==
  /\ owner \in [Blocks -> Pids \union {NULL}]
  /\ state \in [Pids -> {"none", "READY", "DEAD", "gone"}]
  /\ creator \in [Pids -> Pids \union {Boot}]
  /\ bPointer \in [Pids -> Blocks \union {NULL}]
  /\ fd \in [Pids -> Blocks \union {NULL}]
  /\ mmRegs \in [Pids \union {Boot} -> [Places -> Blocks \union {NULL}]]
  /\ mmRegsQty \in [Pids -> Places]

\* What the array of p registers is p's, not its stack, and registered once, but
\* for blocks that were passed as fd.
Sound(p) ==
  /\ bPointer[p] \in Blocks /\ (bPointer[p] \notin given => owner[bPointer[p]] = p)
  /\ \A i \in 0..(mmRegsQty[p] - 1) :
       LET b == mmRegs[creator[p]][i]
       IN  b # NULL /\ b \notin given =>
                       /\ owner[b] = p /\ b # bPointer[p]
                       /\ \A j \in 0..(mmRegsQty[p] - 1) : mmRegs[creator[p]][j] = b => j = i

\* And all there is.
AllKnown(p) == \A b \in Blocks : owner[b] = p => b = bPointer[p] \/ b \in Registered(p)

\* Who runs has an array of its own; a pid of the future has nothing.
BooksInv ==
  /\ MemoryTypes
  /\ \A p \in Pids : state[p] = "none" => \A b \in Blocks : owner[b] # p
  /\ \A p \in Pids : fd[p] \in given \union {NULL}
  /\ slips \subseteq {"full"} =>
       /\ \A p, q \in Pids : state[p] = "READY" /\ state[q] = "READY" /\ creator[p] = creator[q] => p = q
       /\ \A p \in Pids : state[p] = "READY" => Sound(p)
  /\ slips = {} => \A p \in Pids : state[p] = "READY" => AllKnown(p)

\* The first process has its stack and nothing else.
LEMMA BooksInit == MemoryAssumption /\ Init => BooksInv
<1> SUFFICES ASSUME MemoryAssumption, Init PROVE BooksInv
  OBVIOUS
<1>1. PICK first \in Pids, b \in Blocks :
        /\ owner = [x \in Blocks |-> IF x = b THEN first ELSE NULL]
        /\ state = [p \in Pids |-> IF p = first THEN "READY" ELSE "none"]
        /\ creator = [p \in Pids |-> Boot]
        /\ bPointer = [p \in Pids |-> IF p = first THEN b ELSE NULL]
        /\ fd = [p \in Pids |-> NULL]
        /\ mmRegs = [c \in Pids \union {Boot} |-> Unused]
        /\ mmRegsQty = [p \in Pids |-> 0]
        /\ given = {} /\ slips = {}
  BY DEF Init
<1>2. 0 \in Places /\ NULL \notin Pids /\ NULL \notin Blocks
  BY DEF MemoryAssumption, Places
<1>3. MemoryTypes
  BY <1>1, <1>2 DEF MemoryTypes, Unused, Places
<1>4. \A p \in Pids : state[p] = "none" => \A x \in Blocks : owner[x] # p
  BY <1>1, <1>2
<1>5. \A p \in Pids : state[p] = "READY" => p = first
  BY <1>1
<1>6. Sound(first) /\ AllKnown(first)
  BY <1>1, <1>2 DEF Sound, AllKnown
<1> QED BY <1>1, <1>3, <1>4, <1>5, <1>6 DEF BooksInv

\* The part of the array in use lies in the array.
LEMMA RegisteredTypes ==
  ASSUME MemoryAssumption, MemoryTypes, NEW p \in Pids
  PROVE  /\ \A i \in 0..(mmRegsQty[p] - 1) : i \in Places /\ mmRegs[creator[p]][i] \in Blocks \union {NULL}
         /\ mmRegs[creator[p]] \in [Places -> Blocks \union {NULL}]
         /\ mmRegsQty[p] \in Places /\ mmRegsQty[p] \in Nat
<1>1. mmRegs[creator[p]] \in [Places -> Blocks \union {NULL}] /\ mmRegsQty[p] \in Places
  BY DEF MemoryTypes
<1>2. mmRegsQty[p] \in Nat /\ \A i \in 0..(mmRegsQty[p] - 1) : i \in Places
  BY <1>1 DEF MemoryAssumption, Places
<1> QED BY <1>1, <1>2

\* Steps that leave the stack and the array of p alone, and of its blocks all but
\* those that were passed as fd.
LEMMA BooksKept ==
  ASSUME MemoryAssumption, MemoryTypes, NEW p \in Pids, bPointer'[p] = bPointer[p], mmRegsQty'[p] = mmRegsQty[p],
         creator'[p] = creator[p], mmRegs'[creator[p]] = mmRegs[creator[p]],
         given \subseteq given',
         \A b \in Blocks : (owner'[b] = p => owner[b] = p) /\ (b \notin given' /\ owner[b] = p => owner'[b] = p)
  PROVE  (Sound(p) => Sound(p)') /\ (AllKnown(p) => AllKnown(p)')
<1>1. \A i \in 0..(mmRegsQty[p] - 1) : mmRegs[creator[p]][i] \in Blocks \union {NULL}
  BY RegisteredTypes
<1>2. Sound(p) => Sound(p)'
  BY <1>1 DEF Sound
<1>3. AllKnown(p) => AllKnown(p)'
  BY DEF AllKnown, Registered
<1> QED BY <1>2, <1>3

\* A new process has its stack, and an array with nothing in it.
LEMMA BooksCreate ==
  ASSUME MemoryAssumption, BooksInv, NEW p \in Pids, NEW q \in Pids, enqueueProcess(p, q)
  PROVE  BooksInv'
<1>1. /\ state[p] = "READY" /\ state[q] = "none" /\ p # q
      /\ state' = [state EXCEPT ![q] = "READY"]
      /\ creator' = [creator EXCEPT ![q] = p]
      /\ mmRegsQty' = [mmRegsQty EXCEPT ![q] = 0]
      /\ mmRegs' = mmRegs
      /\ slips \subseteq slips' /\ given \subseteq given'
      /\ "shared" \notin slips' => \A s \in Pids : state[s] = "READY" => creator[s] # p
  BY DEF enqueueProcess
<1>2. PICK b \in Blocks : /\ owner[b] = NULL
                          /\ owner' = [owner EXCEPT ![b] = q]
                          /\ bPointer' = [bPointer EXCEPT ![q] = b]
  BY DEF enqueueProcess, Free
<1>3. 0 \in Places /\ NULL \notin Pids /\ MemoryTypes
  BY DEF MemoryAssumption, Places, BooksInv
<1>10. PICK f \in Blocks \union {NULL} :
         fd' = [fd EXCEPT ![q] = f] /\ given' = given \union ({f} \ {NULL})
  BY DEF enqueueProcess
<1>11. \A x \in Pids : fd'[x] \in given' \union {NULL}
  BY <1>3, <1>10 DEF BooksInv, MemoryTypes
<1>4. MemoryTypes'
  BY <1>1, <1>2, <1>3, <1>10 DEF MemoryTypes
<1>5. \A x \in Pids : state'[x] = "none" => \A c \in Blocks : owner'[c] # x
  BY <1>1, <1>2, <1>3 DEF MemoryTypes, BooksInv
<1>6. Sound(q)' /\ AllKnown(q)'
  BY <1>1, <1>2, <1>3 DEF Sound, AllKnown, MemoryTypes, BooksInv
<1>7. ASSUME NEW x \in Pids, x # q
      PROVE  (Sound(x) => Sound(x)') /\ (AllKnown(x) => AllKnown(x)') /\ state'[x] = state[x]
  <2>1. state'[x] = state[x] /\ \A c \in Blocks : owner'[c] = x <=> owner[c] = x
    BY <1>1, <1>2, <1>3, <1>7 DEF MemoryTypes
  <2>2. bPointer'[x] = bPointer[x] /\ mmRegsQty'[x] = mmRegsQty[x] /\ creator'[x] = creator[x]
        /\ mmRegs'[creator[x]] = mmRegs[creator[x]]
    BY <1>1, <1>2, <1>3, <1>7 DEF MemoryTypes
  <2> QED BY <1>1, <1>3, <2>1, <2>2, BooksKept
<1>8. ASSUME slips' \subseteq {"full"}
      PROVE  /\ \A x, y \in Pids : state'[x] = "READY" /\ state'[y] = "READY" /\ creator'[x] = creator'[y] => x = y
             /\ \A x \in Pids : state'[x] = "READY" => Sound(x)'
  BY <1>1, <1>3, <1>6, <1>7, <1>8 DEF BooksInv, MemoryTypes
<1>9. slips' = {} => \A x \in Pids : state'[x] = "READY" => AllKnown(x)'
  BY <1>1, <1>6, <1>7 DEF BooksInv
<1> QED BY <1>4, <1>5, <1>8, <1>9, <1>11 DEF BooksInv

\* Nothing is claimed once an array was overwritten.
LEMMA BooksOverwrite ==
  ASSUME MemoryAssumption, BooksInv, NEW p \in Pids, Overwrite(p)
  PROVE  BooksInv'
<1>1. "overwritten" \in slips' /\ UNCHANGED <<owner, state, creator, bPointer, fd, mmRegsQty, given>>
  BY DEF Overwrite
<1>2. mmRegs' \in [Pids \union {Boot} -> [Places -> Blocks \union {NULL}]]
  BY DEF Overwrite, BooksInv, MemoryTypes, Places
<1> QED BY <1>1, <1>2 DEF BooksInv, MemoryTypes

\* A block is registered behind the others.
LEMMA BooksMalloc ==
  ASSUME MemoryAssumption, BooksInv, NEW p \in Pids, sys_malloc(p)
  PROVE  BooksInv'
<1>1. PICK ptr : /\ ptr \in Free \/ (Free = {} /\ ptr = NULL)
                 /\ owner' = [b \in Blocks |-> IF b = ptr THEN p ELSE owner[b]]
                 /\ processMallocs(p, ptr)
  BY DEF sys_malloc
<1>2. state[p] = "READY" /\ UNCHANGED <<state, creator, bPointer, fd, given>> /\ slips \subseteq slips'
  BY <1>1 DEF sys_malloc, processMallocs
<1>3. /\ NULL \notin Pids /\ NULL \notin Blocks /\ ptr \in Blocks \union {NULL}
      /\ ptr # NULL => ptr \in Blocks /\ owner[ptr] = NULL
      /\ MemoryTypes
  BY <1>1 DEF MemoryAssumption, Free, BooksInv
<1> DEFINE n == mmRegsQty[p]
           regs == mmRegs[creator[p]]
<1>4. /\ n \in Nat /\ n \in Places /\ regs \in [Places -> Blocks \union {NULL}]
      /\ \A i \in 0..(n - 1) : i \in Places /\ regs[i] \in Blocks \union {NULL}
  BY <1>3, RegisteredTypes
<1>5. \/ "full" \in slips' /\ UNCHANGED <<mmRegs, mmRegsQty>>
      \/ /\ mmRegs' = [mmRegs EXCEPT ![creator[p]][n] = ptr] /\ n + 1 \in Places
         /\ mmRegsQty' = [mmRegsQty EXCEPT ![p] = n + 1]
  BY <1>1, <1>4 DEF processMallocs, MemoryAssumption, Places
<1>6. MemoryTypes'
  <2>1. owner' \in [Blocks -> Pids \union {NULL}]
    BY <1>1, <1>3 DEF MemoryTypes
  <2>2. mmRegs' \in [Pids \union {Boot} -> [Places -> Blocks \union {NULL}]]
    <3>1. creator[p] \in Pids \union {Boot} /\ [regs EXCEPT ![n] = ptr] \in [Places -> Blocks \union {NULL}]
      BY <1>3, <1>4 DEF MemoryTypes
    <3> QED BY <1>3, <1>5, <3>1 DEF MemoryTypes
  <2>3. mmRegsQty' \in [Pids -> Places]
    BY <1>3, <1>5 DEF MemoryTypes
  <2> QED BY <1>2, <1>3, <2>1, <2>2, <2>3 DEF MemoryTypes
<1>7. \A x \in Pids : state'[x] = "none" => \A c \in Blocks : owner'[c] # x
  BY <1>1, <1>2, <1>3 DEF BooksInv, MemoryTypes
<1>8. ASSUME NEW x \in Pids, x # p, state[x] = "READY", slips \subseteq {"full"}
      PROVE  (Sound(x) => Sound(x)') /\ (AllKnown(x) => AllKnown(x)')
  <2>1. creator[x] # creator[p]
    BY <1>2, <1>8 DEF BooksInv
  <2>2. bPointer'[x] = bPointer[x] /\ mmRegsQty'[x] = mmRegsQty[x] /\ creator'[x] = creator[x]
        /\ mmRegs'[creator[x]] = mmRegs[creator[x]]
    BY <1>2, <1>3, <1>5, <1>8, <2>1 DEF MemoryTypes
  <2>3. \A c \in Blocks : owner'[c] = x <=> owner[c] = x
    BY <1>1, <1>3, <1>8 DEF MemoryTypes
  <2> QED BY <1>2, <1>3, <2>2, <2>3, BooksKept
<1>9. ASSUME slips \subseteq {"full"} PROVE Sound(p)'
  <2>1. Sound(p)
    BY <1>2, <1>9 DEF BooksInv
  <2>2. \A b \in Blocks : owner[b] = p => owner'[b] = p /\ b # ptr
    BY <1>1, <1>3
  <2>3. CASE UNCHANGED <<mmRegs, mmRegsQty>>
    BY <1>2, <1>3, <1>4, <2>1, <2>2, <2>3 DEF Sound
  <2>4. CASE /\ mmRegs' = [mmRegs EXCEPT ![creator[p]][n] = ptr]
             /\ mmRegsQty' = [mmRegsQty EXCEPT ![p] = n + 1]
    <3>1. mmRegsQty'[p] = n + 1 /\ creator'[p] = creator[p] /\ bPointer'[p] = bPointer[p]
          /\ \A i \in Places : mmRegs'[creator[p]][i] = IF i = n THEN ptr ELSE regs[i]
      BY <1>2, <1>3, <1>4, <2>4 DEF MemoryTypes
    <3>2. \A i \in 0..n : i \in Places /\ (i = n \/ i \in 0..(n - 1))
      BY <1>4
    <3>3. ptr # NULL /\ ptr \notin given => owner'[ptr] = p /\ ptr # bPointer[p]
      BY <1>1, <1>3, <2>1 DEF Sound
    <3>4. (n + 1) - 1 = n
      BY <1>4
    <3>5. bPointer'[p] \in Blocks /\ (bPointer'[p] \notin given => owner'[bPointer'[p]] = p)
      BY <2>1, <2>2, <3>1 DEF Sound
    <3>6. \A i \in 0..n : mmRegs'[creator[p]][i] # NULL /\ mmRegs'[creator[p]][i] \notin given =>
             /\ owner'[mmRegs'[creator[p]][i]] = p /\ mmRegs'[creator[p]][i] # bPointer[p]
             /\ \A j \in 0..n : mmRegs'[creator[p]][j] = mmRegs'[creator[p]][i] => j = i
      BY <1>4, <2>1, <2>2, <3>1, <3>2, <3>3 DEF Sound
    <3> QED BY <1>2, <3>1, <3>4, <3>5, <3>6 DEF Sound
  <2> QED BY <1>5, <2>3, <2>4
<1>10. ASSUME slips' = {} PROVE AllKnown(p)'
  <2>1. AllKnown(p) /\ mmRegs' = [mmRegs EXCEPT ![creator[p]][n] = ptr]
        /\ mmRegsQty' = [mmRegsQty EXCEPT ![p] = n + 1]
    BY <1>2, <1>5, <1>10 DEF BooksInv
  <2>2. mmRegsQty'[p] = n + 1 /\ creator'[p] = creator[p] /\ bPointer'[p] = bPointer[p]
        /\ \A i \in Places : mmRegs'[creator[p]][i] = IF i = n THEN ptr ELSE regs[i]
    BY <1>2, <1>3, <1>4, <2>1 DEF MemoryTypes
  <2>3. Registered(p) \union {ptr} \subseteq Registered(p)'
    <3>1. ptr \in Registered(p)'
      <4>1. n \in 0..((n + 1) - 1) /\ mmRegs'[creator[p]][n] = ptr
        BY <1>4, <2>2
      <4> QED BY <2>2, <4>1 DEF Registered
    <3>2. ASSUME NEW i \in 0..(n - 1) PROVE regs[i] \in Registered(p)'
      <4>1. i \in 0..((n + 1) - 1) /\ i # n /\ i \in Places
        BY <1>4
      <4>2. mmRegs'[creator[p]][i] = regs[i]
        BY <2>2, <4>1
      <4> QED BY <2>2, <4>1, <4>2 DEF Registered
    <3> QED BY <3>1, <3>2 DEF Registered
  <2> QED BY <1>1, <1>2, <2>1, <2>3 DEF AllKnown
<1> QED BY <1>2, <1>6, <1>7, <1>8, <1>9, <1>10 DEF BooksInv

\* Places are numbered, so that ptr has a first one.
LEMMA SmallestPlace ==
  ASSUME NEW S, S \subseteq Nat, S # {}
  PROVE  \E n \in S : \A m \in S : n <= m
<1>1. PICK n \in S : \A m \in S : ~(<<m, n>> \in OpToRel(<, Nat))
  BY NatLessThanWellFounded, WFMin
<1>2. \A m \in S : <<m, n>> \in OpToRel(<, Nat) <=> m < n
  BY DEF OpToRel
<1>3. ASSUME NEW m \in S PROVE n <= m
  <2>1. ~(m < n) /\ m \in Nat /\ n \in Nat
    BY <1>1, <1>2
  <2> QED BY <2>1
<1> QED BY <1>3

\* What processFrees leaves of an array in which ptr is first registered at k: the
\* places before it as they were, and those behind it moved down.
LEMMA MovedDown ==
  ASSUME MemoryAssumption, NEW V, NEW regs \in [Places -> V], NEW last \in Places, NEW k \in 0..last,
         \A i \in 0..(k - 1) : regs[i] # regs[k],
         NULL \in V
  PROVE  LET moved == [i \in Places |->
                         IF i > last \/ \A j \in 0..i : regs[j] # regs[k] THEN regs[i]
                         ELSE IF i = last THEN NULL ELSE regs[i + 1]]
         IN  /\ moved \in [Places -> V]
             /\ \A i \in 0..(last - 1) : moved[i] = IF i < k THEN regs[i] ELSE regs[i + 1]
<1> DEFINE moved == [i \in Places |->
                       IF i > last \/ \A j \in 0..i : regs[j] # regs[k] THEN regs[i]
                       ELSE IF i = last THEN NULL ELSE regs[i + 1]]
<1>1. last \in Nat /\ last < MAX_MALLOCS /\ MAX_MALLOCS \in Nat /\ k \in Nat /\ k <= last
  BY DEF MemoryAssumption, Places
<1>2. moved \in [Places -> V]
  <2> SUFFICES ASSUME NEW i \in Places, i <= last, i # last PROVE i + 1 \in Places
    BY <1>1 DEF Places
  <2> QED BY <1>1 DEF Places
<1>3. ASSUME NEW i \in 0..(last - 1)
      PROVE  moved[i] = IF i < k THEN regs[i] ELSE regs[i + 1]
  <2>1. i \in Places /\ ~(i > last) /\ i # last /\ i \in Nat
    BY <1>1 DEF Places
  <2>2. CASE i < k
    <3>1. \A j \in 0..i : regs[j] # regs[k]
      BY <1>1, <2>1, <2>2
    <3> QED BY <2>1, <2>2, <3>1
  <2>3. CASE ~(i < k)
    <3>1. k \in 0..i
      BY <1>1, <2>1, <2>3
    <3> QED BY <2>1, <2>3, <3>1
  <2> QED BY <2>2, <2>3
<1> QED BY <1>2, <1>3

\* The registered block leaves the array, the others stay.
LEMMA BooksFree ==
  ASSUME MemoryAssumption, BooksInv, NEW p \in Pids, NEW ptr \in Blocks, sys_free(p, ptr)
  PROVE  BooksInv'
<1>1. /\ state[p] = "READY" /\ processFrees(p, ptr)
      /\ owner' = [b \in Blocks |-> IF b \in {ptr} THEN NULL ELSE owner[b]]
      /\ \A q \in Pids : state[q] = "READY" => bPointer[q] # ptr
      /\ UNCHANGED <<state, creator, bPointer, fd, given>> /\ slips \subseteq slips'
      /\ "notOwn" \notin slips' => owner[ptr] = p
  BY DEF sys_free, vPortFree
<1>2. NULL \notin Pids /\ NULL \notin Blocks /\ MemoryTypes /\ MAX_MALLOCS \in Nat
  BY DEF MemoryAssumption, BooksInv
<1> DEFINE n == mmRegsQty[p]
           last == n - 1
           regs == mmRegs[creator[p]]
           moved == [i \in 0..(MAX_MALLOCS - 1) |->
                       IF i > last \/ \A j \in 0..i : regs[j] # ptr THEN regs[i]
                       ELSE IF i = last THEN NULL ELSE regs[i + 1]]
<1>3. /\ n \in Nat /\ n \in Places /\ regs \in [Places -> Blocks \union {NULL}]
      /\ \A i \in 0..last : i \in Places /\ regs[i] \in Blocks \union {NULL}
  BY <1>2, RegisteredTypes
<1>4. \/ ptr \notin Registered(p) /\ UNCHANGED <<mmRegs, mmRegsQty>>
      \/ /\ ptr \in Registered(p)
         /\ mmRegs' = [mmRegs EXCEPT ![creator[p]] = moved]
         /\ mmRegsQty' = [mmRegsQty EXCEPT ![p] = last]
  BY <1>1 DEF processFrees
<1>5. owner' \in [Blocks -> Pids \union {NULL}]
  BY <1>1, <1>2 DEF MemoryTypes
<1>6. MemoryTypes'
  <2>1. CASE UNCHANGED <<mmRegs, mmRegsQty>>
    BY <1>1, <1>2, <1>5, <2>1 DEF MemoryTypes
  <2>2. CASE ~UNCHANGED <<mmRegs, mmRegsQty>>
    <3>1. /\ ptr \in Registered(p)
          /\ mmRegs' = [mmRegs EXCEPT ![creator[p]] = moved]
          /\ mmRegsQty' = [mmRegsQty EXCEPT ![p] = last]
      BY <1>4, <2>2
    <3>2. last \in Places /\ last \in Nat
      <4>1. \E i \in 0..last : regs[i] = ptr
        BY <3>1 DEF Registered
      <4> QED BY <1>3, <4>1 DEF Places
    <3>3. moved \in [Places -> Blocks \union {NULL}]
      <4> SUFFICES ASSUME NEW i \in Places, ~(i > last), i # last PROVE i + 1 \in Places
        BY <1>3 DEF Places
      <4> QED BY <1>2, <1>3, <3>2 DEF Places
    <3> HIDE DEF moved
    <3>4. creator[p] \in Pids \union {Boot}
      BY <1>2 DEF MemoryTypes
    <3> QED BY <1>1, <1>2, <1>5, <3>1, <3>2, <3>3, <3>4 DEF MemoryTypes
  <2> QED BY <2>1, <2>2
<1>7. \A x \in Pids : state'[x] = "none" => \A c \in Blocks : owner'[c] # x
  BY <1>1, <1>2 DEF BooksInv, MemoryTypes
<1>8. ASSUME NEW x \in Pids, x # p, state[x] = "READY", slips' \subseteq {"full"}
      PROVE  (Sound(x) => Sound(x)') /\ (AllKnown(x) => AllKnown(x)')
  <2>1. creator[x] # creator[p]
    BY <1>1, <1>8 DEF BooksInv
  <2>2. bPointer'[x] = bPointer[x] /\ mmRegsQty'[x] = mmRegsQty[x] /\ creator'[x] = creator[x]
        /\ mmRegs'[creator[x]] = mmRegs[creator[x]]
    <3> HIDE DEF moved
    <3> QED BY <1>1, <1>2, <1>4, <1>8, <2>1 DEF MemoryTypes
  <2>3. owner[ptr] = p
    BY <1>1, <1>8
  <2>4. \A c \in Blocks : owner'[c] = x <=> owner[c] = x
    BY <1>1, <1>2, <1>8, <2>3 DEF MemoryTypes
  <2> QED BY <1>1, <1>2, <2>2, <2>4, BooksKept
<1>9. ASSUME slips' \subseteq {"full"} PROVE Sound(p)' /\ (AllKnown(p) => AllKnown(p)')
  <2>1. Sound(p) /\ bPointer[p] # ptr
    BY <1>1, <1>9 DEF BooksInv
  <2>2. /\ \A b \in Blocks : b # ptr => owner'[b] = owner[b]
        /\ owner'[ptr] = NULL
        /\ creator'[p] = creator[p] /\ bPointer'[p] = bPointer[p]
    BY <1>1
  <2>3. bPointer'[p] \in Blocks /\ (bPointer'[p] \notin given => owner'[bPointer'[p]] = p)
    BY <2>1, <2>2 DEF Sound
  <2>4. CASE ptr \notin Registered(p)
    <3>1. \A i \in 0..last : regs[i] # ptr
      BY <2>4 DEF Registered
    <3>2. mmRegs' = mmRegs /\ mmRegsQty' = mmRegsQty
      BY <1>4, <2>4
    <3>3. Sound(p)'
      BY <1>1, <1>3, <2>1, <2>2, <2>3, <3>1, <3>2 DEF Sound
    <3>4. AllKnown(p) => AllKnown(p)'
      BY <1>2, <2>2, <3>2 DEF AllKnown, Registered
    <3> QED BY <3>3, <3>4
  <2>5. CASE ptr \in Registered(p)
    <3>1. PICK k \in 0..last : regs[k] = ptr /\ \A i \in 0..last : regs[i] = ptr => k <= i
      <4>1. {i \in 0..last : regs[i] = ptr} # {} /\ {i \in 0..last : regs[i] = ptr} \subseteq Nat
        BY <1>3, <2>5 DEF Registered
      <4> QED BY <4>1, SmallestPlace
    <3>2. last \in Places /\ last \in Nat /\ k \in Nat /\ k <= last /\ last = n - 1
      BY <1>3, <3>1 DEF Places
    <3>3. /\ \A i \in 0..(k - 1) : regs[i] # regs[k]
          /\ ptr \notin given => \A i \in 0..last : regs[i] = ptr => i = k
      BY <1>2, <2>1, <3>1, <3>2 DEF Sound
    <3>4. \A i \in 0..(last - 1) : moved[i] = IF i < k THEN regs[i] ELSE regs[i + 1]
      BY <1>3, <3>1, <3>2, <3>3, MovedDown DEF Places
    <3>5. mmRegsQty'[p] = last /\ mmRegs'[creator'[p]] = moved
      <4> HIDE DEF moved
      <4> QED BY <1>2, <1>4, <2>2, <2>5 DEF MemoryTypes
    <3> DEFINE Old(i) == IF i < k THEN i ELSE i + 1
    <3>6. \A i \in 0..(last - 1) : Old(i) \in 0..last /\ Old(i) # k /\ moved[i] = regs[Old(i)]
      <4> HIDE DEF moved
      <4> QED BY <3>2, <3>4
    <3>7. \A i, j \in 0..(last - 1) : Old(i) = Old(j) => i = j
      BY <3>2
    <3>8. \A j \in 0..last : j # k => \E i \in 0..(last - 1) : Old(i) = j
      <4> SUFFICES ASSUME NEW j \in 0..last, j # k PROVE \E i \in 0..(last - 1) : Old(i) = j
        OBVIOUS
      <4>1. CASE j < k
        BY <3>2, <4>1
      <4>2. CASE ~(j < k)
        <5>1. j - 1 \in 0..(last - 1) /\ Old(j - 1) = j
          BY <3>2, <4>2
        <5> QED BY <5>1
      <4> QED BY <4>1, <4>2
    <3> HIDE DEF moved, Old
    <3>9. Sound(p)'
      <4>1. ASSUME NEW i \in 0..(last - 1), moved[i] # NULL, moved[i] \notin given
            PROVE  /\ owner'[moved[i]] = p /\ moved[i] # bPointer[p]
                   /\ \A j \in 0..(last - 1) : moved[j] = moved[i] => j = i
        <5>1. Old(i) \in 0..last /\ moved[i] = regs[Old(i)] /\ moved[i] # ptr /\ moved[i] \in Blocks \ given
          BY <1>3, <3>1, <3>3, <3>6, <4>1
        <5>2. \A j \in 0..last : regs[j] = moved[i] => j = Old(i)
          BY <2>1, <4>1, <5>1 DEF Sound
        <5> QED BY <2>1, <2>2, <3>6, <3>7, <4>1, <5>1, <5>2 DEF Sound
      <4> QED BY <1>1, <2>2, <2>3, <3>5, <4>1 DEF Sound
    <3>10. AllKnown(p) => AllKnown(p)'
      <4> SUFFICES ASSUME AllKnown(p), NEW b \in Blocks, owner'[b] = p, b # bPointer[p]
                   PROVE  b \in Registered(p)'
        BY <2>2 DEF AllKnown
      <4>1. b # ptr /\ b \in Registered(p)
        BY <1>2, <2>2 DEF AllKnown
      <4>2. PICK j \in 0..last : regs[j] = b
        BY <4>1 DEF Registered
      <4>3. PICK i \in 0..(last - 1) : moved[i] = b
        BY <3>1, <3>6, <3>8, <4>1, <4>2
      <4> QED BY <3>5, <4>3 DEF Registered
    <3> QED BY <3>9, <3>10
  <2> QED BY <2>4, <2>5
<1> HIDE DEF moved
<1>10. /\ slips' \subseteq {"full"} => slips \subseteq {"full"}
       /\ slips' = {} => slips = {} /\ slips' \subseteq {"full"}
  BY <1>1
<1>11. ASSUME slips' \subseteq {"full"}
       PROVE  /\ \A x, y \in Pids : state'[x] = "READY" /\ state'[y] = "READY" /\ creator'[x] = creator'[y] => x = y
              /\ \A x \in Pids : state'[x] = "READY" => Sound(x)'
  BY <1>1, <1>8, <1>9, <1>10, <1>11 DEF BooksInv
<1>12. slips' = {} => \A x \in Pids : state'[x] = "READY" => AllKnown(x)'
  BY <1>1, <1>8, <1>9, <1>10 DEF BooksInv
<1>13. \A x \in Pids : fd'[x] \in given' \union {NULL}
  BY <1>1 DEF BooksInv
<1> QED BY <1>6, <1>7, <1>11, <1>12, <1>13 DEF BooksInv

\* The end of a process frees what its array registers, its stack and its fd.
LEMMA BooksKill ==
  ASSUME MemoryAssumption, BooksInv, NEW p \in Pids, NEW q \in Pids, kill(p, q)
  PROVE  BooksInv' /\ FreesOnlyOwn
<1>1. /\ state[q] \in {"READY", "DEAD"} /\ state' = [state EXCEPT ![q] = "DEAD"]
      /\ owner' = [b \in Blocks |-> IF b \in {bPointer[q], fd[q]} \union Registered(q) THEN NULL ELSE owner[b]]
      /\ UNCHANGED <<creator, bPointer, fd, mmRegs, mmRegsQty, given>> /\ slips \subseteq slips'
      /\ "killDead" \notin slips' => state[q] = "READY"
  BY DEF kill, vPortFree
<1>2. NULL \notin Pids /\ NULL \notin Blocks /\ MemoryTypes
  BY DEF MemoryAssumption, BooksInv
<1>3. /\ MemoryTypes' /\ \A x \in Pids : state'[x] = "none" => \A c \in Blocks : owner'[c] # x
      /\ \A x \in Pids : fd'[x] \in given' \union {NULL}
  BY <1>1, <1>2 DEF MemoryTypes, BooksInv
<1>4. \A x \in Pids : state'[x] = "READY" => state[x] = "READY" /\ x # q
  BY <1>1, <1>2 DEF MemoryTypes
<1>5. ASSUME slips' \subseteq {"full"}, NEW b \in {bPointer[q], fd[q]} \union Registered(q), b \in Blocks \ given
      PROVE  owner[b] = q
  <2>1. Sound(q) /\ b # NULL /\ b # fd[q]
    BY <1>1, <1>2, <1>5 DEF BooksInv
  <2> QED BY <1>5, <2>1 DEF Sound, Registered
<1>6. ASSUME slips' \subseteq {"full"}, NEW x \in Pids, x # q
      PROVE  (Sound(x) => Sound(x)') /\ (AllKnown(x) => AllKnown(x)')
  <2>1. \A b \in Blocks : /\ owner'[b] = x => owner[b] = x
                          /\ b \notin given' /\ owner[b] = x => owner'[b] = x
    BY <1>1, <1>2, <1>5, <1>6
  <2> QED BY <1>1, <1>2, <2>1, BooksKept
<1>7. ASSUME slips' \subseteq {"full"}
      PROVE  /\ \A x, y \in Pids : state'[x] = "READY" /\ state'[y] = "READY" /\ creator'[x] = creator'[y] => x = y
             /\ \A x \in Pids : state'[x] = "READY" => Sound(x)'
  BY <1>1, <1>4, <1>6, <1>7 DEF BooksInv
<1>8. slips' = {} => \A x \in Pids : state'[x] = "READY" => AllKnown(x)'
  BY <1>1, <1>4, <1>6 DEF BooksInv
<1>9. FreesOnlyOwn
  <2> SUFFICES ASSUME slips' \subseteq {"full"}, NEW x \in Pids, state[x] = "READY", state'[x] = "DEAD",
                      NEW b \in Blocks \ given, owner'[b] # owner[b]
               PROVE  owner[b] = x
    BY DEF FreesOnlyOwn
  <2>1. x = q
    BY <1>1, <1>2 DEF MemoryTypes
  <2> QED BY <1>1, <1>2, <1>5, <2>1
<1> QED BY <1>3, <1>7, <1>8, <1>9 DEF BooksInv

\* A record is freed; the array of who runs is not forgotten with it.
LEMMA BooksDequeue ==
  ASSUME MemoryAssumption, BooksInv, NEW q \in Pids, dequeue(q)
  PROVE  BooksInv'
<1>1. /\ state[q] = "DEAD" /\ state' = [state EXCEPT ![q] = "gone"]
      /\ creator' = [creator EXCEPT ![q] = Boot]
      /\ bPointer' = [bPointer EXCEPT ![q] = NULL]
      /\ mmRegsQty' = [mmRegsQty EXCEPT ![q] = 0]
      /\ fd' = [fd EXCEPT ![q] = NULL]
      /\ UNCHANGED <<owner, given, slips>>
      /\ mmRegs' = IF \E s \in Pids \ {q} : creator[s] = creator[q] THEN mmRegs
                   ELSE [mmRegs EXCEPT ![creator[q]] = Unused]
  BY DEF dequeue
<1>2. 0 \in Places /\ MemoryTypes /\ Unused \in [Places -> Blocks \union {NULL}]
  BY DEF MemoryAssumption, BooksInv, Places, Unused
<1>3. MemoryTypes'
  BY <1>1, <1>2 DEF MemoryTypes
<1>4. \A x \in Pids : state'[x] = "READY" => state[x] = "READY" /\ x # q
  BY <1>1, <1>2 DEF MemoryTypes
<1>5. \A x \in Pids : state'[x] = "none" => \A c \in Blocks : owner'[c] # x
  BY <1>1, <1>2 DEF MemoryTypes, BooksInv
<1>6. ASSUME NEW x \in Pids, x # q
      PROVE  (Sound(x) => Sound(x)') /\ (AllKnown(x) => AllKnown(x)') /\ creator'[x] = creator[x]
  <2>1. mmRegs'[creator[x]] = mmRegs[creator[x]]
    BY <1>1, <1>2, <1>6 DEF MemoryTypes
  <2>2. bPointer'[x] = bPointer[x] /\ mmRegsQty'[x] = mmRegsQty[x] /\ creator'[x] = creator[x]
    BY <1>1, <1>2, <1>6 DEF MemoryTypes
  <2> QED BY <1>1, <1>2, <2>1, <2>2, BooksKept
<1>7. \A x \in Pids : fd'[x] \in given' \union {NULL}
  BY <1>1, <1>2 DEF BooksInv, MemoryTypes
<1> QED BY <1>1, <1>3, <1>4, <1>5, <1>6, <1>7 DEF BooksInv

LEMMA BooksNext == MemoryAssumption /\ BooksInv /\ [Next]_vars => BooksInv' /\ [FreesOnlyOwn]_vars
<1> SUFFICES ASSUME MemoryAssumption, BooksInv, [Next]_vars PROVE BooksInv' /\ [FreesOnlyOwn]_vars
  OBVIOUS
<1>1. CASE Next
  <2>1. CASE \E p \in Pids : sys_malloc(p) \/ Overwrite(p) \/ dequeue(p)
    <3>1. PICK p \in Pids : sys_malloc(p) \/ Overwrite(p) \/ dequeue(p)
      BY <2>1
    <3>2. FreesOnlyOwn
      BY <3>1 DEF FreesOnlyOwn, sys_malloc, Overwrite, dequeue, BooksInv, MemoryTypes
    <3> QED BY <3>1, <3>2, BooksMalloc, BooksOverwrite, BooksDequeue
  <2>2. CASE \E p \in Pids, ptr \in Blocks : sys_free(p, ptr)
    <3>1. PICK p \in Pids, ptr \in Blocks : sys_free(p, ptr)
      BY <2>2
    <3>2. FreesOnlyOwn
      BY <3>1 DEF FreesOnlyOwn, sys_free
    <3> QED BY <3>1, <3>2, BooksFree
  <2>3. CASE \E p, q \in Pids : enqueueProcess(p, q) \/ kill(p, q)
    <3>1. PICK p \in Pids, q \in Pids : enqueueProcess(p, q) \/ kill(p, q)
      BY <2>3
    <3>2. CASE enqueueProcess(p, q)
      <4>1. \A x \in Pids : state[x] = "READY" => state'[x] = "READY"
        BY <3>2 DEF enqueueProcess, BooksInv, MemoryTypes
      <4> QED BY <3>2, <4>1, BooksCreate DEF FreesOnlyOwn
    <3>3. CASE kill(p, q)
      BY <3>3, BooksKill
    <3> QED BY <3>1, <3>2, <3>3
  <2> QED BY <1>1, <2>1, <2>2, <2>3 DEF Next
<1>2. CASE UNCHANGED vars
  BY <1>2 DEF vars, BooksInv, MemoryTypes, Sound, AllKnown, Registered
<1> QED BY <1>1, <1>2

\* Through any order of mallocs and frees, for any number of processes and any
\* size of the array, it registers every block the process holds and nothing
\* else, as long as it is not overwritten, shared or full and nobody else frees
\* its blocks; only a block that was passed as fd may stay registered when it is
\* the process's no more.
THEOREM BooksBalance ==
  ASSUME MemoryAssumption
  PROVE  Spec => []BooksExact
<1>1. Init => BooksInv
  BY BooksInit
<1>2. BooksInv /\ [Next]_vars => BooksInv'
  BY BooksNext
<1>3. BooksInv => BooksExact
  <2> DEFINE held(p) == {b \in Blocks : owner[b] = p} \ {bPointer[p]}
  <2> SUFFICES ASSUME BooksInv, slips = {}, NEW p \in Pids, state[p] = "READY"
               PROVE  held(p) \subseteq Registered(p) /\ Registered(p) \ {NULL} \subseteq held(p) \union given
    BY DEF BooksExact
  <2>1. Sound(p) /\ AllKnown(p) /\ Registered(p) \subseteq Blocks \union {NULL}
    BY RegisteredTypes DEF BooksInv, Registered
  <2>2. \A b \in Registered(p) : b # NULL /\ b \notin given => owner[b] = p /\ b # bPointer[p]
    BY <2>1 DEF Sound, Registered
  <2>3. NULL \notin Blocks
    BY DEF MemoryAssumption
  <2> QED BY <2>1, <2>2, <2>3 DEF AllKnown
<1> QED BY <1>1, <1>2, <1>3, PTL DEF Spec

\* The end of a process, by exit() or by kill(), frees nothing of another one but
\* blocks that were passed as fd, although the array is kept in the stack of the process that created it.
THEOREM NothingElseFreed ==
  ASSUME MemoryAssumption
  PROVE  Spec => OnlyOwnFreed
<1>1. Init => BooksInv
  BY BooksInit
<1>2. BooksInv /\ [Next]_vars => BooksInv' /\ [FreesOnlyOwn]_vars
  BY BooksNext
<1> QED BY <1>1, <1>2, PTL DEF Spec, OnlyOwnFreed

-----------------------------------------------------------------------------
(* Clock.                                                                  *)

\* The values of the units.
Times ==
  {t \in [ToSet(Units) -> 0..99] : \A n \in 1..6 : t[Units[n]] \in Lowest[Units[n]]..Highest[Units[n]]}

\* The numbers of f from the k-th on, len in all, are not ahead of the time s.
Behind(f, s, k, len) ==
  \/ \A m \in k..len : f[m] = s[Units[m]]
  \/ \E n \in k..len : f[n] < s[Units[n]] /\ \A m \in k..(n - 1) : f[m] = s[Units[m]]

\* What was read of the units from the k-th on is not ahead of the clock.
NotPast(k) == Behind(fields, clock, k, Len(fields))

SameDay == \A t \in moments : t[DAY] = clock[DAY]
SameMinute == \A t \in moments : t[MINUTES] = clock[MINUTES]

\* Types.
ClockTypes ==
  /\ clock \in Times /\ moments \subseteq Times
  /\ reader \in {"nobody", "getTimeOfDay", "time"}
  /\ fields \in Seq(Int) /\ Len(fields) <= 6
  /\ reader # "nobody" => clock \in moments

\* The reading of the command time is right up to the day while the day lasts.
RightDay ==
  /\ \A m \in 1..Len(fields) : m <= 3 => fields[m] = clock[Order[m]]
  /\ NotPast(4)

\* While the minute lasts all is right but the seconds, which were read at one of
\* the moments.
RightMinute ==
  /\ \A m \in 1..Len(fields) : m <= 5 => fields[m] = clock[Order[m]]
  /\ Len(fields) = 6 =>
       \E s \in moments : /\ s[SECONDS] = fields[6]
                          /\ \A n \in 1..5 : s[Units[n]] = clock[Units[n]]

ClockInv ==
  /\ ClockTypes
  /\ reader = "getTimeOfDay" => NotPast(1)
  /\ reader = "time" /\ SameDay => RightDay
  /\ reader # "nobody" /\ SameMinute => RightMinute

\* The units, one by one.
LEMMA SixUnits ==
  /\ ToSet(Units) = {"YEAR", "MONTH", "DAY", "HOURS", "MINUTES", "SECONDS"}
  /\ Len(Units) = 6 /\ DOMAIN Units = 1..6
  /\ Units[1] = "YEAR" /\ Units[2] = "MONTH" /\ Units[3] = "DAY"
  /\ Units[4] = "HOURS" /\ Units[5] = "MINUTES" /\ Units[6] = "SECONDS"
  /\ \A n \in 1..6 : Units[n] \in ToSet(Units)
  /\ \A u \in ToSet(Units) : \E n \in 1..6 : Units[n] = u
  /\ \A n, m \in 1..6 : Units[n] = Units[m] => n = m
<1>1. /\ Len(Units) = 6 /\ DOMAIN Units = 1..6
      /\ Units[1] = "YEAR" /\ Units[2] = "MONTH" /\ Units[3] = "DAY"
      /\ Units[4] = "HOURS" /\ Units[5] = "MINUTES" /\ Units[6] = "SECONDS"
  BY DEF Units, YEAR, MONTH, DAY, HOURS, MINUTES, SECONDS
<1>2. \A n \in 1..6 : n = 1 \/ n = 2 \/ n = 3 \/ n = 4 \/ n = 5 \/ n = 6
  OBVIOUS
<1>3. ToSet(Units) = {Units[n] : n \in 1..6}
  BY <1>1 DEF ToSet
<1>4. ToSet(Units) = {"YEAR", "MONTH", "DAY", "HOURS", "MINUTES", "SECONDS"}
  BY <1>1, <1>2, <1>3
<1>5. \A n, m \in 1..6 : Units[n] = Units[m] => n = m
  BY <1>1, <1>2
<1> QED BY <1>1, <1>3, <1>4, <1>5

\* A second later some unit is one more; the smaller ones, all at their last
\* value, begin again.
LEMMA TickFacts ==
  ASSUME ClockAssumption, clock \in Times, Tick
  PROVE  /\ clock' \in Times
         /\ \E k \in 1..6 :
              /\ \A n \in 1..(k - 1) : clock'[Units[n]] = clock[Units[n]]
              /\ clock'[Units[k]] > clock[Units[k]]
              /\ \A n \in (k + 1)..6 : clock'[Units[n]] # clock[Units[n]]
<1> DEFINE carry(n) == \A m \in (n + 1)..6 : clock[Units[m]] = Highest[Units[m]]
<1>1. clock' = After(clock) /\ Earlier(clock, clock')
  BY DEF Tick
<1>2. \A n \in 1..6 : (CHOOSE m \in DOMAIN Units : Units[m] = Units[n]) = n
  BY SixUnits
<1>3. /\ clock' \in [ToSet(Units) -> {After(clock)[u] : u \in ToSet(Units)}]
      /\ \A n \in 1..6 :
           clock'[Units[n]] = IF ~carry(n) THEN clock[Units[n]]
                              ELSE IF clock[Units[n]] = Highest[Units[n]] THEN Lowest[Units[n]]
                              ELSE clock[Units[n]] + 1
  <2>1. Len(Units) = 6 /\ \A n \in 1..6 : Units[n] \in ToSet(Units)
    BY SixUnits
  <2>2. \A n \in 1..6 :
          After(clock)[Units[n]] = IF ~carry(n) THEN clock[Units[n]]
                                   ELSE IF clock[Units[n]] = Highest[Units[n]] THEN Lowest[Units[n]]
                                   ELSE clock[Units[n]] + 1
    BY <1>2, <2>1 DEF After
  <2>3. After(clock) \in [ToSet(Units) -> {After(clock)[u] : u \in ToSet(Units)}]
    BY DEF After
  <2> QED BY <1>1, <2>2, <2>3
<1>4. \A n \in 1..6 : /\ Lowest[Units[n]] \in 0..99 /\ Highest[Units[n]] \in 0..99
                      /\ Lowest[Units[n]] < Highest[Units[n]]
                      /\ clock[Units[n]] \in Lowest[Units[n]]..Highest[Units[n]]
  BY SixUnits DEF ClockAssumption, Times
<1>5. \A n \in 1..6 : clock'[Units[n]] \in Lowest[Units[n]]..Highest[Units[n]] /\ clock'[Units[n]] \in 0..99
  <2> HIDE DEF carry
  <2> SUFFICES ASSUME NEW n \in 1..6
               PROVE  clock'[Units[n]] \in Lowest[Units[n]]..Highest[Units[n]] /\ clock'[Units[n]] \in 0..99
    OBVIOUS
  <2>1. \/ clock'[Units[n]] = clock[Units[n]]
        \/ clock'[Units[n]] = Lowest[Units[n]]
        \/ clock'[Units[n]] = clock[Units[n]] + 1 /\ clock[Units[n]] # Highest[Units[n]]
    BY <1>3
  <2>2. \A low, high \in 0..99, c, d \in Int :
          /\ c \in low..high /\ low < high
          /\ d = c \/ d = low \/ (d = c + 1 /\ c # high)
          => d \in low..high /\ d \in 0..99
    OBVIOUS
  <2> DEFINE low == Lowest[Units[n]]
             high == Highest[Units[n]]
             c == clock[Units[n]]
             d == clock'[Units[n]]
  <2>3. low \in 0..99 /\ high \in 0..99 /\ low < high /\ c \in low..high
    BY <1>4
  <2>4. d = c \/ d = low \/ (d = c + 1 /\ c # high)
    BY <2>1
  <2> HIDE DEF low, high, c, d
  <2>5. c \in Int /\ d \in Int
    BY <2>3, <2>4
  <2>6. d \in low..high /\ d \in 0..99
    BY <2>2, <2>3, <2>4, <2>5
  <2> QED BY <2>6 DEF low, high, d
<1>6. clock' \in Times
  <2>1. \A u \in ToSet(Units) : clock'[u] \in 0..99
    BY <1>5, SixUnits
  <2> QED BY <1>3, <1>5, <2>1 DEF Times
<1>7. PICK k \in 1..6 : /\ clock[Units[k]] < clock'[Units[k]]
                        /\ \A m \in 1..(k - 1) : clock[Units[m]] = clock'[Units[m]]
  BY <1>1, SixUnits DEF Earlier
<1>8. carry(k)
  <2>1. clock[Units[k]] \in Int
    BY <1>4
  <2> QED BY <1>3, <1>7, <2>1
<1>9. ASSUME NEW n \in (k + 1)..6 PROVE clock'[Units[n]] # clock[Units[n]]
  <2>1. n \in 1..6 /\ carry(n) /\ clock[Units[n]] = Highest[Units[n]]
    BY <1>8
  <2>2. clock'[Units[n]] = Lowest[Units[n]]
    BY <1>3, <2>1
  <2>3. Lowest[Units[n]] \in 0..99 /\ Highest[Units[n]] \in 0..99 /\ Lowest[Units[n]] < Highest[Units[n]]
    BY <1>4, <2>1
  <2> QED BY <2>1, <2>2, <2>3
<1> QED BY <1>6, <1>7, <1>9

\* The registers are read as they are.
LEMMA BcdFacts ==
  ASSUME ClockAssumption, clock \in Times, NEW u \in ToSet(Units)
  PROVE  getTimeGen(u) = clock[u] /\ clock[u] \in 0..99
<1>1. clock[u] \in 0..99
  BY DEF Times
<1>2. ASSUME NEW tens \in 0..9, NEW ones \in 0..9
      PROVE  (16 * tens + ones) \div 16 = tens /\ (16 * tens + ones) % 16 = ones
  OBVIOUS
<1>3. \A c \in 0..99 : /\ c \div 10 \in 0..9 /\ c % 10 \in 0..9
                       /\ c = (c \div 10) * 10 + (c % 10)
  OBVIOUS
<1> QED BY <1>1, <1>2, <1>3 DEF getTimeGen, bcdToDecimal, Register

LEMMA TimesInt ==
  ASSUME NEW t \in Times
  PROVE  \A n \in 1..6 : t[Units[n]] \in Int
<1> SUFFICES ASSUME NEW n \in 1..6 PROVE t[Units[n]] \in Int
  OBVIOUS
<1>1. t[Units[n]] \in 0..99
  BY SixUnits DEF Times
<1> QED BY <1>1

\* What was read, as far as it has come.
LEMMA FieldsFacts ==
  ASSUME NEW f \in Seq(Int), Len(f) <= 6
  PROVE  Len(f) \in 0..6 /\ \A m \in 1..Len(f) : f[m] \in Int
<1>1. Len(f) \in Nat
  OBVIOUS
<1>2. \A m \in 1..Len(f) : f[m] \in Int
  OBVIOUS
<1>3. \A n \in Nat : n <= 6 => n \in 0..6
  OBVIOUS
<1> QED BY <1>1, <1>2, <1>3

LEMMA FieldsAppend ==
  ASSUME NEW f \in Seq(Int), NEW x \in Int
  PROVE  /\ Append(f, x) \in Seq(Int) /\ Len(Append(f, x)) = Len(f) + 1
         /\ \A m \in 1..Len(f) : Append(f, x)[m] = f[m]
         /\ Append(f, x)[Len(f) + 1] = x
OBVIOUS

\* Then they are not ahead of a later time either.
LEMMA BehindLater ==
  ASSUME NEW k \in 1..6, NEW len \in 0..6, NEW c \in k..6,
         NEW f, \A m \in 1..len : f[m] \in Int,
         NEW s, \A m \in 1..6 : s[Units[m]] \in Int,
         NEW t, \A m \in 1..6 : t[Units[m]] \in Int,
         s[Units[c]] < t[Units[c]], \A n \in k..(c - 1) : t[Units[n]] = s[Units[n]],
         Behind(f, s, k, len)
  PROVE  Behind(f, t, k, len)
<1>1. CASE \A m \in k..len : f[m] = s[Units[m]]
  <2>1. CASE c > len
    BY <1>1, <2>1 DEF Behind
  <2>2. CASE c <= len
    <3>1. c \in k..len /\ f[c] < t[Units[c]]
      BY <1>1, <2>2
    <3>2. \A m \in k..(c - 1) : f[m] = t[Units[m]]
      BY <1>1, <2>2
    <3> QED BY <3>1, <3>2 DEF Behind
  <2> QED BY <2>1, <2>2
<1>2. CASE \E n \in k..len : f[n] < s[Units[n]] /\ \A m \in k..(n - 1) : f[m] = s[Units[m]]
  <2>1. PICK n \in k..len : f[n] < s[Units[n]] /\ \A m \in k..(n - 1) : f[m] = s[Units[m]]
    BY <1>2
  <2>2. CASE n <= c
    <3>1. f[n] < t[Units[n]]
      <4>1. s[Units[n]] \in Int /\ t[Units[n]] \in Int /\ f[n] \in Int
        OBVIOUS
      <4>2. s[Units[n]] <= t[Units[n]]
        BY <2>2, <4>1
      <4> QED BY <2>1, <4>1, <4>2
    <3>2. \A m \in k..(n - 1) : f[m] = t[Units[m]]
      BY <2>1, <2>2
    <3> QED BY <3>1, <3>2 DEF Behind
  <2>3. CASE n > c
    <3>1. c \in k..len /\ f[c] < t[Units[c]]
      BY <2>1, <2>3
    <3>2. \A m \in k..(c - 1) : f[m] = t[Units[m]]
      BY <2>1, <2>3
    <3> QED BY <3>1, <3>2 DEF Behind
  <2> QED BY <2>2, <2>3
<1> QED BY <1>1, <1>2 DEF Behind

\* One more, read of s itself or of a unit before the k-th.
LEMMA BehindMore ==
  ASSUME NEW k \in 1..6, NEW len \in 0..5, NEW f, NEW g, NEW s,
         \A m \in 1..len : g[m] = f[m],
         len + 1 >= k => g[len + 1] = s[Units[len + 1]],
         Behind(f, s, k, len)
  PROVE  Behind(g, s, k, len + 1)
<1>1. CASE \A m \in k..len : f[m] = s[Units[m]]
  BY <1>1 DEF Behind
<1>2. CASE \E n \in k..len : f[n] < s[Units[n]] /\ \A m \in k..(n - 1) : f[m] = s[Units[m]]
  BY <1>2 DEF Behind
<1> QED BY <1>1, <1>2 DEF Behind

\* A tick leaves what was read not ahead, since the clock only goes forward.
LEMMA NotPastTick ==
  ASSUME ClockAssumption, clock \in Times, Tick, NEW k \in 1..6,
         Len(fields) \in 0..6, \A m \in 1..Len(fields) : fields[m] \in Int,
         \A n \in 1..(k - 1) : clock'[Units[n]] = clock[Units[n]], NotPast(k)
  PROVE  NotPast(k)'
<1>1. clock' \in Times /\ fields' = fields
  BY TickFacts DEF Tick
<1>2. /\ \A n \in 1..6 : clock[Units[n]] \in Int
      /\ \A n \in 1..6 : clock'[Units[n]] \in Int
  BY <1>1, TimesInt
<1>3. PICK c \in 1..6 : /\ \A n \in 1..(c - 1) : clock'[Units[n]] = clock[Units[n]]
                        /\ clock'[Units[c]] > clock[Units[c]]
  BY TickFacts
<1>4. c \in k..6 /\ clock[Units[c]] < clock'[Units[c]]
  <2>1. clock[Units[c]] < clock'[Units[c]] /\ clock'[Units[c]] # clock[Units[c]]
    <3>1. clock[Units[c]] \in Int /\ clock'[Units[c]] \in Int /\ clock'[Units[c]] > clock[Units[c]]
      BY <1>2, <1>3
    <3> QED BY <3>1
  <2>2. c \notin 1..(k - 1)
    BY <2>1
  <2> QED BY <2>1, <2>2
<1>5. \A n \in k..(c - 1) : clock'[Units[n]] = clock[Units[n]]
  BY <1>3
<1>6. Behind(fields, clock', k, Len(fields))
  BY <1>2, <1>4, <1>5, BehindLater DEF NotPast
<1> QED BY <1>1, <1>6 DEF NotPast


LEMMA OrderFacts ==
  /\ Len(Order) = 6 /\ DOMAIN Order = 1..6
  /\ \A n \in 1..6 : Order[n] \in ToSet(Units)
  /\ reader = "time" => Order[1] = Units[3] /\ Order[2] = Units[2] /\ Order[3] = Units[1]
  /\ \A n \in 1..6 : reader # "time" \/ n >= 4 => Order[n] = Units[n]
  /\ \A n, m \in 1..6 : Order[n] = Order[m] => n = m
<1>1. Len(Order) = 6 /\ DOMAIN Order = 1..6
  BY DEF Order, time, getTimeOfDay
<1>2. \A n \in 1..6 : n = 1 \/ n = 2 \/ n = 3 \/ n = 4 \/ n = 5 \/ n = 6
  OBVIOUS
<1>3. CASE reader = "time"
  <2>1. /\ Order[1] = "DAY" /\ Order[2] = "MONTH" /\ Order[3] = "YEAR"
        /\ Order[4] = "HOURS" /\ Order[5] = "MINUTES" /\ Order[6] = "SECONDS"
    BY <1>3 DEF Order, time, YEAR, MONTH, DAY, HOURS, MINUTES, SECONDS
  <2>2. \A n, m \in 1..6 : Order[n] = Order[m] => n = m
    BY <1>2, <2>1
  <2>3. \A n \in 1..6 : Order[n] \in ToSet(Units)
    BY <1>2, <2>1, SixUnits
  <2>4. Order[4] = Units[4] /\ Order[5] = Units[5] /\ Order[6] = Units[6]
    BY <2>1, SixUnits
  <2>5. \A n \in 1..6 : n >= 4 => Order[n] = Units[n]
    BY <1>2, <2>4
  <2> QED BY <1>1, <1>3, <2>1, <2>2, <2>3, <2>5, SixUnits
<1>4. CASE reader # "time"
  <2>1. Order = Units
    BY <1>4 DEF Order, getTimeOfDay, Units
  <2> QED BY <1>1, <1>4, <2>1, SixUnits
<1> QED BY <1>3, <1>4

\* Which read gave a unit of the reading.
LEMMA ReadingFacts ==
  /\ \A n \in 1..6 : Reading[Order[n]] = fields[n]
  /\ Reading \in [ToSet(Units) -> {Reading[u] : u \in ToSet(Units)}]
<1>1. \A n \in 1..6 : (CHOOSE m \in DOMAIN Order : Order[m] = Order[n]) = n
  BY OrderFacts
<1> QED BY <1>1, OrderFacts DEF Reading

\* Only the parts of the time that the tick leaves alone are still claimed.
LEMMA ClockTick ==
  ASSUME ClockAssumption, ClockInv, Tick
  PROVE  ClockInv'
<1>1. /\ clock' \in Times /\ fields' = fields /\ reader' = reader
      /\ moments' = moments \union {clock'}
  BY TickFacts DEF Tick, ClockInv, ClockTypes
<1>2. PICK k \in 1..6 :
              /\ \A n \in 1..(k - 1) : clock'[Units[n]] = clock[Units[n]]
              /\ clock'[Units[k]] > clock[Units[k]]
              /\ \A n \in (k + 1)..6 : clock'[Units[n]] # clock[Units[n]]
  BY TickFacts DEF ClockInv, ClockTypes
<1>3. ClockTypes'
  BY <1>1 DEF ClockInv, ClockTypes
<1>4. \A n \in 1..6 : n >= k => clock'[Units[n]] # clock[Units[n]]
  <2>1. clock'[Units[k]] \in Int /\ clock[Units[k]] \in Int
    BY <1>1, TimesInt DEF ClockInv, ClockTypes
  <2>2. clock'[Units[k]] # clock[Units[k]]
    BY <1>2, <2>1
  <2> QED BY <1>2, <2>2
<1>5. clock \in Times /\ Len(fields) \in 0..6 /\ \A m \in 1..Len(fields) : fields[m] \in Int
  BY FieldsFacts DEF ClockInv, ClockTypes
<1>6. reader' = "getTimeOfDay" => NotPast(1)'
  <2>1. \A n \in 1..(1 - 1) : clock'[Units[n]] = clock[Units[n]]
    OBVIOUS
  <2> QED BY <1>1, <1>5, <2>1, NotPastTick DEF ClockInv
<1>7. Order' = Order
  BY <1>1 DEF Order
<1>8. ASSUME reader' = "time", SameDay' PROVE RightDay'
  <2>1. clock'[DAY] = clock[DAY] /\ SameDay
    BY <1>1, <1>8 DEF SameDay, ClockInv, ClockTypes
  <2>2. k > 3 /\ \A n \in 1..3 : clock'[Units[n]] = clock[Units[n]]
    BY <1>2, <1>4, <2>1, SixUnits DEF DAY
  <2>3. NotPast(4)'
    <3>1. \A n \in 1..(4 - 1) : clock'[Units[n]] = clock[Units[n]]
      BY <2>2
    <3> QED BY <1>1, <1>5, <1>8, <2>1, <3>1, NotPastTick DEF ClockInv, RightDay
  <2>4. \A m \in 1..3 : clock'[Order[m]] = clock[Order[m]]
    <3>1. clock'[Units[1]] = clock[Units[1]] /\ clock'[Units[2]] = clock[Units[2]] /\ clock'[Units[3]] = clock[Units[3]]
      BY <2>2
    <3>2. clock'[Order[1]] = clock[Order[1]] /\ clock'[Order[2]] = clock[Order[2]] /\ clock'[Order[3]] = clock[Order[3]]
      BY <1>1, <1>8, <3>1, OrderFacts
    <3>3. \A m \in 1..3 : m = 1 \/ m = 2 \/ m = 3
      OBVIOUS
    <3> QED BY <3>2, <3>3
  <2>5. \A m \in 1..Len(fields) : m <= 3 => fields[m] = clock'[Order[m]]
    <3>1. \A m \in 1..Len(fields) : m <= 3 => m \in 1..3 /\ fields[m] = clock[Order[m]]
      BY <1>1, <1>5, <1>8, <2>1 DEF ClockInv, RightDay
    <3> QED BY <2>4, <3>1
  <2> QED BY <1>1, <1>7, <2>3, <2>5 DEF RightDay
<1>9. ASSUME reader' # "nobody", SameMinute' PROVE RightMinute'
  <2>1. clock'[MINUTES] = clock[MINUTES] /\ SameMinute /\ RightMinute
    BY <1>1, <1>9 DEF SameMinute, ClockInv, ClockTypes
  <2>2. k > 5 /\ \A n \in 1..5 : clock'[Units[n]] = clock[Units[n]]
    BY <1>2, <1>4, <2>1, SixUnits DEF MINUTES
  <2>3. \A m \in 1..5 : clock'[Order[m]] = clock[Order[m]]
    <3>1. \A m \in 1..5 : \E n \in 1..5 : Order[m] = Units[n]
      <4>1. \A m \in 1..5 : m = 1 \/ m = 2 \/ m = 3 \/ m >= 4
        OBVIOUS
      <4> QED BY <4>1, OrderFacts
    <3> QED BY <2>2, <3>1
  <2>4. \A m \in 1..Len(fields) : m <= 5 => fields[m] = clock'[Order[m]]
    <3>1. \A m \in 1..Len(fields) : m <= 5 => m \in 1..5 /\ fields[m] = clock[Order[m]]
      BY <1>5, <2>1 DEF RightMinute
    <3> QED BY <2>3, <3>1
  <2>5. ASSUME Len(fields) = 6
        PROVE  \E s \in moments' : s[SECONDS] = fields[6] /\ \A n \in 1..5 : s[Units[n]] = clock'[Units[n]]
    BY <1>1, <2>1, <2>2, <2>5 DEF RightMinute
  <2> QED BY <1>1, <1>7, <2>4, <2>5 DEF RightMinute
<1> QED BY <1>3, <1>6, <1>8, <1>9 DEF ClockInv

\* A unit is read as it is now.
LEMMA ClockRead ==
  ASSUME ClockAssumption, ClockInv, getTime
  PROVE  ClockInv'
<1> DEFINE n == Len(fields)
<1>1. /\ reader # "nobody" /\ reader' = reader /\ clock' = clock /\ moments' = moments
      /\ n \in 0..5
  <2>1. n \in 0..6 /\ n < 6
    BY FieldsFacts, OrderFacts DEF getTime, ClockInv, ClockTypes
  <2> QED BY <2>1 DEF getTime, ClockInv, ClockTypes
<1>2. n + 1 \in 1..6 /\ Order[n + 1] \in ToSet(Units)
  <2>1. \A i \in 0..5 : i + 1 \in 1..6
    OBVIOUS
  <2> QED BY <1>1, <2>1, OrderFacts
<1>3. getTimeGen(Order[n + 1]) = clock[Order[n + 1]] /\ clock[Order[n + 1]] \in 0..99
  BY <1>2, BcdFacts DEF ClockInv, ClockTypes
<1>4. /\ fields' \in Seq(Int) /\ Len(fields') = n + 1
      /\ \A m \in 1..n : fields'[m] = fields[m]
      /\ fields'[n + 1] = clock[Order[n + 1]]
  <2>1. fields' = Append(fields, clock[Order[n + 1]]) /\ clock[Order[n + 1]] \in Int
    <3>1. \A c \in 0..99 : c \in Int
      OBVIOUS
    <3> QED BY <1>3, <3>1 DEF getTime
  <2> QED BY <2>1, FieldsAppend DEF ClockInv, ClockTypes
<1>5. Order' = Order /\ SameDay' = SameDay /\ SameMinute' = SameMinute
  BY <1>1 DEF Order, SameDay, SameMinute
<1>6. ClockTypes'
  <2>1. Len(fields') <= 6
    <3>1. \A i \in 0..5 : i + 1 <= 6
      OBVIOUS
    <3> QED BY <1>1, <1>4, <3>1
  <2> QED BY <1>1, <1>4, <2>1 DEF ClockInv, ClockTypes
<1>7. ASSUME NEW k \in 1..6, NotPast(k), reader # "time" \/ k >= 4 PROVE NotPast(k)'
  <2>1. n + 1 >= k => fields'[n + 1] = clock[Units[n + 1]]
    <3>1. \A i \in 1..6 : reader # "time" \/ i >= 4 => Order[i] = Units[i]
      BY OrderFacts
    <3>2. \A i \in 1..6 : i >= k => reader # "time" \/ i >= 4
      BY <1>7
    <3> QED BY <1>2, <1>4, <3>1, <3>2
  <2>2. Behind(fields', clock, k, n + 1)
    BY <1>1, <1>4, <1>7, <2>1, BehindMore DEF NotPast
  <2> QED BY <1>1, <1>4, <2>2 DEF NotPast
<1>8. reader' = "getTimeOfDay" => NotPast(1)'
  BY <1>1, <1>7 DEF ClockInv
<1>9. ASSUME reader' = "time", SameDay' PROVE RightDay'
  <2>1. RightDay
    BY <1>1, <1>5, <1>9 DEF ClockInv
  <2>2. \A m \in 1..(n + 1) : m <= 3 => fields'[m] = clock[Order[m]]
    <3>1. \A m \in 1..(n + 1) : m = n + 1 \/ m \in 1..n
      BY <1>1
    <3> QED BY <1>4, <2>1, <3>1 DEF RightDay
  <2> QED BY <1>1, <1>4, <1>5, <1>7, <2>1, <2>2 DEF RightDay
<1>10. ASSUME SameMinute' PROVE RightMinute'
  <2>1. RightMinute
    BY <1>1, <1>5, <1>10 DEF ClockInv
  <2>2. \A m \in 1..(n + 1) : m <= 5 => fields'[m] = clock[Order[m]]
    <3>1. \A m \in 1..(n + 1) : m = n + 1 \/ m \in 1..n
      BY <1>1
    <3> QED BY <1>4, <2>1, <3>1 DEF RightMinute
  <2>3. n + 1 = 6 => fields'[6] = clock[SECONDS] /\ clock \in moments
    <3>1. Order[6] = SECONDS
      BY OrderFacts, SixUnits DEF SECONDS
    <3>2. clock \in moments
      BY <1>1 DEF ClockInv, ClockTypes
    <3> QED BY <1>4, <3>1, <3>2
  <2> QED BY <1>1, <1>4, <1>5, <2>2, <2>3 DEF RightMinute
<1> QED BY <1>6, <1>8, <1>9, <1>10 DEF ClockInv

LEMMA ClockStart == ClockAssumption /\ ClockInit => ClockInv
<1> SUFFICES ASSUME ClockAssumption, ClockInit PROVE ClockInv
  OBVIOUS
<1>1. PICK full \in SUBSET ToSet(Units) :
        clock = [u \in ToSet(Units) |-> IF u \in full THEN Highest[u] ELSE Lowest[u]]
  BY DEF ClockInit
<1>2. clock \in Times
  <2>1. \A u \in ToSet(Units) : clock[u] \in 0..99 /\ clock[u] \in Lowest[u]..Highest[u]
    <3> SUFFICES ASSUME NEW u \in ToSet(Units)
                 PROVE  clock[u] \in 0..99 /\ clock[u] \in Lowest[u]..Highest[u]
      OBVIOUS
    <3>1. Lowest[u] \in 0..99 /\ Highest[u] \in 0..99 /\ Lowest[u] < Highest[u]
      BY DEF ClockAssumption
    <3>2. clock[u] = Highest[u] \/ clock[u] = Lowest[u]
      BY <1>1
    <3> QED BY <3>1, <3>2
  <2> QED BY <1>1, <2>1, SixUnits DEF Times
<1> QED BY <1>2 DEF ClockInit, ClockInv, ClockTypes

LEMMA ClockStep == ClockAssumption /\ ClockInv /\ [ClockNext]_clockVars => ClockInv'
<1> SUFFICES ASSUME ClockAssumption, ClockInv, [ClockNext]_clockVars PROVE ClockInv'
  OBVIOUS
<1>1. CASE Tick
  BY <1>1, ClockTick
<1>2. CASE getTime
  BY <1>2, ClockRead
<1>3. ASSUME NEW r \in {"getTimeOfDay", "time"}, Begin(r) PROVE ClockInv'
  <2>1. reader' = r /\ fields' = << >> /\ moments' = {clock} /\ clock' = clock /\ clock \in Times
    BY <1>3 DEF Begin, ClockInv, ClockTypes
  <2>2. ClockTypes'
    BY <2>1 DEF ClockTypes
  <2>3. \A k \in 1..6 : NotPast(k)'
    BY <2>1 DEF NotPast, Behind
  <2> QED BY <2>1, <2>2, <2>3 DEF ClockInv, RightDay, RightMinute
<1>4. CASE Deliver
  BY <1>4 DEF Deliver, ClockInv, ClockTypes
<1>5. CASE UNCHANGED clockVars
  BY <1>5 DEF clockVars, ClockInv, ClockTypes, RightDay, RightMinute, NotPast, SameDay, SameMinute, Order
<1> QED BY <1>1, <1>2, <1>3, <1>4, <1>5 DEF ClockNext

\* For any first and last values of the units, and however many ticks fall between
\* the reads of a reading: neither sleep() nor the scheduler ever has a time that
\* the clock has not reached, and the command time has none but at midnight.
THEOREM NeverReadAhead ==
  ASSUME ClockAssumption
  PROVE  ClockSpec => []NeverAhead
<1>1. ClockInit => ClockInv
  BY ClockStart
<1>2. ClockInv /\ [ClockNext]_clockVars => ClockInv'
  BY ClockStep
<1>3. ClockInv => NeverAhead
  <2> SUFFICES ASSUME ClockInv, Complete, reader = "time" => SameDay
               PROVE  /\ ~Earlier(clock, Reading)
                      /\ SameMinute => Reading \in moments
    BY DEF NeverAhead, SameDay, SameMinute
  <2>1. Len(fields) = 6 /\ reader # "nobody" /\ \A m \in 1..6 : fields[m] \in Int
    <3>1. Len(fields) = 6 /\ reader # "nobody"
      BY OrderFacts DEF Complete, ClockInv, ClockTypes
    <3>2. \A m \in 1..Len(fields) : fields[m] \in Int
      BY FieldsFacts DEF ClockInv, ClockTypes
    <3> QED BY <3>1, <3>2
  <2>2. \A m \in 1..6 : clock[Units[m]] \in Int
    BY TimesInt DEF ClockInv, ClockTypes
  <2>3. PICK k \in 1..6 :
          /\ NotPast(k)
          /\ \A n \in 1..6 : Reading[Units[n]] = IF n < k THEN clock[Units[n]] ELSE fields[n]
    <3>1. CASE reader = "time"
      <4>1. RightDay
        BY <3>1 DEF ClockInv
      <4>2. Reading[Units[1]] = clock[Units[1]] /\ Reading[Units[2]] = clock[Units[2]]
            /\ Reading[Units[3]] = clock[Units[3]]
        BY <2>1, <3>1, <4>1, OrderFacts, ReadingFacts DEF RightDay
      <4>3. \A n \in 1..6 : n >= 4 => Reading[Units[n]] = fields[n]
        BY OrderFacts, ReadingFacts
      <4>4. \A n \in 1..6 : n = 1 \/ n = 2 \/ n = 3 \/ n >= 4
        OBVIOUS
      <4>5. \A n \in 1..6 : Reading[Units[n]] = IF n < 4 THEN clock[Units[n]] ELSE fields[n]
        BY <4>2, <4>3, <4>4
      <4> QED BY <4>1, <4>5 DEF RightDay
    <3>2. CASE reader # "time"
      <4>1. NotPast(1)
        BY <2>1, <3>2 DEF ClockInv, ClockTypes
      <4>2. \A n \in 1..6 : Reading[Units[n]] = fields[n]
        BY <3>2, OrderFacts, ReadingFacts
      <4> QED BY <4>1, <4>2
    <3> QED BY <3>1, <3>2
  <2>4. ~Earlier(clock, Reading)
    <3> SUFFICES ASSUME NEW n \in 1..6, clock[Units[n]] < Reading[Units[n]],
                        \A m \in 1..(n - 1) : clock[Units[m]] = Reading[Units[m]]
                 PROVE  FALSE
      BY SixUnits DEF Earlier
    <3>1. n >= k /\ clock[Units[n]] < fields[n]
      BY <2>2, <2>3
    <3>2. \A m \in k..(n - 1) : fields[m] = clock[Units[m]]
      BY <2>3
    <3>3. CASE \A m \in k..6 : fields[m] = clock[Units[m]]
      BY <2>2, <3>1, <3>3
    <3>4. CASE \E i \in k..6 : fields[i] < clock[Units[i]] /\ \A m \in k..(i - 1) : fields[m] = clock[Units[m]]
      <4>1. PICK i \in k..6 : fields[i] < clock[Units[i]] /\ \A m \in k..(i - 1) : fields[m] = clock[Units[m]]
        BY <3>4
      <4>2. i = n
        BY <2>1, <2>2, <3>1, <3>2, <4>1
      <4> QED BY <2>1, <2>2, <3>1, <4>1, <4>2
    <3> QED BY <2>1, <2>3, <3>3, <3>4 DEF NotPast, Behind
  <2>5. ASSUME SameMinute PROVE Reading \in moments
    <3>1. RightMinute
      BY <2>1, <2>5 DEF ClockInv
    <3>2. PICK s \in moments : s[SECONDS] = fields[6] /\ \A n \in 1..5 : s[Units[n]] = clock[Units[n]]
      BY <2>1, <3>1 DEF RightMinute
    <3>3. \A n \in 1..6 : Reading[Order[n]] = s[Order[n]]
      <4>1. \A n \in 1..5 : Reading[Order[n]] = clock[Order[n]]
        BY <2>1, <3>1, ReadingFacts DEF RightMinute
      <4>2. \A n \in 1..5 : \E m \in 1..5 : Order[n] = Units[m]
        <5>1. \A n \in 1..5 : n = 1 \/ n = 2 \/ n = 3 \/ n >= 4
          OBVIOUS
        <5> QED BY <5>1, OrderFacts
      <4>3. Reading[Order[6]] = s[Order[6]]
        BY <3>2, OrderFacts, ReadingFacts, SixUnits DEF SECONDS
      <4>4. \A n \in 1..6 : n \in 1..5 \/ n = 6
        OBVIOUS
      <4> QED BY <3>2, <4>1, <4>2, <4>3, <4>4
    <3>4. \A u \in ToSet(Units) : \E n \in 1..6 : Order[n] = u
      <4>1. \A m \in 1..6 : m = 1 \/ m = 2 \/ m = 3 \/ m >= 4
        OBVIOUS
      <4>2. \A m \in 1..6 : \E n \in 1..6 : Order[n] = Units[m]
        BY <4>1, OrderFacts
      <4> QED BY <4>2, SixUnits
    <3>5. s \in [ToSet(Units) -> 0..99]
      BY DEF ClockInv, ClockTypes, Times
    <3>6. Reading = s
      <4>1. \A u \in ToSet(Units) : Reading[u] = s[u]
        BY <3>3, <3>4
      <4>2. s = [u \in ToSet(Units) |-> s[u]]
        BY <3>5
      <4>3. Reading = [u \in ToSet(Units) |-> Reading[u]]
        BY ReadingFacts
      <4> QED BY <4>1, <4>2, <4>3
    <3> QED BY <3>6
  <2> QED BY <2>4, <2>5
<1> QED BY <1>1, <1>2, <1>3, PTL DEF ClockSpec

-----------------------------------------------------------------------------
(* Video.                                                                  *)

\* The row of the paper that the screen begins with.
Top(r) == IF r < height THEN 0 ELSE r - height + 1

\* v shows p from the top row on, and p is blank from behind row r on.
Shows(v, p, r) ==
  /\ DOMAIN p = PaperCells
  /\ \A x \in Cells : v[x] = p[x + Top(r) * width]
  /\ \A x \in PaperCells : x >= (r + 1) * width => p[x] = Blank

\* The cursor of the screen and that of the paper agree, and so do their texts.
Agree ==
  /\ row \in Nat /\ row < MaxRows /\ col \in Nat /\ col < width
  /\ currentX = col /\ currentY = row - Top(row)
  /\ Shows(video, paper, row)

VideoInv == slipped = {} => Agree

LEMMA Distribute ==
  /\ \A a, b, w \in Int : (a + b) * w = a * w + b * w /\ (a - b) * w = a * w - b * w
  /\ \A a, w \in Int : a * w \in Int /\ a * w = w * a
  /\ \A a, b, w \in Nat : a <= b => a * w <= b * w
OBVIOUS

\* A cell is in one row and one column.
LEMMA RowAndColumn ==
  ASSUME NEW w \in Nat, NEW r \in Nat, NEW c \in Nat, c < w
  PROVE  (r * w + c) \div w = r /\ (r * w + c) % w = c
<1> DEFINE n == r * w + c
           q == n \div w
           m == n % w
<1>1. r * w \in Nat
  OBVIOUS
<1>2. n \in Nat /\ q \in Int /\ m \in 0..(w - 1) /\ n = q * w + m
  <2>1. n \in Nat
    BY <1>1
  <2> HIDE DEF n
  <2> QED BY <2>1
<1> HIDE DEF q, m
<1>3. (q - r) * w = c - m
  <2>1. q * w + m = r * w + c
    BY <1>2
  <2> QED BY <1>1, <1>2, <2>1, Distribute
<1>4. CASE q > r
  <2>1. (q - r) * w >= w
    BY <1>2, <1>4
  <2> QED BY <1>2, <1>3, <2>1
<1>5. CASE q < r
  <2>1. (r - q) * w >= w
    BY <1>2, <1>5
  <2>2. (r - q) * w = m - c
    BY <1>2, <1>3
  <2> QED BY <1>2, <2>1, <2>2
<1>6. CASE q = r
  BY <1>1, <1>2, <1>6 DEF q, m
<1> QED BY <1>2, <1>4, <1>5, <1>6

\* The screen lies on the paper.
LEMMA Geometry ==
  ASSUME VideoAssumption, NEW r \in Nat, r < MaxRows
  PROVE  /\ Top(r) \in Nat /\ r - Top(r) \in Nat /\ r - Top(r) < height
         /\ r * width \in Nat /\ Top(r) * width \in Nat
         /\ (r - Top(r)) * width = r * width - Top(r) * width
         /\ (r + 1) * width = r * width + width
         /\ \A x \in Cells : x + Top(r) * width \in PaperCells
<1>1. width \in Nat /\ width > 0 /\ height \in Nat /\ height >= 2 /\ MaxRows \in Nat /\ MaxRows > height
  BY DEF VideoAssumption
<1>2. Top(r) \in Nat /\ r - Top(r) \in Nat /\ r - Top(r) < height /\ Top(r) + height <= MaxRows
  BY <1>1 DEF Top
<1>3. r * width \in Nat /\ Top(r) * width \in Nat
  BY <1>1, <1>2, Distribute
<1>4. (r - Top(r)) * width = r * width - Top(r) * width
  BY <1>1, <1>2, Distribute
<1>5. (r + 1) * width = r * width + width
  BY <1>1, Distribute
<1>6. Top(r) * width + width * height <= width * MaxRows
  <2>1. (Top(r) + height) * width <= MaxRows * width
    BY <1>1, <1>2, Distribute
  <2>2. (Top(r) + height) * width = Top(r) * width + height * width
    BY <1>1, <1>2, Distribute
  <2>3. height * width = width * height /\ MaxRows * width = width * MaxRows
    BY <1>1, Distribute
  <2> QED BY <2>1, <2>2, <2>3
<1>7. width * height \in Nat /\ width * MaxRows \in Nat
  BY <1>1, Distribute
<1>8. \A x \in Cells : x + Top(r) * width \in PaperCells
  BY <1>3, <1>6, <1>7 DEF Cells, PaperCells
<1> QED BY <1>2, <1>3, <1>4, <1>5, <1>8

\* A character goes to the same place of the screen and of the paper.
LEMMA StoredShows ==
  ASSUME VideoAssumption, Agree, NEW x \in Nat, x < width, NEW c
  PROVE  Shows([p \in Cells |-> IF p = currentY * width + x THEN c ELSE video[p]],
               [paper EXCEPT ![row * width + x] = c], row)
<1>1. /\ row \in Nat /\ row < MaxRows /\ currentY = row - Top(row)
      /\ DOMAIN paper = PaperCells
      /\ \A p \in Cells : video[p] = paper[p + Top(row) * width]
      /\ \A p \in PaperCells : p >= (row + 1) * width => paper[p] = Blank
  BY DEF Agree, Shows
<1>2. width \in Nat
  BY DEF VideoAssumption
<1>3. PICK a \in Nat : a = row * width
  BY <1>1, Geometry
<1>4. PICK b \in Nat : b = Top(row) * width
  BY <1>1, Geometry
<1>5. currentY * width = a - b /\ (row + 1) * width = a + width
  BY <1>1, <1>3, <1>4, Geometry
<1>6. \A p \in Cells : p \in Int /\ p + b \in PaperCells
  BY <1>1, <1>4, Geometry DEF Cells
<1>7. \A p \in PaperCells : p \in Int
  BY DEF PaperCells
<1> DEFINE v == [p \in Cells |-> IF p = currentY * width + x THEN c ELSE video[p]]
           pa == [paper EXCEPT ![row * width + x] = c]
<1>8. DOMAIN pa = PaperCells /\ \A p \in PaperCells : pa[p] = IF p = a + x THEN c ELSE paper[p]
  BY <1>1, <1>3
<1>9. \A p \in Cells : v[p] = IF p = a - b + x THEN c ELSE paper[p + b]
  BY <1>1, <1>4, <1>5
<1> HIDE DEF v, pa
<1>10. \A p \in Cells : v[p] = pa[p + b]
  BY <1>6, <1>8, <1>9
<1>11. \A p \in PaperCells : p >= a + width => pa[p] = Blank
  BY <1>1, <1>2, <1>5, <1>7, <1>8
<1>12. Shows(v, pa, row)
  BY <1>4, <1>5, <1>8, <1>10, <1>11 DEF Shows
<1> QED BY <1>12 DEF v, pa

\* At the last row the screen moves down the paper, before it the cursor.
LEMMA NextRowShows ==
  ASSUME VideoAssumption, row \in Nat, row < MaxRows - 1, currentY = row - Top(row),
         NEW v, NEW p, Shows(v, p, row), NextRow(v), paper' = p, row' = row + 1, col' = 0
  PROVE  Agree'
<1>1. /\ width \in Nat /\ width > 0 /\ height \in Nat /\ height >= 2
      /\ MaxRows \in Nat /\ MaxRows > height
  BY DEF VideoAssumption
<1>2. /\ row + 1 \in Nat /\ row + 1 < MaxRows /\ row < MaxRows
      /\ Top(row) \in Nat /\ Top(row) * width \in Nat /\ row * width \in Nat
      /\ \A x \in Cells : x \in Int /\ x + Top(row) * width \in PaperCells
      /\ \A x \in Cells : x + Top(row + 1) * width \in PaperCells
      /\ (row + 1) * width = row * width + width
      /\ ((row + 1) + 1) * width = (row + 1) * width + width
      /\ (row - Top(row)) * width = row * width - Top(row) * width
  <2>1. row + 1 \in Nat /\ row + 1 < MaxRows /\ row < MaxRows
    BY <1>1
  <2> QED BY <2>1, Geometry DEF Cells
<1>3. /\ DOMAIN p = PaperCells
      /\ \A x \in Cells : v[x] = p[x + Top(row) * width]
      /\ \A x \in PaperCells : x >= (row + 1) * width => p[x] = Blank
  BY DEF Shows
<1>4. \A x \in PaperCells : x >= ((row + 1) + 1) * width => p[x] = Blank
  <2>1. \A x \in PaperCells : x \in Int
    BY DEF PaperCells
  <2>2. (row + 1) * width \in Int
    BY <1>1, <1>2, Distribute
  <2> QED BY <1>1, <1>2, <1>3, <2>1, <2>2
<1>5. CASE currentY + 1 = height
  <2>1. currentY' = currentY /\ video' = scroll(v) /\ currentX' = 0
    BY <1>5 DEF NextRow
  <2>2. Top(row + 1) = Top(row) + 1 /\ currentY = (row + 1) - Top(row + 1) /\ row + 1 = Top(row) + height
    BY <1>1, <1>5 DEF Top
  <2>3. Top(row + 1) * width = Top(row) * width + width
    BY <1>1, <1>2, <2>2, Distribute
  <2>4. (row + 1) * width = Top(row) * width + width * height /\ width * height \in Int
    BY <1>1, <1>2, <2>2, Distribute
  <2>5. ASSUME NEW x \in Cells PROVE video'[x] = p[x + Top(row + 1) * width]
    <3>1. video'[x] = IF x + width \in Cells THEN v[x + width] ELSE Blank
      BY <2>1 DEF scroll
    <3>2. CASE x + width \in Cells
      <4>1. (x + width) + Top(row) * width = x + (Top(row) * width + width)
        BY <1>1, <1>2
      <4> QED BY <1>3, <2>3, <3>1, <3>2, <4>1
    <3>3. CASE x + width \notin Cells
      <4>1. x + width >= width * height
        BY <1>1, <2>4, <3>3 DEF Cells
      <4>2. x + Top(row + 1) * width >= (row + 1) * width
        BY <1>1, <1>2, <2>3, <2>4, <4>1
      <4> QED BY <1>2, <1>3, <3>1, <3>3, <4>2
    <3> QED BY <3>2, <3>3
  <2> QED BY <1>1, <1>2, <1>3, <1>4, <2>1, <2>2, <2>5 DEF Agree, Shows
<1>6. CASE currentY + 1 # height
  <2>1. currentY' = currentY + 1 /\ video' = v /\ currentX' = 0
    BY <1>6 DEF NextRow
  <2>2. Top(row + 1) = Top(row) /\ currentY + 1 = (row + 1) - Top(row + 1)
    BY <1>1, <1>6 DEF Top
  <2> QED BY <1>1, <1>2, <1>3, <1>4, <2>1, <2>2 DEF Agree, Shows
<1> QED BY <1>5, <1>6

LEMMA VideoStart == VideoAssumption /\ VideoInit => VideoInv
<1> SUFFICES ASSUME VideoAssumption, VideoInit PROVE Agree
  BY DEF VideoInv
<1>1. 0 < height /\ 0 < MaxRows /\ 0 < width
  BY DEF VideoAssumption
<1>2. Top(0) = 0
  BY <1>1 DEF Top
<1>3. 0 \in Nat /\ \A x \in Cells : x + Top(0) * width \in PaperCells
  BY <1>1, Geometry
<1>4. Shows(video, paper, 0)
  BY <1>3 DEF VideoInit, Shows
<1> QED BY <1>1, <1>2, <1>4 DEF VideoInit, Agree

\* A character is shown, and after the last of a row the next one begins.
LEMMA VideoShow ==
  ASSUME VideoAssumption, Agree, slipped = {}, show
  PROVE  Agree'
<1> DEFINE c == Head(string)
           v == Stored(c)
           pa == [paper EXCEPT ![row * width + col] = c]
<1>1. /\ width \in Nat /\ row \in Nat /\ row < MaxRows - 1 /\ MaxRows \in Nat
      /\ col \in Nat /\ col < width /\ currentX = col /\ currentY = row - Top(row)
  BY DEF VideoAssumption, Agree, show
<1>2. row * width \in Nat
  BY <1>1, Distribute
<1>3. /\ increment(v)
      /\ paper' = pa
      /\ row' = (row * width + col + 1) \div width /\ col' = (row * width + col + 1) % width
  <2>1. (row * width + col + 1) - 1 = row * width + col
    BY <1>1, <1>2
  <2> QED BY <2>1 DEF show, Write
<1>4. Shows(v, pa, row)
  <2>1. Shows([p \in Cells |-> IF p = currentY * width + col THEN c ELSE video[p]], pa, row)
    BY <1>1, StoredShows
  <2> QED BY <1>1, <2>1 DEF Stored
<1> HIDE DEF c, v, pa
<1>5. CASE col + 1 = width
  <2>1. row * width + col + 1 = (row + 1) * width + 0
    <3>1. (row + 1) * width = row * width + width
      BY <1>1, Geometry
    <3> QED BY <1>1, <1>2, <1>5, <3>1
  <2>2. row' = row + 1 /\ col' = 0
    <3>1. row + 1 \in Nat /\ 0 \in Nat /\ 0 < width
      BY <1>1
    <3>2. ((row + 1) * width + 0) \div width = row + 1 /\ ((row + 1) * width + 0) % width = 0
      BY <1>1, <3>1, RowAndColumn
    <3> QED BY <1>3, <2>1, <3>2
  <2>3. NextRow(v)
    BY <1>1, <1>3, <1>5 DEF increment
  <2> QED BY <1>1, <1>3, <1>4, <2>2, <2>3, NextRowShows
<1>6. CASE col + 1 # width
  <2>1. col + 1 \in Nat /\ col + 1 < width /\ row * width + col + 1 = row * width + (col + 1)
    BY <1>1, <1>2, <1>6
  <2>2. row' = row /\ col' = col + 1
    <3>1. (row * width + (col + 1)) \div width = row /\ (row * width + (col + 1)) % width = col + 1
      BY <1>1, <2>1, RowAndColumn
    <3> QED BY <1>3, <2>1, <3>1
  <2>3. currentX' = col + 1 /\ video' = v /\ currentY' = currentY
    BY <1>1, <1>3, <1>6 DEF increment
  <2> QED BY <1>1, <1>3, <1>4, <2>1, <2>2, <2>3 DEF Agree
<1> QED BY <1>5, <1>6

\* A backspace that stays in its row erases the same cell of both.
LEMMA VideoBackspace ==
  ASSUME VideoAssumption, Agree, slipped = {}, slipped' = {}, backspace
  PROVE  Agree'
<1> DEFINE back == IF col = 0 THEN 0 ELSE col - 1
           pa == [paper EXCEPT ![row * width + back] = Blank]
<1>1. /\ width \in Nat /\ row \in Nat /\ row < MaxRows /\ col \in Nat /\ col < width
      /\ currentX = col /\ currentY = row - Top(row)
  BY DEF VideoAssumption, Agree
<1>2. ~(currentX = 0 /\ currentY > 0)
  BY DEF backspace
<1>3. back \in Nat /\ back < width
  BY <1>1
<1>4. /\ currentX' = back /\ currentY' = currentY
      /\ paper' = pa /\ row' = row /\ col' = back
      /\ video' = [p \in Cells |-> IF p = currentY * width + back THEN Blank ELSE video[p]]
  BY <1>1, <1>2 DEF backspace, Write
<1>5. Shows(video', pa, row)
  BY <1>3, <1>4, StoredShows
<1> HIDE DEF back, pa
<1> QED BY <1>1, <1>3, <1>4, <1>5 DEF Agree

LEMMA VideoStep == VideoAssumption /\ VideoInv /\ [VideoNext]_videoVars => VideoInv'
<1> SUFFICES ASSUME VideoAssumption, VideoInv, [VideoNext]_videoVars, slipped' = {} PROVE Agree'
  BY DEF VideoInv
<1>1. slipped = {} /\ Agree
  BY DEF VideoInv, VideoNext, videoVars, printStringLen, new_line, backspace, escape, eof, show
<1>2. CASE show
  BY <1>1, <1>2, VideoShow
<1>3. CASE backspace
  BY <1>1, <1>3, VideoBackspace
<1>4. CASE new_line
  <2>1. NextRow(video) /\ paper' = paper /\ row' = row + 1 /\ col' = 0 /\ row < MaxRows - 1
    BY <1>1, <1>4 DEF new_line, Write
  <2>2. row \in Nat /\ currentY = row - Top(row) /\ Shows(video, paper, row)
    BY <1>1 DEF Agree
  <2> QED BY <2>1, <2>2, NextRowShows
<1>5. CASE UNCHANGED <<video, cursor, roll>>
  BY <1>1, <1>5 DEF cursor, roll, Agree
<1>6. CASE escape /\ ~UNCHANGED <<video, cursor, roll>>
  <2>1. /\ currentX' = 0 /\ currentY' = 0 /\ video' = [p \in Cells |-> Blank]
        /\ paper' = [p \in PaperCells |-> Blank] /\ row' = 0 /\ col' = 0
    BY <1>1, <1>6 DEF escape, Write
  <2>2. 0 < height /\ 0 < MaxRows /\ 0 < width
    BY DEF VideoAssumption
  <2>3. Top(0) = 0 /\ \A x \in Cells : x + Top(0) * width \in PaperCells
    BY <2>2, Geometry DEF Top
  <2>4. Shows(video', paper', 0)
    BY <2>1, <2>3 DEF Shows
  <2> QED BY <2>1, <2>2, <2>3, <2>4 DEF Agree
<1> QED BY <1>2, <1>3, <1>4, <1>5, <1>6
        DEF VideoNext, videoVars, printStringLen, eof, cursor, roll

\* For a screen of any size and any strings: through wrapping, scrolling, erasing
\* and clearing the screen shows the last rows of the text.
THEOREM ScreenIsText ==
  ASSUME VideoAssumption
  PROVE  VideoSpec => []ScreenShowsText
<1>1. VideoInit => VideoInv
  BY VideoStart
<1>2. VideoInv /\ [VideoNext]_videoVars => VideoInv'
  BY VideoStep
<1>3. VideoInv => ScreenShowsText
  BY DEF VideoInv, Agree, Shows, Top, ScreenShowsText
<1> QED BY <1>1, <1>2, <1>3, PTL DEF VideoSpec
=============================================================================
