------------------------------ MODULE DataProofs ------------------------------
(***************************************************************************)
(* Proofs about the parts that pass data on: BootImage, for any kernel,    *)
(* modules, addresses and sizes of the packer's buffer, Filters, for any   *)
(* letters, texts and size of the buffer, Numbers, for ints of any width,  *)
(* any limits and whatever lies behind an argument, and CommandLine, for   *)
(* any size of the line and any MAX_ARGS.                                  *)
(***************************************************************************)
EXTENDS BootImage, Filters, Numbers, CommandLine, SequenceTheorems, FiniteSetTheorems, WellFoundedInduction, TLAPS

-----------------------------------------------------------------------------
(* Recursion on natural numbers.                                           *)

\* A nonempty set of natural numbers has a smallest element.
LEMMA SmallestNumber ==
  ASSUME NEW T, T \subseteq Nat, T # {}
  PROVE  \E x \in T : \A y \in T : x <= y
<1>1. PICK x \in T : \A y \in T : ~(<<y, x>> \in OpToRel(<, Nat))
  BY NatLessThanWellFounded, WFMin
<1>2. \A y \in T : <<y, x>> \in OpToRel(<, Nat) <=> y < x
  BY DEF OpToRel
<1>3. \A y \in T : ~(y < x)
  BY <1>1, <1>2
<1>4. \A y \in T : x \in Nat /\ y \in Nat
  OBVIOUS
<1>5. \A y \in T : x <= y
  BY <1>3, <1>4
<1> QED BY <1>5

\* n steps in V from b, the k-th being step[k].
Run(g, n, V, b, step) ==
  /\ g \in [0..n -> V] /\ g[0] = b
  /\ \A k \in 1..n : g[k] = step[k][g[k - 1]]

LEMMA RunExists ==
  ASSUME NEW n \in Nat, NEW V, NEW b \in V, NEW step \in [1..n -> [V -> V]]
  PROVE  \E g : Run(g, n, V, b, step)
<1> DEFINE T == {k \in Nat : k <= n /\ ~\E g : Run(g, k, V, b, step)}
<1> SUFFICES ASSUME T # {} PROVE FALSE
  OBVIOUS
<1>1. PICK k \in T : \A l \in T : k <= l
  <2>1. T \subseteq Nat
    OBVIOUS
  <2> HIDE DEF T
  <2> QED BY <2>1, SmallestNumber
<1>2. CASE k = 0
  <2> DEFINE h == [l \in 0..0 |-> b]
  <2>1. h \in [0..0 -> V] /\ h[0] = b
    OBVIOUS
  <2>2. 1..0 = {}
    OBVIOUS
  <2> HIDE DEF h
  <2>3. Run(h, 0, V, b, step)
    BY <2>1, <2>2 DEF Run
  <2> QED BY <1>1, <1>2, <2>3
<1>3. CASE k # 0
  <2>1. k - 1 \in Nat /\ k - 1 \notin T /\ k <= n /\ k \in 1..n
    BY <1>1, <1>3
  <2>2. PICK g : Run(g, k - 1, V, b, step)
    BY <2>1
  <2> DEFINE h == [l \in 0..k |-> IF l = k THEN step[k][g[k - 1]] ELSE g[l]]
  <2>3. \A l \in 0..k : h[l] = IF l = k THEN step[k][g[k - 1]] ELSE g[l]
    OBVIOUS
  <2>4. g \in [0..(k - 1) -> V] /\ g[0] = b /\ k - 1 \in 0..(k - 1)
    BY <2>1, <2>2 DEF Run
  <2>5. step[k][g[k - 1]] \in V
    BY <2>1, <2>4
  <2>6. h \in [0..k -> V]
    <3>1. \A l \in 0..k : l # k => l \in 0..(k - 1)
      BY <2>1
    <3> QED BY <2>4, <2>5, <3>1
  <2> HIDE DEF h
  <2>7. h[0] = b
    BY <1>3, <2>1, <2>3, <2>4
  <2>8. ASSUME NEW l \in 1..k PROVE h[l] = step[l][h[l - 1]]
    <3>1. l \in 0..k /\ l - 1 \in 0..k /\ l - 1 # k
      BY <2>1
    <3>2. h[l - 1] = g[l - 1]
      BY <2>3, <3>1
    <3>3. CASE l = k
      BY <2>3, <3>1, <3>2, <3>3
    <3>4. CASE l # k
      <4>1. l \in 1..(k - 1)
        BY <2>1, <3>4
      <4>2. g[l] = step[l][g[l - 1]]
        BY <2>2, <4>1 DEF Run
      <4> QED BY <2>3, <3>1, <3>2, <3>4, <4>2
    <3> QED BY <3>3, <3>4
  <2>9. Run(h, k, V, b, step)
    BY <2>6, <2>7, <2>8 DEF Run
  <2> QED BY <1>1, <2>9
<1> QED BY <1>2, <1>3

-----------------------------------------------------------------------------
(* Numbers in bytes.                                                       *)

Sized == Radix \in Nat /\ Radix > 1 /\ Word \in Nat \ {0}

LEMMA WeightLaws ==
  ASSUME Sized
  PROVE  /\ Weight[0] = 1
         /\ \A k \in 1..Word : Weight[k] = Radix * Weight[k - 1]
         /\ \A k \in 0..Word : Weight[k] \in Nat \ {0}
<1> USE DEF Sized
<1> DEFINE step == [k \in 1..Word |-> [x \in Nat \ {0} |-> Radix * x]]
<1>1. step \in [1..Word -> [Nat \ {0} -> Nat \ {0}]]
  <2>1. ASSUME NEW x \in Nat \ {0} PROVE Radix * x \in Nat \ {0}
    <3>1. \A r, y \in Nat : r > 0 /\ y > 0 => r * y \in Nat /\ r * y > 0
      OBVIOUS
    <3> QED BY <3>1
  <2> QED BY <2>1
<1>2. PICK g : Run(g, Word, Nat \ {0}, 1, step)
  <2> HIDE DEF step
  <2>1. 1 \in Nat \ {0} /\ Word \in Nat
    OBVIOUS
  <2> QED BY <1>1, <2>1, RunExists
<1>3. /\ g \in [0..Word -> Nat \ {0}] /\ g[0] = 1
      /\ \A k \in 1..Word : g[k] = step[k][g[k - 1]]
  <2> HIDE DEF step
  <2> QED BY <1>2 DEF Run
<1>4. \A k \in 0..Word : g[k] = IF k = 0 THEN 1 ELSE Radix * g[k - 1]
  <2>1. ASSUME NEW k \in 1..Word PROVE g[k] = Radix * g[k - 1]
    <3>1. k - 1 \in 0..Word
      OBVIOUS
    <3>2. g[k - 1] \in Nat \ {0}
      BY <1>3, <3>1
    <3> QED BY <1>3, <3>2
  <2>2. \A k \in 0..Word : k = 0 \/ k \in 1..Word
    OBVIOUS
  <2> QED BY <1>3, <2>1, <2>2
<1>5. g = [k \in 0..Word |-> IF k = 0 THEN 1 ELSE Radix * g[k - 1]]
  BY <1>3, <1>4
<1>6. Weight = [k \in 0..Word |-> IF k = 0 THEN 1 ELSE Radix * Weight[k - 1]]
  BY <1>5 DEF Weight
<1>7. \A k \in 0..Word : Weight[k] = IF k = 0 THEN 1 ELSE Radix * Weight[k - 1]
  BY <1>6
<1>8. Weight[0] = 1 /\ \A k \in 1..Word : Weight[k] = Radix * Weight[k - 1]
  <2>1. 0 \in 0..Word /\ \A k \in 1..Word : k \in 0..Word /\ k # 0
    OBVIOUS
  <2> QED BY <1>7, <2>1
<1>9. \A k \in 0..Word : Weight[k] = g[k]
  <2> DEFINE T == {k \in 0..Word : Weight[k] # g[k]}
  <2> SUFFICES ASSUME T # {} PROVE FALSE
    OBVIOUS
  <2>1. PICK k \in T : \A l \in T : k <= l
    <3>1. T \subseteq Nat
      OBVIOUS
    <3> HIDE DEF T
    <3> QED BY <3>1, SmallestNumber
  <2>2. k # 0 /\ k - 1 \in 0..Word
    <3>1. k \in 0..Word /\ Weight[k] # g[k]
      BY <2>1
    <3>2. k # 0
      BY <1>3, <1>8, <3>1
    <3> QED BY <3>1, <3>2
  <2>3. k - 1 \notin T
    BY <2>1, <2>2
  <2> QED BY <1>4, <1>7, <2>1, <2>2, <2>3
<1> QED BY <1>3, <1>8, <1>9

LEMMA DivideTwice ==
  ASSUME NEW n \in Nat, NEW w \in Nat \ {0}, NEW r \in Nat \ {0}
  PROVE  n \div (r * w) = (n \div w) \div r
<1> DEFINE q == n \div w
           a == n % w
           p == q \div r
           c == q % r
<1>1. q \in Nat /\ a \in 0..(w - 1) /\ n = w * q + a
  OBVIOUS
<1>2. p \in Nat /\ c \in 0..(r - 1) /\ q = r * p + c
  BY <1>1
<1> HIDE DEF q, a, p, c
<1>3. n = (r * w) * p + (w * c + a)
  <2>1. w * (r * p + c) = (r * w) * p + w * c
    BY <1>2
  <2>2. w * c \in Nat /\ (r * w) * p \in Nat
    BY <1>2
  <2> QED BY <1>1, <1>2, <2>1, <2>2
<1>4. w * c + a \in 0..(r * w - 1)
  <2>1. w * c + w <= r * w
    <3>1. PICK d \in Nat : r = c + 1 + d
      <4>1. r - c - 1 \in Nat /\ r = c + 1 + (r - c - 1)
        BY <1>2
      <4> QED BY <4>1
    <3>2. (c + 1 + d) * w = w * c + w + d * w /\ d * w \in Nat /\ w * c \in Nat
      BY <1>2, <3>1
    <3> QED BY <3>1, <3>2
  <2>2. w * c \in Nat /\ r * w \in Nat
    BY <1>2
  <2> QED BY <1>1, <2>1, <2>2
<1>5. r * w \in Nat \ {0}
  <2>1. \A x, y \in Nat : x > 0 /\ y > 0 => x * y \in Nat /\ x * y > 0
    OBVIOUS
  <2> QED BY <2>1
<1>6. \A m \in Nat \ {0} : \A x \in Nat : \A y \in 0..(m - 1) : (m * x + y) \div m = x
  OBVIOUS
<1> DEFINE m == r * w
           y == w * c + a
<1>7. m \in Nat \ {0} /\ y \in 0..(m - 1) /\ n = m * p + y
  BY <1>3, <1>4, <1>5
<1> HIDE DEF m, y
<1>8. n \div m = p
  BY <1>2, <1>6, <1>7
<1> QED BY <1>8 DEF m, p, q

\* What is read where the bytes of a number lie is the number: after k bytes it is
\* what n is above the multiple of Weight[k] below it.
LEMMA ReadsBytes ==
  ASSUME Sized, NEW n \in Nat, n < Weight[Word], NEW address,
         \A k \in 1..Word : memory[address + k - 1] = Bytes(n)[k]
  PROVE  readUint32(address) = n
<1> USE DEF Sized
<1> DEFINE E(f, k) == IF k = 0 THEN 0 ELSE f[k - 1] + memory[address + k - 1] * Weight[k - 1]
           low == CHOOSE f : f = [k \in 0..Word |-> E(f, k)]
           rest == [k \in 0..Word |-> n - Weight[k] * (n \div Weight[k])]
<1>1. readUint32(address) = low[Word]
  BY Zenon DEF readUint32
<1>2. /\ \A k \in 0..Word : Weight[k] \in Nat \ {0}
      /\ Weight[0] = 1 /\ \A k \in 1..Word : Weight[k] = Radix * Weight[k - 1]
  BY WeightLaws
<1>3. \A k \in 1..Word : memory[address + k - 1] = (n \div Weight[k - 1]) % Radix
  BY DEF Bytes
<1>4. \A k \in 0..Word : rest[k] = n - Weight[k] * (n \div Weight[k])
  OBVIOUS
<1> HIDE DEF rest
<1>5. ASSUME NEW k \in 1..Word PROVE rest[k] = rest[k - 1] + memory[address + k - 1] * Weight[k - 1]
  <2> DEFINE w == Weight[k - 1]
             q == n \div w
             d == q % Radix
             p == q \div Radix
  <2>1. k \in 0..Word /\ k - 1 \in 0..Word
    OBVIOUS
  <2>2. w \in Nat \ {0} /\ Weight[k] = Radix * w /\ Radix \in Nat \ {0}
    <3>1. Weight[k - 1] \in Nat \ {0}
      BY <1>2, <2>1
    <3>2. Weight[k] = Radix * Weight[k - 1]
      BY <1>2
    <3>3. Radix \in Nat \ {0}
      OBVIOUS
    <3> QED BY <3>1, <3>2, <3>3
  <2>3. memory[address + k - 1] = d
    BY <1>3
  <2>4. n \div Weight[k] = p
    <3> HIDE DEF w
    <3>1. n \div (Radix * w) = (n \div w) \div Radix
      BY <2>2, DivideTwice, Zenon
    <3> QED BY <2>2, <3>1
  <2>5. rest[k] = n - (Radix * w) * p /\ rest[k - 1] = n - w * q
    BY <1>4, <2>1, <2>2, <2>4
  <2>6. q \in Nat
    BY <2>2
  <2>7. d \in Nat /\ p \in Nat /\ q = Radix * p + d
    <3> HIDE DEF q
    <3> QED BY <2>2, <2>6
  <2> HIDE DEF w, q, d, p
  <2>8. w * q = (Radix * w) * p + d * w
    BY <2>2, <2>7
  <2>9. w * q \in Nat /\ (Radix * w) * p \in Nat /\ d * w \in Nat
    BY <2>2, <2>6, <2>7
  <2>10. n - (Radix * w) * p = (n - w * q) + d * w
    BY <2>8, <2>9
  <2> QED BY <2>3, <2>5, <2>10 DEF w
<1>6. rest[0] = 0 /\ rest[Word] = n
  <2>1. rest[0] = n - 1 * (n \div 1) /\ n \div 1 = n
    BY <1>2, <1>4
  <2>2. rest[Word] = n - Weight[Word] * (n \div Weight[Word])
    BY <1>4
  <2>3. \A w \in Nat \ {0} : n < w => n \div w = 0
    OBVIOUS
  <2>4. Weight[Word] \in Nat \ {0} /\ n \div Weight[Word] = 0
    BY <1>2, <2>3
  <2> QED BY <2>1, <2>2, <2>4
<1>7. rest = [k \in 0..Word |-> E(rest, k)]
  <2>1. \A k \in 0..Word : rest[k] = E(rest, k)
    <3>1. \A k \in 0..Word : k = 0 \/ k \in 1..Word
      OBVIOUS
    <3> QED BY <1>5, <1>6, <3>1
  <2>2. rest = [k \in 0..Word |-> rest[k]]
    BY DEF rest
  <2> HIDE DEF E
  <2> QED BY <2>1, <2>2
<1>8. low = [k \in 0..Word |-> E(low, k)]
  BY <1>7
<1> HIDE DEF low
<1>9. \A k \in 0..Word : low[k] = E(low, k)
  <2> HIDE DEF E
  <2> QED BY <1>8
<1>10. \A k \in 0..Word : low[k] = rest[k]
  <2> DEFINE T == {k \in 0..Word : low[k] # rest[k]}
  <2> SUFFICES ASSUME T # {} PROVE FALSE
    OBVIOUS
  <2>1. PICK k \in T : \A l \in T : k <= l
    <3>1. T \subseteq Nat
      OBVIOUS
    <3> HIDE DEF T
    <3> QED BY <3>1, SmallestNumber
  <2>2. k \in 0..Word /\ low[k] # rest[k]
    BY <2>1
  <2>3. k # 0
    BY <1>6, <1>9, <2>2
  <2>4. k - 1 \in 0..Word /\ k \in 1..Word /\ k - 1 \notin T
    BY <2>1, <2>2, <2>3
  <2>5. low[k - 1] = rest[k - 1]
    BY <2>4
  <2> QED BY <1>5, <1>9, <2>2, <2>3, <2>4, <2>5
<1> QED BY <1>1, <1>6, <1>10

-----------------------------------------------------------------------------
(* Files.                                                                  *)

\* The loop of write_file writes all of the file, whatever its size is to the buffer.
LEMMA WritesAll ==
  ASSUME BUFFER_SIZE \in Nat \ {0}, NEW S, NEW source \in Seq(S)
  PROVE  write_file(source) = source
<1> DEFINE n == Len(source)
           E(f, p) == IF n - p < BUFFER_SIZE THEN SubSeq(source, p + 1, n)
                      ELSE SubSeq(source, p + 1, p + BUFFER_SIZE) \o f[p + BUFFER_SIZE]
           from == CHOOSE f : f = [p \in 0..n |-> E(f, p)]
           rest == [p \in 0..n |-> SubSeq(source, p + 1, n)]
<1>1. write_file(source) = from[0]
  BY Zenon DEF write_file
<1>2. n \in Nat
  OBVIOUS
<1>3. \A p \in 0..n : rest[p] = SubSeq(source, p + 1, n)
  OBVIOUS
<1> HIDE DEF rest, n
<1>4. ASSUME NEW p \in 0..n, ~(n - p < BUFFER_SIZE)
      PROVE  /\ p + BUFFER_SIZE \in 0..n
             /\ rest[p] = SubSeq(source, p + 1, p + BUFFER_SIZE) \o rest[p + BUFFER_SIZE]
  <2>1. p + BUFFER_SIZE \in 0..n
    BY <1>2, <1>4
  <2>2. rest[p + BUFFER_SIZE] = SubSeq(source, (p + BUFFER_SIZE) + 1, n)
    BY <1>3, <2>1
  <2>3. SubSeq(source, p + 1, n) = SubSeq(source, p + 1, p + BUFFER_SIZE)
                                     \o SubSeq(source, (p + BUFFER_SIZE) + 1, n)
    <3>1. /\ p + 1 \in 1..(n + 1) /\ p + BUFFER_SIZE \in ((p + 1) - 1)..n
          /\ n \in (p + BUFFER_SIZE)..n
      BY <1>2, <1>4, <2>1
    <3> QED BY <3>1, ConcatAdjacentSubSeq, Zenon DEF n
  <2> QED BY <1>3, <2>1, <2>2, <2>3
<1>5. rest = [p \in 0..n |-> E(rest, p)]
  <2>1. \A p \in 0..n : rest[p] = E(rest, p)
    BY <1>3, <1>4
  <2>2. rest = [p \in 0..n |-> rest[p]]
    BY DEF rest
  <2> HIDE DEF E
  <2> QED BY <2>1, <2>2
<1>6. from = [p \in 0..n |-> E(from, p)]
  BY <1>5
<1> HIDE DEF from
<1>7. \A p \in 0..n : from[p] = E(from, p)
  <2> HIDE DEF E
  <2> QED BY <1>6
\* Towards the end: the smallest remainder for which from would be different.
<1>8. \A p \in 0..n : from[p] = rest[p]
  <2> DEFINE T == {k \in 0..n : from[n - k] # rest[n - k]}
  <2>1. T = {}
    <3> SUFFICES ASSUME T # {} PROVE FALSE
      OBVIOUS
    <3>1. PICK k \in T : \A l \in T : k <= l
      <4>1. T \subseteq Nat
        BY <1>2
      <4> HIDE DEF T
      <4> QED BY <4>1, SmallestNumber
    <3>2. k \in 0..n /\ from[n - k] # rest[n - k] /\ n - k \in 0..n /\ n - (n - k) = k
      BY <1>2, <3>1
    <3>3. ~(k < BUFFER_SIZE)
      BY <1>3, <1>7, <3>2
    <3>4. k - BUFFER_SIZE \in 0..n /\ k - BUFFER_SIZE < k /\ n - (k - BUFFER_SIZE) = (n - k) + BUFFER_SIZE
      BY <1>2, <3>2, <3>3
    <3>5. k - BUFFER_SIZE \notin T
      BY <3>1, <3>2, <3>4
    <3>6. from[(n - k) + BUFFER_SIZE] = rest[(n - k) + BUFFER_SIZE]
      BY <3>4, <3>5
    <3> HIDE DEF T
    <3> QED BY <1>4, <1>7, <3>2, <3>3, <3>6
  <2>2. ASSUME NEW p \in 0..n PROVE from[p] = rest[p]
    <3>1. n - p \in 0..n /\ n - (n - p) = p
      BY <1>2
    <3> QED BY <2>1, <3>1
  <2> QED BY <2>2
<1>9. rest[0] = source
  <2>1. 0 \in 0..n /\ rest[0] = SubSeq(source, 1, n)
    BY <1>2, <1>3
  <2> QED BY <2>1 DEF n
<1> QED BY <1>1, <1>2, <1>8, <1>9

-----------------------------------------------------------------------------
(* The packed image.                                                       *)

Cells == 0..(Radix - 1)

\* Where the modules f begin behind the kernel and their count, and at last the end.
Starts(f, b) ==
  /\ b \in [1..(Len(f) + 1) -> Nat]
  /\ b[1] = Len(Kernel) + Word
  /\ \A m \in 1..Len(f) : b[m + 1] = b[m] + Word + Len(f[m])

Start(f) == CHOOSE b : Starts(f, b)

\* The modules there are addresses for.
Given == {f \in Seq(Contents) : Len(f) <= Len(moduleAddresses)}

\* They begin one behind the other, all of them before the first address.
LEMMA StartLaws ==
  ASSUME ImageAssumption, NEW f \in Given
  PROVE  /\ Starts(f, Start(f))
         /\ \A m, l \in 1..(Len(f) + 1) : m <= l => Start(f)[m] <= Start(f)[l]
         /\ \A m \in 1..(Len(f) + 1) : Start(f)[m] <= moduleAddresses[1]
<1> DEFINE n == Len(f)
           b == Start(f)
           first == Len(Kernel) + Word
           step == [k \in 1..n |-> [x \in Nat |-> x + Word + Len(f[k])]]
<1>1. /\ n \in Nat /\ Word \in Nat /\ first \in Nat
      /\ n <= Len(moduleAddresses) /\ Len(moduleAddresses) \in Nat /\ moduleAddresses[1] \in Nat
  <2>1. Len(Kernel) \in Nat /\ Word \in Nat /\ Len(moduleAddresses) \in Nat
    BY DEF ImageAssumption
  <2>2. moduleAddresses[1] \in Nat
    BY EmptySeq DEF ImageAssumption
  <2> QED BY <2>1, <2>2 DEF Given
<1>2. \A m \in 1..n : f[m] \in Contents /\ Len(f[m]) \in Nat
  <2>1. \A c \in Contents : Len(c) \in Nat
    BY DEF ImageAssumption
  <2> QED BY <2>1 DEF Given
<1>3. Starts(f, b)
  <2>1. step \in [1..n -> [Nat -> Nat]]
    <3>1. \A k \in 1..n : \A x \in Nat : x + Word + Len(f[k]) \in Nat
      <4>1. \A x, y, z \in Nat : x + y + z \in Nat
        OBVIOUS
      <4> HIDE DEF n
      <4> QED BY <1>1, <1>2, <4>1, Zenon
    <3> HIDE DEF n
    <3> QED BY <3>1
  <2>2. PICK g : Run(g, n, Nat, first, step)
    <3> HIDE DEF step, first, n
    <3> QED BY <1>1, <2>1, RunExists
  <2>3. /\ g \in [0..n -> Nat] /\ g[0] = first
        /\ \A k \in 1..n : g[k] = g[k - 1] + Word + Len(f[k])
    <3>1. g \in [0..n -> Nat] /\ g[0] = first /\ \A k \in 1..n : g[k] = step[k][g[k - 1]]
      <4> HIDE DEF step, n, first
      <4> QED BY <2>2 DEF Run
    <3>2. \A k \in 1..n : g[k - 1] \in Nat
      BY <1>1, <3>1
    <3> QED BY <3>1, <3>2
  <2> DEFINE d == [m \in 1..(n + 1) |-> g[m - 1]]
  <2>4. Starts(f, d)
    <3>1. \A m \in 1..(n + 1) : m - 1 \in 0..n
      BY <1>1
    <3>2. d \in [1..(n + 1) -> Nat] /\ \A m \in 1..(n + 1) : d[m] = g[m - 1]
      BY <2>3, <3>1
    <3> HIDE DEF d
    <3>3. d[1] = first
      BY <1>1, <2>3, <3>2
    <3>4. ASSUME NEW m \in 1..n PROVE d[m + 1] = d[m] + Word + Len(f[m])
      <4>1. m \in 1..(n + 1) /\ m + 1 \in 1..(n + 1) /\ (m + 1) - 1 = m
        BY <1>1
      <4> QED BY <2>3, <3>2, <4>1
    <3> QED BY <3>2, <3>3, <3>4 DEF Starts
  <2> HIDE DEF d
  <2> QED BY <2>4 DEF Start
<1>4. /\ b \in [1..(n + 1) -> Nat] /\ b[1] = first
      /\ \A m \in 1..n : b[m + 1] = b[m] + Word + Len(f[m])
  <2> HIDE DEF b
  <2> QED BY <1>3 DEF Starts
<1> HIDE DEF b, n, first, step
<1>5. \A m \in 1..(n + 1) : m # 1 => m - 1 \in 1..n /\ m - 1 \in 1..(n + 1) /\ (m - 1) + 1 = m
  BY <1>1
<1>6. ASSUME NEW m \in 1..(n + 1), NEW l \in 1..(n + 1), m <= l PROVE b[m] <= b[l]
  <2> DEFINE T == {k \in 1..(n + 1) : m <= k /\ ~(b[m] <= b[k])}
  <2>1. ASSUME T # {} PROVE FALSE
    <3>1. PICK k \in T : \A x \in T : k <= x
      <4>1. T \subseteq Nat
        BY <1>1
      <4> HIDE DEF T
      <4> QED BY <2>1, <4>1, SmallestNumber
    <3>2. k \in 1..(n + 1) /\ m <= k /\ ~(b[m] <= b[k])
      BY <3>1
    <3>3. k # m
      BY <1>1, <1>4, <3>2
    <3>4. k # 1 /\ m <= k - 1 /\ k - 1 < k
      BY <1>1, <3>2, <3>3
    <3>5. k - 1 \in 1..n /\ k - 1 \in 1..(n + 1) /\ b[k] = b[k - 1] + Word + Len(f[k - 1])
      BY <1>4, <1>5, <3>2, <3>4
    <3>6. k - 1 \notin T
      BY <1>1, <3>1, <3>4, <3>5
    <3>7. b[m] <= b[k - 1]
      BY <3>4, <3>5, <3>6
    <3>8. b[m] \in Nat /\ b[k - 1] \in Nat /\ Len(f[k - 1]) \in Nat
      BY <1>2, <1>4, <3>5 DEF n
    <3>9. Word \in Nat
      BY <1>1
    <3> HIDE DEF T
    <3> QED BY <3>2, <3>5, <3>7, <3>8, <3>9
  <2> QED BY <1>6, <2>1
\* Counting for each module what the largest takes.
<1>7. ASSUME NEW m \in 1..(n + 1) PROVE b[m] <= moduleAddresses[1]
  <2>1. PICK size \in 0..moduleAddresses[1] :
          /\ \A c \in Contents : Len(c) <= size
          /\ first + Len(moduleAddresses) * (Word + size) <= moduleAddresses[1]
    BY DEF ImageAssumption, first
  <2> DEFINE w == Word + size
             T == {k \in Nat : k <= n /\ ~(b[k + 1] <= first + k * w)}
  <2>2. w \in Nat /\ size \in Nat
    BY <1>1
  <2>3. \A x \in Nat : x * w \in Nat /\ (x + 1) * w = x * w + w
    BY <2>2
  <2>4. ASSUME T # {} PROVE FALSE
    <3>1. PICK k \in T : \A l \in T : k <= l
      <4>1. T \subseteq Nat
        OBVIOUS
      <4> HIDE DEF T
      <4> QED BY <2>4, <4>1, SmallestNumber
    <3>2. k \in Nat /\ k <= n /\ ~(b[k + 1] <= first + k * w)
      BY <3>1
    <3>3. k # 0
      <4>1. 0 * w = 0
        BY <2>2
      <4> QED BY <1>1, <1>4, <3>2, <4>1
    <3>4. k \in 1..n /\ k \in 1..(n + 1) /\ k - 1 \in Nat /\ k - 1 <= n /\ k - 1 < k /\ (k - 1) + 1 = k
      BY <1>1, <3>2, <3>3
    <3>5. k - 1 \notin T
      <4> HIDE DEF T
      <4> QED BY <1>1, <3>1, <3>4
    <3>6. b[k] <= first + (k - 1) * w
      BY <3>4, <3>5
    <3>7. b[k + 1] = b[k] + Word + Len(f[k]) /\ b[k] \in Nat
      BY <1>4, <3>4
    <3>8. Len(f[k]) \in Nat /\ Len(f[k]) <= size
      BY <1>2, <2>1, <3>4
    <3>9. k * w = (k - 1) * w + w /\ (k - 1) * w \in Nat
      BY <2>3, <3>4
    <3>10. b[k + 1] <= first + ((k - 1) * w + w)
      <4> DEFINE low == (k - 1) * w
                 l == Len(f[k])
                 q == b[k]
      <4>1. low \in Nat /\ l \in Nat /\ q \in Nat /\ l <= size /\ q <= first + low
        BY <3>6, <3>7, <3>8, <3>9
      <4>2. b[k + 1] = q + Word + l
        BY <3>7
      <4> HIDE DEF low, l, q
      <4> QED BY <1>1, <2>2, <4>1, <4>2 DEF low
    <3> QED BY <3>2, <3>9, <3>10
  <2>5. m - 1 \in Nat /\ m - 1 <= n /\ (m - 1) + 1 = m
    BY <1>1
  <2>6. b[m] <= first + (m - 1) * w
    <3> HIDE DEF w
    <3> QED BY <2>4, <2>5
  <2>7. (m - 1) * w <= Len(moduleAddresses) * w
    <3>1. PICK d \in Nat : Len(moduleAddresses) = (m - 1) + d
      <4>1. Len(moduleAddresses) - (m - 1) \in Nat
            /\ Len(moduleAddresses) = (m - 1) + (Len(moduleAddresses) - (m - 1))
        BY <1>1, <2>5
      <4> QED BY <4>1
    <3>2. ((m - 1) + d) * w = (m - 1) * w + d * w
      BY <2>2, <2>5
    <3>3. d * w \in Nat /\ (m - 1) * w \in Nat
      BY <2>3, <2>5
    <3> HIDE DEF w
    <3> QED BY <3>1, <3>2, <3>3
  <2>8. (m - 1) * w \in Nat /\ Len(moduleAddresses) * w \in Nat
    BY <1>1, <2>3, <2>5
  <2>9. first + Len(moduleAddresses) * w <= moduleAddresses[1]
    BY <2>1
  <2>10. b[m] \in Nat
    BY <1>4
  <2> HIDE DEF w
  <2> QED BY <1>1, <2>6, <2>7, <2>8, <2>9, <2>10
<1> QED BY <1>3, <1>6, <1>7 DEF b, n

-----------------------------------------------------------------------------
(* The invariant.                                                          *)

\* t is the image with the first n of the modules f.
Image(f, n, t) ==
  /\ t \in Seq(Cells) /\ Len(t) = Start(f)[n + 1]
  /\ \A k \in 1..Len(Kernel) : t[k] = Kernel[k]
  /\ \A k \in 1..Word : t[Len(Kernel) + k] = Bytes(Len(f))[k]
  /\ \A m \in 1..n :
       /\ \A k \in 1..Word : t[Start(f)[m] + k] = Bytes(Len(f[m]))[k]
       /\ \A k \in 1..Len(f[m]) : t[Start(f)[m] + Word + k] = f[m][k]

\* The image lies in memory from 0.
Resides == \A k \in 1..Len(target) : memory[k - 1] = target[k]

KernelResides == \A k \in 1..Len(Kernel) : memory[k - 1] = Kernel[k]

\* The first n modules are where they run.
Loaded(n) ==
  (\A m \in 1..Len(files) : Fits(m)) =>
    \A m \in 1..n : \A k \in 1..Len(files[m]) : memory[moduleAddresses[m] + k - 1] = files[m][k]

\* What is known at each place.  The loader finds the sizes and the modules in the
\* image, which none of its copies touches; the bss and the head of the heap lie
\* before and behind all that was copied.
ImageInv ==
  /\ files \in Given
  /\ phase \in {"check", "failed", "kernel", "modules", "count", "load", "memory", "main"}
  /\ phase \in {"check", "kernel"} => module = 1
  /\ phase \in {"check", "kernel", "modules", "count"} => currentModule = endOfKernelBinary
  /\ phase = "modules" => module \in 1..(Len(files) + 1) /\ Image(files, module - 1, target)
  /\ phase = "count" => module = 1
  /\ phase \in {"count", "load"} => Image(files, Len(files), target) /\ Resides
  /\ phase = "load" =>
       /\ module \in 1..(Len(files) + 1) /\ moduleCount = Len(files)
       /\ currentModule = Start(files)[module] /\ Loaded(module - 1)
  /\ phase \in {"memory", "main"} => KernelResides /\ Loaded(Len(files))

-----------------------------------------------------------------------------
(* The packer.                                                             *)

\* The constants and the modules, as the steps need them.
LEMMA ImageTypes ==
  ASSUME ImageAssumption, NEW f \in Given
  PROVE  /\ Sized /\ Radix \in Nat /\ Word \in Nat /\ Word > 0 /\ Len(Kernel) \in Nat
         /\ Kernel \in Seq(Cells) /\ Len(f) \in Nat /\ Len(f) <= Len(moduleAddresses)
         /\ Len(moduleAddresses) \in Nat
         /\ \A m \in 1..Len(f) : f[m] \in Contents /\ f[m] \in Seq(Cells) /\ Len(f[m]) \in Nat
         /\ \A m \in 1..(Len(f) + 1) : Start(f)[m] \in Nat
         /\ Start(f)[1] = Len(Kernel) + Word
         /\ \A m \in 1..Len(f) : Start(f)[m + 1] = Start(f)[m] + Word + Len(f[m])
<1>1. /\ Sized /\ Radix \in Nat /\ Word \in Nat /\ Word > 0
      /\ Kernel \in Seq(Cells) /\ Contents \subseteq Seq(Cells)
  BY DEF ImageAssumption, Sized, Cells
<1>2. Len(Kernel) \in Nat
  BY <1>1
<1>3. f \in Seq(Contents) /\ Len(f) <= Len(moduleAddresses) /\ Len(moduleAddresses) \in Nat
  BY DEF Given, ImageAssumption
<1>4. Len(f) \in Nat /\ \A m \in 1..Len(f) : f[m] \in Contents
  BY <1>3
<1>5. \A m \in 1..Len(f) : f[m] \in Seq(Cells) /\ Len(f[m]) \in Nat
  BY <1>1, <1>4
<1>6. Starts(f, Start(f))
  BY StartLaws
<1>7. /\ \A m \in 1..(Len(f) + 1) : Start(f)[m] \in Nat
      /\ Start(f)[1] = Len(Kernel) + Word
      /\ \A m \in 1..Len(f) : Start(f)[m + 1] = Start(f)[m] + Word + Len(f[m])
  BY <1>6 DEF Starts
<1> QED BY <1>1, <1>2, <1>3, <1>4, <1>5, <1>7

\* A number is written as Word cells.
LEMMA BytesSeq ==
  ASSUME ImageAssumption, NEW n \in Nat
  PROVE  Bytes(n) \in Seq(Cells) /\ Len(Bytes(n)) = Word
<1>1. Sized /\ Word \in Nat
  BY DEF ImageAssumption, Sized
<1>2. \A k \in 0..Word : Weight[k] \in Nat \ {0}
  BY <1>1, WeightLaws
<1>3. ASSUME NEW k \in 1..Word PROVE (n \div Weight[k - 1]) % Radix \in Cells
  <2>1. Weight[k - 1] \in Nat \ {0}
    BY <1>1, <1>2
  <2>2. n \div Weight[k - 1] \in Nat
    BY <2>1
  <2>3. \A x \in Nat : x % Radix \in 0..(Radix - 1)
    BY <1>1 DEF Sized
  <2> QED BY <2>2, <2>3 DEF Cells
<1>4. Bytes(n) \in [1..Word -> Cells]
  BY <1>3 DEF Bytes
<1> QED BY <1>1, <1>4

\* Where the elements of a concatenation are.
LEMMA Behind ==
  ASSUME NEW S, NEW s \in Seq(S), NEW t \in Seq(S)
  PROVE  /\ s \o t \in Seq(S) /\ Len(s \o t) = Len(s) + Len(t)
         /\ \A k \in 1..Len(s) : (s \o t)[k] = s[k]
         /\ \A k \in 1..Len(t) : (s \o t)[Len(s) + k] = t[k]
  OBVIOUS

\* The kernel and the count are the image without modules.
LEMMA ImageBegins ==
  ASSUME ImageAssumption, NEW f \in Given
  PROVE  Image(f, 0, write_file(Kernel) \o Bytes(Len(f)))
<1> DEFINE c == Bytes(Len(f))
           t == Kernel \o c
<1>1. /\ Word \in Nat /\ Len(Kernel) \in Nat /\ Kernel \in Seq(Cells) /\ Len(f) \in Nat
      /\ Start(f)[1] = Len(Kernel) + Word
  BY ImageTypes
<1>2. write_file(Kernel) = Kernel
  <2>1. BUFFER_SIZE \in Nat \ {0}
    BY DEF ImageAssumption
  <2> QED BY <1>1, <2>1, WritesAll
<1>3. c \in Seq(Cells) /\ Len(c) = Word
  BY <1>1, BytesSeq
<1> HIDE DEF c
<1>4. /\ t \in Seq(Cells) /\ Len(t) = Len(Kernel) + Word
      /\ \A k \in 1..Len(Kernel) : t[k] = Kernel[k]
      /\ \A k \in 1..Word : t[Len(Kernel) + k] = c[k]
  <2>1. /\ t \in Seq(Cells) /\ Len(t) = Len(Kernel) + Len(c)
        /\ \A k \in 1..Len(Kernel) : t[k] = Kernel[k]
        /\ \A k \in 1..Len(c) : t[Len(Kernel) + k] = c[k]
    <3>1. Kernel \in Seq(Cells) /\ c \in Seq(Cells)
      BY <1>1, <1>3
    <3> QED BY <3>1, Behind
  <2> HIDE DEF t
  <2> QED BY <1>3, <2>1
<1> HIDE DEF t
<1>5. Start(f)[0 + 1] = Len(Kernel) + Word /\ 1..0 = {}
  BY <1>1
<1>6. Image(f, 0, t)
  BY <1>4, <1>5 DEF Image, c
<1> QED BY <1>2, <1>6 DEF t, c

\* A module is appended.
LEMMA ImageGrows ==
  ASSUME ImageAssumption, NEW f \in Given, NEW n \in 1..Len(f), NEW t, Image(f, n - 1, t)
  PROVE  Image(f, n, t \o write_size(f[n]) \o write_file(f[n]))
<1> DEFINE s == Bytes(Len(f[n]))
           c == f[n]
           b == Start(f)
           u == t \o s
           v == u \o c
<1>1. /\ Word \in Nat /\ Len(Kernel) \in Nat /\ Len(f) \in Nat
      /\ c \in Seq(Cells) /\ Len(c) \in Nat
      /\ \A m \in 1..(Len(f) + 1) : b[m] \in Nat
      /\ b[1] = Len(Kernel) + Word
      /\ \A m \in 1..Len(f) : Len(f[m]) \in Nat /\ b[m + 1] = b[m] + Word + Len(f[m])
  BY ImageTypes
<1>2. write_file(c) = c /\ write_size(c) = s
  <2>1. BUFFER_SIZE \in Nat \ {0}
    BY DEF ImageAssumption
  <2>2. write_file(c) = c
    BY <1>1, <2>1, WritesAll
  <2> QED BY <2>2 DEF write_size
<1>3. s \in Seq(Cells) /\ Len(s) = Word
  BY <1>1, BytesSeq
<1>4. /\ t \in Seq(Cells) /\ Len(t) = b[n]
      /\ \A k \in 1..Len(Kernel) : t[k] = Kernel[k]
      /\ \A k \in 1..Word : t[Len(Kernel) + k] = Bytes(Len(f))[k]
      /\ \A m \in 1..(n - 1) :
           /\ \A k \in 1..Word : t[b[m] + k] = Bytes(Len(f[m]))[k]
           /\ \A k \in 1..Len(f[m]) : t[b[m] + Word + k] = f[m][k]
  <2>1. (n - 1) + 1 = n
    OBVIOUS
  <2> QED BY <2>1 DEF Image
<1>5. \A m, l \in 1..(Len(f) + 1) : m <= l => b[m] <= b[l]
  BY StartLaws
<1> HIDE DEF s, c, b
<1>6. /\ u \in Seq(Cells) /\ Len(u) = b[n] + Word
      /\ \A k \in 1..b[n] : u[k] = t[k]
      /\ \A k \in 1..Word : u[b[n] + k] = s[k]
  <2>1. /\ u \in Seq(Cells) /\ Len(u) = Len(t) + Len(s)
        /\ \A k \in 1..Len(t) : u[k] = t[k]
        /\ \A k \in 1..Len(s) : u[Len(t) + k] = s[k]
    <3>1. t \in Seq(Cells) /\ s \in Seq(Cells)
      BY <1>3, <1>4
    <3> QED BY <3>1, Behind
  <2> HIDE DEF u
  <2> QED BY <1>3, <1>4, <2>1
<1> HIDE DEF u
<1>7. /\ v \in Seq(Cells) /\ Len(v) = b[n] + Word + Len(c)
      /\ \A k \in 1..(b[n] + Word) : v[k] = u[k]
      /\ \A k \in 1..Len(c) : v[b[n] + Word + k] = c[k]
  <2>1. /\ v \in Seq(Cells) /\ Len(v) = Len(u) + Len(c)
        /\ \A k \in 1..Len(u) : v[k] = u[k]
        /\ \A k \in 1..Len(c) : v[Len(u) + k] = c[k]
    <3>1. u \in Seq(Cells) /\ c \in Seq(Cells)
      BY <1>1, <1>6
    <3> QED BY <3>1, Behind
  <2> HIDE DEF v
  <2> QED BY <1>6, <2>1
<1> HIDE DEF v
<1>8. /\ n \in 1..(Len(f) + 1) /\ b[n] \in Nat /\ b[1] <= b[n]
      /\ b[n + 1] = b[n] + Word + Len(c)
  <2>1. n \in 1..(Len(f) + 1) /\ 1 \in 1..(Len(f) + 1) /\ 1 <= n
    BY <1>1
  <2> QED BY <1>1, <1>5, <2>1 DEF c
<1>9. \A k \in 1..b[n] : v[k] = t[k]
  <2>1. \A k \in 1..b[n] : k \in 1..(b[n] + Word)
    BY <1>1, <1>8
  <2> QED BY <1>6, <1>7, <2>1
<1>10. \A k \in 1..Len(Kernel) : v[k] = Kernel[k]
  <2>1. \A k \in 1..Len(Kernel) : k \in 1..b[n]
    BY <1>1, <1>8
  <2> QED BY <1>4, <1>9, <2>1
<1>11. \A k \in 1..Word : v[Len(Kernel) + k] = Bytes(Len(f))[k]
  <2>1. \A k \in 1..Word : Len(Kernel) + k \in 1..b[n]
    BY <1>1, <1>8
  <2> QED BY <1>4, <1>9, <2>1
<1>12. ASSUME NEW m \in 1..n
       PROVE  /\ \A k \in 1..Word : v[b[m] + k] = Bytes(Len(f[m]))[k]
              /\ \A k \in 1..Len(f[m]) : v[b[m] + Word + k] = f[m][k]
  <2>1. CASE m = n
    <3>1. \A k \in 1..Word : b[n] + k \in 1..(b[n] + Word)
      <4>1. b[n] \in Nat /\ Word \in Nat
        BY <1>1, <1>8
      <4> QED BY <4>1
    <3>2. \A k \in 1..Word : v[b[n] + k] = u[b[n] + k]
      <4>1. \A k \in 1..(b[n] + Word) : v[k] = u[k]
        BY <1>7
      <4> QED BY <3>1, <4>1, Zenon
    <3>3. \A k \in 1..Word : v[b[n] + k] = s[k]
      BY <1>6, <3>2, Zenon
    <3> QED BY <1>7, <2>1, <3>3 DEF s, c
  <2>2. CASE m # n
    <3>1. /\ m \in 1..(n - 1) /\ m \in 1..Len(f) /\ m \in 1..(Len(f) + 1)
          /\ m + 1 \in 1..(Len(f) + 1) /\ m + 1 <= n
      BY <1>1, <2>2
    <3>2. b[m] + Word + Len(f[m]) <= b[n] /\ b[m] \in Nat /\ Len(f[m]) \in Nat
      BY <1>1, <1>5, <1>8, <3>1
    <3>3. /\ \A k \in 1..Word : b[m] + k \in 1..b[n]
          /\ \A k \in 1..Len(f[m]) : b[m] + Word + k \in 1..b[n]
      <4>1. \A x, y, z, w \in Nat : x + y + z <= w =>
              /\ \A k \in 1..y : x + k \in 1..w
              /\ \A k \in 1..z : x + y + k \in 1..w
        OBVIOUS
      <4> QED BY <1>1, <1>8, <3>2, <4>1
    <3> QED BY <1>4, <1>9, <3>1, <3>3
  <2> QED BY <2>1, <2>2
<1>13. Image(f, n, v)
  BY <1>7, <1>8, <1>10, <1>11, <1>12 DEF Image, b
<1> QED BY <1>2, <1>13 DEF c, s, u, v

-----------------------------------------------------------------------------
(* The loader.                                                             *)

\* Where the parts of the image are.
LEMMA InImage ==
  ASSUME ImageAssumption, NEW f \in Given, NEW t, Image(f, Len(f), t)
  PROVE  /\ Len(t) \in Nat /\ Len(t) <= moduleAddresses[1] /\ Len(Kernel) + Word <= Len(t)
         /\ \A m \in 1..Len(f) : Start(f)[m] + Word + Len(f[m]) <= Len(t)
<1> DEFINE b == Start(f)
<1>1. /\ Word \in Nat /\ Len(f) \in Nat
      /\ \A m \in 1..(Len(f) + 1) : b[m] \in Nat
      /\ b[1] = Len(Kernel) + Word
      /\ \A m \in 1..Len(f) : b[m + 1] = b[m] + Word + Len(f[m])
  BY ImageTypes
<1>2. t \in Seq(Cells) /\ Len(t) = b[Len(f) + 1]
  BY DEF Image
<1>3. /\ \A m, l \in 1..(Len(f) + 1) : m <= l => b[m] <= b[l]
      /\ \A m \in 1..(Len(f) + 1) : b[m] <= moduleAddresses[1]
  BY StartLaws
<1> HIDE DEF b
<1>4. 1 \in 1..(Len(f) + 1) /\ Len(f) + 1 \in 1..(Len(f) + 1) /\ 1 <= Len(f) + 1
  BY <1>1
<1>5. Len(t) \in Nat /\ Len(t) <= moduleAddresses[1] /\ b[1] <= Len(t)
  BY <1>1, <1>2, <1>3, <1>4
<1>6. ASSUME NEW m \in 1..Len(f) PROVE b[m] + Word + Len(f[m]) <= Len(t)
  <2>1. m + 1 \in 1..(Len(f) + 1) /\ m + 1 <= Len(f) + 1
    BY <1>1
  <2>2. b[m + 1] <= Len(t)
    BY <1>2, <1>3, <1>4, <2>1
  <2> QED BY <1>1, <2>2
<1> QED BY <1>1, <1>5, <1>6 DEF b

\* The addresses.
LEMMA Addressing ==
  ASSUME ImageAssumption
  PROVE  /\ memoryModuleAddress \in Nat /\ Top \in Nat /\ memoryModuleAddress < Top
         /\ Len(moduleAddresses) \in Nat
         /\ Len(Kernel) \in Nat /\ BssSize \in Nat
         /\ bss \in Nat /\ Len(Kernel) <= bss /\ bss + BssSize <= moduleAddresses[1]
         /\ moduleAddresses[1] \in Nat /\ moduleAddresses[1] < memoryModuleAddress
         /\ \A m \in 1..Len(moduleAddresses) :
              /\ moduleAddresses[m] \in Nat /\ moduleAddresses[1] <= moduleAddresses[m]
              /\ moduleAddresses[m] < memoryModuleAddress
         /\ \A m, l \in 1..Len(moduleAddresses) :
              m < l => moduleAddresses[m] < moduleAddresses[l]
<1> DEFINE d == moduleAddresses
<1>1. d \in Seq(Nat) /\ d # << >>
  BY DEF ImageAssumption
<1>2. Len(d) \in Nat /\ DOMAIN d = 1..Len(d) /\ 1 \in 1..Len(d)
  BY <1>1, EmptySeq
<1>3. /\ \A m \in 1..Len(d) : d[m] \in Nat /\ d[m] < memoryModuleAddress
      /\ \A m, l \in 1..Len(d) : m < l => d[m] < d[l]
  <2>1. /\ \A m \in DOMAIN d : d[m] < memoryModuleAddress
        /\ \A m, l \in DOMAIN d : m < l => d[m] < d[l]
    BY DEF ImageAssumption
  <2>2. \A m \in 1..Len(d) : d[m] \in Nat
    BY <1>1
  <2> HIDE DEF d
  <2> QED BY <1>2, <2>1, <2>2, Zenon
<1>4. /\ memoryModuleAddress \in Nat /\ Top \in Nat /\ memoryModuleAddress < Top
      /\ BssSize \in Nat /\ Len(Kernel) \in Nat
      /\ bss \in Nat /\ Len(Kernel) <= bss /\ bss + BssSize <= d[1]
  BY DEF ImageAssumption
<1> HIDE DEF d
<1>5. ASSUME NEW m \in 1..Len(d) PROVE d[1] <= d[m]
  <2>1. m = 1 \/ 1 < m
    BY <1>2
  <2>2. d[1] \in Nat /\ d[m] \in Nat
    BY <1>2, <1>3
  <2> QED BY <1>2, <1>3, <2>1, <2>2
<1> QED BY <1>2, <1>3, <1>4, <1>5 DEF d

\* Both kinds of numbers are read back as they were written.
LEMMA ReadsImage ==
  ASSUME ImageAssumption, files \in Given, Image(files, Len(files), target), Resides
  PROVE  /\ readUint32(endOfKernelBinary) = Len(files)
         /\ \A m \in 1..Len(files) : readUint32(Start(files)[m]) = Len(files[m])
<1>1. /\ Sized /\ Word \in Nat /\ Word > 0 /\ Len(Kernel) \in Nat
      /\ Len(files) \in Nat /\ Len(files) <= Len(moduleAddresses) /\ Len(moduleAddresses) \in Nat
      /\ \A m \in 1..Len(files) : files[m] \in Contents /\ Len(files[m]) \in Nat
      /\ \A m \in 1..(Len(files) + 1) : Start(files)[m] \in Nat
  BY ImageTypes
<1>2. /\ Len(target) \in Nat /\ Len(Kernel) + Word <= Len(target)
      /\ \A m \in 1..Len(files) : Start(files)[m] + Word + Len(files[m]) <= Len(target)
  BY InImage
<1>3. Weight[Word] \in Nat
  <2>1. \A k \in 0..Word : Weight[k] \in Nat \ {0}
    BY <1>1, WeightLaws
  <2>2. Word \in 0..Word
    BY <1>1
  <2> QED BY <2>1, <2>2
<1>4. PICK size \in 0..moduleAddresses[1] :
        (\A c \in Contents : Len(c) <= size) /\ size < Weight[Word]
  BY DEF ImageAssumption
<1>5. moduleAddresses[1] \in Nat /\ Len(moduleAddresses) < Weight[Word]
  BY Addressing DEF ImageAssumption
<1>6. \A k \in 1..Len(target) : memory[k - 1] = target[k]
  BY DEF Resides
<1>7. /\ \A k \in 1..Word : target[Len(Kernel) + k] = Bytes(Len(files))[k]
      /\ \A m \in 1..Len(files) : \A k \in 1..Word :
           target[Start(files)[m] + k] = Bytes(Len(files[m]))[k]
  BY DEF Image
<1>8. readUint32(endOfKernelBinary) = Len(files)
  <2>1. ASSUME NEW k \in 1..Word
        PROVE  memory[Len(Kernel) + k - 1] = Bytes(Len(files))[k]
    <3>1. Len(Kernel) + k \in 1..Len(target)
      BY <1>1, <1>2
    <3> QED BY <1>6, <1>7, <3>1
  <2>2. Len(files) < Weight[Word]
    BY <1>1, <1>3, <1>5
  <2> QED BY <1>1, <2>1, <2>2, ReadsBytes DEF endOfKernelBinary
<1>9. ASSUME NEW m \in 1..Len(files) PROVE readUint32(Start(files)[m]) = Len(files[m])
  <2> DEFINE a == Start(files)[m]
             n == Len(files[m])
  <2>1. a \in Nat /\ n \in Nat /\ a + Word + n <= Len(target)
    <3>1. m \in 1..(Len(files) + 1)
      BY <1>1
    <3> QED BY <1>1, <1>2, <3>1
  <2>2. \A k \in 1..Word : target[a + k] = Bytes(n)[k]
    BY <1>7
  <2>3. n < Weight[Word]
    <3>1. n <= size
      BY <1>1, <1>4
    <3> QED BY <1>3, <1>4, <1>5, <2>1, <3>1
  <2> HIDE DEF a, n
  <2>4. ASSUME NEW k \in 1..Word PROVE memory[a + k - 1] = Bytes(n)[k]
    <3>1. a + k \in 1..Len(target)
      BY <1>1, <1>2, <2>1
    <3>2. memory[a + k - 1] = target[a + k]
      BY <1>1, <1>6, <2>1, <3>1
    <3> QED BY <2>2, <3>2
  <2>5. readUint32(a) = n
    BY <1>1, <2>1, <2>3, <2>4, ReadsBytes
  <2> QED BY <2>5 DEF a, n
<1> QED BY <1>8, <1>9

\* Where a byte of a module is that ends before e.
LEMMA InPlace ==
  ASSUME NEW a \in Nat, NEW l \in Nat, NEW e \in Nat, a + l <= e, NEW k \in 1..l
  PROVE  a + k - 1 \in Nat /\ a <= a + k - 1 /\ a + k - 1 < e
OBVIOUS

\* When all fit, a module ends before the next ones and the heap.
LEMMA AllFit ==
  ASSUME ImageAssumption, files \in Given, \A m \in 1..Len(files) : Fits(m),
         NEW m \in 1..Len(files)
  PROVE  /\ moduleAddresses[m] + Len(files[m]) <= memoryModuleAddress
         /\ \A l \in 1..Len(files) :
              m < l => moduleAddresses[m] + Len(files[m]) <= moduleAddresses[l]
<1>1. /\ Len(files) \in Nat /\ Len(files) <= Len(moduleAddresses) /\ Len(moduleAddresses) \in Nat
      /\ Len(files[m]) \in Nat
  BY ImageTypes
<1>2. /\ memoryModuleAddress \in Nat
      /\ \A l \in 1..Len(moduleAddresses) :
           moduleAddresses[l] \in Nat /\ moduleAddresses[l] < memoryModuleAddress
      /\ \A k, l \in 1..Len(moduleAddresses) : k < l => moduleAddresses[k] < moduleAddresses[l]
  BY Addressing
<1>3. m \in 1..Len(moduleAddresses)
  BY <1>1
<1>4. /\ m = Len(moduleAddresses) => moduleAddresses[m] + Len(files[m]) <= memoryModuleAddress
      /\ m # Len(moduleAddresses) =>
           moduleAddresses[m] + Len(files[m]) <= moduleAddresses[m + 1]
  BY DEF Fits, End
<1>5. CASE m = Len(moduleAddresses)
  <2>1. \A l \in 1..Len(files) : ~(m < l)
    BY <1>1, <1>5
  <2> QED BY <1>4, <1>5, <2>1
<1>6. CASE m # Len(moduleAddresses)
  <2> DEFINE e == moduleAddresses[m] + Len(files[m])
  <2>1. m + 1 \in 1..Len(moduleAddresses)
    BY <1>1, <1>3, <1>6
  <2>2. e \in Nat /\ e <= moduleAddresses[m + 1]
    BY <1>1, <1>2, <1>3, <1>4, <1>6
  <2> HIDE DEF e
  <2>3. e <= memoryModuleAddress
    BY <1>2, <2>1, <2>2
  <2>4. ASSUME NEW l \in 1..Len(files), m < l PROVE e <= moduleAddresses[l]
    <3>1. l \in 1..Len(moduleAddresses) /\ (l = m + 1 \/ m + 1 < l)
      BY <1>1, <2>4
    <3>2. moduleAddresses[m + 1] <= moduleAddresses[l]
      BY <1>2, <2>1, <3>1
    <3> QED BY <1>2, <2>1, <2>2, <3>1, <3>2
  <2> QED BY <2>3, <2>4 DEF e
<1> QED BY <1>5, <1>6

-----------------------------------------------------------------------------
(* The steps.                                                              *)

LEMMA ImageBegun == ASSUME ImageAssumption, ImageInit PROVE ImageInv
<1>1. files \in Given
  <2>1. PICK n \in 0..Len(moduleAddresses) : files \in [1..n -> Contents]
    BY DEF ImageInit
  <2>2. Len(moduleAddresses) \in Nat
    BY Addressing
  <2>3. n \in Nat /\ n <= Len(moduleAddresses)
    BY <2>2
  <2>4. files \in Seq(Contents) /\ Len(files) = n
    BY <2>1, <2>3
  <2> QED BY <2>3, <2>4 DEF Given
<1>2. phase = "check" /\ module = 1 /\ currentModule = endOfKernelBinary
  BY DEF ImageInit
<1> QED BY <1>1, <1>2 DEF ImageInv

\* The packer puts the image together.
LEMMA PackerKeeps ==
  ASSUME ImageAssumption, ImageInv, checkFiles \/ buildKernel \/ buildModule \/ boot
  PROVE  ImageInv'
<1>1. files \in Given /\ files' = files
  BY DEF ImageInv, checkFiles, buildKernel, buildModule, boot, packer
<1>2. Len(files) \in Nat
  BY <1>1, ImageTypes
<1>3. ASSUME checkFiles PROVE ImageInv'
  <2>1. /\ phase' \in {"kernel", "failed"} /\ module = 1 /\ module' = module
        /\ currentModule = endOfKernelBinary /\ currentModule' = currentModule
    BY <1>3 DEF checkFiles, loader, ImageInv
  <2> QED BY <1>1, <2>1 DEF ImageInv, endOfKernelBinary
<1>4. ASSUME buildKernel PROVE ImageInv'
  <2>1. /\ module = 1 /\ module' = module
        /\ currentModule = endOfKernelBinary /\ currentModule' = currentModule
        /\ \/ phase' = "modules" /\ target' = write_file(Kernel) \o Bytes(Len(files))
           \/ phase' = "failed"
    BY <1>4 DEF buildKernel, loader, ImageInv
  <2>2. CASE phase' = "failed"
    BY <1>1, <2>1, <2>2 DEF ImageInv
  <2>3. CASE phase' = "modules"
    <3>1. Image(files, 0, target')
      BY <1>1, <2>1, <2>3, ImageBegins
    <3>2. module' \in 1..(Len(files') + 1) /\ Image(files', module' - 1, target')
      <4>1. module' - 1 = 0 /\ module' \in 1..(Len(files) + 1)
        BY <1>2, <2>1
      <4> QED BY <1>1, <3>1, <4>1
    <3> QED BY <1>1, <2>1, <2>3, <3>2 DEF ImageInv, endOfKernelBinary
  <2> QED BY <2>1, <2>2, <2>3
<1>5. ASSUME buildModule PROVE ImageInv'
  <2>1. /\ phase = "modules" /\ phase' = phase /\ module <= Len(files) /\ module' = module + 1
        /\ module \in 1..(Len(files) + 1) /\ Image(files, module - 1, target)
        /\ currentModule = endOfKernelBinary /\ currentModule' = currentModule
        /\ target' = target \o write_size(files[module]) \o write_file(files[module])
    BY <1>5 DEF buildModule, loader, ImageInv
  <2>2. module \in 1..Len(files) /\ module' - 1 = module /\ module' \in 1..(Len(files) + 1)
    BY <1>2, <2>1
  <2>3. Image(files, module, target')
    BY <1>1, <2>1, <2>2, ImageGrows
  <2>4. module' \in 1..(Len(files') + 1) /\ Image(files', module' - 1, target')
    BY <1>1, <2>2, <2>3
  <2> QED BY <1>1, <2>1, <2>4 DEF ImageInv, endOfKernelBinary
<1>6. ASSUME boot PROVE ImageInv'
  <2>1. /\ phase = "modules" /\ phase' = "count" /\ module > Len(files) /\ module' = 1
        /\ module \in 1..(Len(files) + 1) /\ Image(files, module - 1, target)
        /\ currentModule = endOfKernelBinary /\ currentModule' = currentModule
        /\ target' = target
        /\ memory' = [a \in Addresses |-> IF a < Len(target) THEN target[a + 1] ELSE 0]
    BY <1>6 DEF boot, packer, ImageInv
  <2>2. Image(files, Len(files), target)
    <3>1. module - 1 = Len(files)
      BY <1>2, <2>1
    <3> QED BY <2>1, <3>1
  <2>3. Resides'
    <3>1. Len(target) \in Nat /\ Len(target) <= moduleAddresses[1]
      BY <1>1, <2>2, InImage
    <3>2. Top \in Nat /\ memoryModuleAddress < Top /\ memoryModuleAddress \in Nat
          /\ moduleAddresses[1] \in Nat /\ moduleAddresses[1] < memoryModuleAddress
      BY Addressing
    <3>3. ASSUME NEW k \in 1..Len(target) PROVE memory'[k - 1] = target[k]
      <4>1. k - 1 \in Addresses /\ k - 1 < Len(target) /\ (k - 1) + 1 = k
        BY <3>1, <3>2 DEF Addresses
      <4> QED BY <2>1, <4>1
    <3> QED BY <2>1, <3>3 DEF Resides
  <2>4. Image(files', Len(files'), target')
    BY <1>1, <2>1, <2>2
  <2> QED BY <1>1, <2>1, <2>3, <2>4 DEF ImageInv, endOfKernelBinary
<1> QED BY <1>3, <1>4, <1>5, <1>6

LEMMA CountKeeps == ASSUME ImageAssumption, ImageInv, readCount PROVE ImageInv'
<1>1. /\ phase = "count" /\ phase' = "load" /\ module = 1 /\ module' = module
      /\ currentModule = endOfKernelBinary /\ currentModule' = currentModule + Word
      /\ moduleCount' = readUint32(currentModule)
      /\ memory' = memory /\ target' = target /\ files' = files /\ files \in Given
      /\ Image(files, Len(files), target) /\ Resides
  BY DEF readCount, packer, ImageInv
<1>2. Len(files) \in Nat /\ Start(files)[1] = Len(Kernel) + Word
  BY <1>1, ImageTypes
<1>3. moduleCount' = Len(files)
  BY <1>1, ReadsImage
<1>4. currentModule' = Start(files)[1]
  BY <1>1, <1>2 DEF endOfKernelBinary
<1>5. Image(files', Len(files'), target') /\ Resides'
  BY <1>1 DEF Resides
<1>6. module' \in 1..(Len(files') + 1) /\ currentModule' = Start(files')[module']
  BY <1>1, <1>2, <1>4
<1>7. Loaded(module - 1)'
  <2>1. 1..(module' - 1) = {}
    BY <1>1
  <2> QED BY <2>1 DEF Loaded
<1> QED BY <1>1, <1>3, <1>5, <1>6, <1>7 DEF ImageInv

\* A module is copied over neither the image nor those before it.
LEMMA LoadKeeps == ASSUME ImageAssumption, ImageInv, loadModule PROVE ImageInv'
<1> DEFINE n == Len(files)
           d == moduleAddresses
           size == Len(files[module])
           from == Start(files)[module] + Word
<1>1. /\ phase = "load" /\ phase' = phase /\ module <= moduleCount /\ module' = module + 1
      /\ module \in 1..(n + 1) /\ moduleCount = n /\ moduleCount' = moduleCount
      /\ currentModule = Start(files)[module]
      /\ memory' = memcpy(d[module], currentModule + Word, readUint32(currentModule))
      /\ currentModule' = currentModule + Word + readUint32(currentModule)
      /\ target' = target /\ files' = files /\ files \in Given
      /\ Image(files, n, target) /\ Resides /\ Loaded(module - 1)
  BY DEF loadModule, packer, ImageInv
<1>2. /\ n \in Nat /\ n <= Len(d) /\ Len(d) \in Nat /\ Word \in Nat
      /\ \A m \in 1..n : Len(files[m]) \in Nat
      /\ \A m \in 1..(n + 1) : Start(files)[m] \in Nat
      /\ \A m \in 1..n : Start(files)[m + 1] = Start(files)[m] + Word + Len(files[m])
  BY <1>1, ImageTypes
<1>3. /\ memoryModuleAddress \in Nat /\ Top \in Nat /\ memoryModuleAddress < Top /\ d[1] \in Nat
      /\ \A m \in 1..Len(d) : d[m] \in Nat /\ d[1] <= d[m] /\ d[m] < memoryModuleAddress
      /\ \A m, l \in 1..Len(d) : m < l => d[m] < d[l]
  BY Addressing
<1>4. module \in 1..n /\ module \in 1..(n + 1) /\ module' \in 1..(n + 1) /\ module \in 1..Len(d) /\ module' - 1 = module
  BY <1>1, <1>2
<1>5. readUint32(currentModule) = size
  BY <1>1, <1>4, ReadsImage
<1>6. currentModule' = Start(files)[module']
  <2>1. Start(files)[module + 1] = currentModule + Word + size
    BY <1>1, <1>2, <1>4
  <2> QED BY <1>1, <1>5, <2>1
<1>7. \A a \in Addresses : memory'[a] = IF a \in d[module]..(d[module] + size - 1)
                                        THEN memory[from + a - d[module]] ELSE memory[a]
  BY <1>1, <1>5 DEF memcpy
<1>8. /\ Len(target) \in Nat /\ Len(target) <= d[1] /\ from + size <= Len(target)
      /\ from \in Nat /\ size \in Nat /\ d[module] \in Nat /\ d[1] <= d[module]
      /\ d[module] < memoryModuleAddress
  <2>1. /\ Len(target) \in Nat /\ Len(target) <= d[1]
        /\ \A m \in 1..n : Start(files)[m] + Word + Len(files[m]) <= Len(target)
    BY <1>1, InImage
  <2>2. from + size <= Len(target)
    BY <1>4, <2>1
  <2>3. from \in Nat /\ size \in Nat
    <3>1. Start(files)[module] \in Nat /\ Len(files[module]) \in Nat
      BY <1>2, <1>4
    <3> QED BY <1>2, <3>1
  <2>4. d[module] \in Nat /\ d[1] <= d[module] /\ d[module] < memoryModuleAddress
    BY <1>3, <1>4
  <2> HIDE DEF d, size, from, n
  <2> QED BY <2>1, <2>2, <2>3, <2>4
<1>9. \A k \in 1..Len(target) : memory[k - 1] = target[k]
  BY <1>1 DEF Resides
<1> HIDE DEF d, size, from, n
<1>10. ASSUME NEW a \in Nat, a < d[module] PROVE memory'[a] = memory[a]
  <2>1. a \in Addresses /\ a \notin d[module]..(d[module] + size - 1)
    BY <1>3, <1>8, <1>10 DEF Addresses
  <2> QED BY <1>7, <2>1
<1>11. Resides'
  <2>1. ASSUME NEW k \in 1..Len(target) PROVE memory'[k - 1] = target[k]
    <3>1. k - 1 \in Nat /\ k - 1 < d[module]
      BY <1>3, <1>8
    <3> QED BY <1>9, <1>10, <3>1
  <2> QED BY <1>1, <2>1 DEF Resides
<1>12. ASSUME \A m \in 1..n : Fits(m), NEW m \in 1..module, NEW k \in 1..Len(files[m])
       PROVE  memory'[d[m] + k - 1] = files[m][k]
  <2>1. m \in 1..n /\ m \in 1..Len(d) /\ d[m] \in Nat /\ Len(files[m]) \in Nat
    BY <1>2, <1>3, <1>4
  <2>2. /\ d[m] + Len(files[m]) <= memoryModuleAddress
        /\ \A l \in 1..n : m < l => d[m] + Len(files[m]) <= d[l]
    BY <1>1, <1>12, <2>1, AllFit DEF n, d
  <2>3. CASE m = module
    <3> DEFINE a == d[module] + k - 1
    <3>1. a \in Addresses /\ a \in d[module]..(d[module] + size - 1)
      <4>1. k \in 1..size /\ d[module] + size <= memoryModuleAddress
        BY <2>2, <2>3 DEF size
      <4>2. a \in Nat /\ d[module] <= a /\ a < d[module] + size
        BY <1>8, <4>1
      <4>3. /\ d[module] \in Nat /\ size \in Nat /\ Top \in Nat
            /\ memoryModuleAddress \in Nat /\ memoryModuleAddress < Top
        BY <1>3, <1>8
      <4> HIDE DEF a
      <4> QED BY <4>1, <4>2, <4>3 DEF Addresses
    <3>2. from + a - d[module] = (from + k) - 1 /\ from + k \in 1..Len(target)
      BY <1>8, <2>1, <2>3 DEF size
    <3>3. memory'[a] = memory[(from + k) - 1]
      BY <1>7, <3>1, <3>2
    <3>4. memory[(from + k) - 1] = target[from + k]
      BY <1>9, <3>2
    <3>5. target[from + k] = files[module][k]
      BY <1>1, <1>4, <2>3 DEF Image, from, n
    <3> QED BY <2>3, <3>3, <3>4, <3>5
  <2>4. CASE m # module
    <3>1. m \in 1..(module - 1) /\ m < module
      BY <1>4, <2>4
    <3>2. memory[d[m] + k - 1] = files[m][k]
      BY <1>1, <1>12, <3>1 DEF Loaded, n, d
    <3>3. d[m] + k - 1 \in Nat /\ d[m] + k - 1 < d[module]
      <4>1. d[m] + Len(files[m]) <= d[module]
        BY <1>4, <2>2, <3>1
      <4> QED BY <1>8, <2>1, <4>1, InPlace
    <3> QED BY <1>10, <3>2, <3>3
  <2> QED BY <2>3, <2>4
<1>13. Loaded(module - 1)'
  <2>1. SUFFICES ASSUME \A m \in 1..Len(files)' : Fits(m)', NEW m \in 1..(module' - 1),
                        NEW k \in 1..Len(files'[m])
                 PROVE  memory'[moduleAddresses[m] + k - 1] = files'[m][k]
    BY DEF Loaded
  <2>2. \A l \in 1..n : Fits(l)
    BY <1>1, <2>1 DEF Fits, n
  <2>3. m \in 1..module /\ k \in 1..Len(files[m])
    BY <1>1, <1>4
  <2> QED BY <1>1, <1>12, <2>2, <2>3 DEF d
<1>14. /\ module' \in 1..(Len(files') + 1) /\ moduleCount' = Len(files')
       /\ currentModule' = Start(files')[module'] /\ Image(files', Len(files'), target')
  BY <1>1, <1>4, <1>6 DEF n
<1> QED BY <1>1, <1>11, <1>13, <1>14 DEF ImageInv

\* The bss lies before the modules.
LEMMA ClearKeeps == ASSUME ImageAssumption, ImageInv, clearBSS PROVE ImageInv'
<1> DEFINE n == Len(files)
           d == moduleAddresses
<1>1. /\ phase = "load" /\ phase' = "memory" /\ module > moduleCount
      /\ module \in 1..(n + 1) /\ moduleCount = n
      /\ memory' = memset(bss, 0, BssSize)
      /\ target' = target /\ files' = files /\ files \in Given
      /\ Image(files, n, target) /\ Resides /\ Loaded(module - 1)
  BY DEF clearBSS, packer, ImageInv
<1>2. /\ n \in Nat /\ n <= Len(d) /\ Len(d) \in Nat /\ \A m \in 1..n : Len(files[m]) \in Nat
  BY <1>1, ImageTypes
<1>3. /\ memoryModuleAddress \in Nat /\ Top \in Nat /\ memoryModuleAddress < Top /\ d[1] \in Nat
      /\ Len(Kernel) \in Nat /\ BssSize \in Nat
      /\ bss \in Nat /\ Len(Kernel) <= bss /\ bss + BssSize <= d[1]
      /\ d[1] < memoryModuleAddress
      /\ \A m \in 1..Len(d) : d[m] \in Nat /\ d[1] <= d[m]
  BY Addressing
<1>4. Loaded(n)
  <2>1. module - 1 = n
    BY <1>1, <1>2
  <2> QED BY <1>1, <2>1
<1>5. \A a \in Addresses : memory'[a] = IF a \in bss..(bss + BssSize - 1)
                                        THEN 0 ELSE memory[a]
  BY <1>1 DEF memset, endOfKernelBinary
<1> HIDE DEF n, d
<1>6. KernelResides'
  <2>1. Len(target) \in Nat /\ Len(Kernel) + Word <= Len(target) /\ Word \in Nat
    BY <1>1, InImage, ImageTypes DEF n
  <2>2. ASSUME NEW k \in 1..Len(Kernel) PROVE memory'[k - 1] = Kernel[k]
    <3>1. k - 1 \in Addresses /\ k - 1 \notin bss..(bss + BssSize - 1)
      BY <1>3 DEF Addresses
    <3>2. k \in 1..Len(target)
      BY <1>3, <2>1
    <3>3. memory[k - 1] = target[k] /\ target[k] = Kernel[k]
      BY <1>1, <3>2 DEF Resides, Image
    <3> QED BY <1>5, <3>1, <3>3
  <2> QED BY <2>2 DEF KernelResides
<1>7. Loaded(n)'
  <2>1. SUFFICES ASSUME \A m \in 1..Len(files)' : Fits(m)', NEW m \in 1..Len(files'),
                        NEW k \in 1..Len(files'[m])
                 PROVE  memory'[moduleAddresses[m] + k - 1] = files'[m][k]
    BY DEF Loaded, n
  <2>2. (\A l \in 1..n : Fits(l)) /\ m \in 1..n /\ k \in 1..Len(files[m])
    BY <1>1, <2>1 DEF Fits, n
  <2>3. memory[d[m] + k - 1] = files[m][k]
    BY <1>4, <2>2 DEF Loaded, n, d
  <2>4. d[m] + Len(files[m]) <= memoryModuleAddress
    BY <1>1, <2>2, AllFit DEF n, d
  <2>5. d[m] \in Nat /\ d[1] <= d[m] /\ Len(files[m]) \in Nat
    <3>1. m \in 1..Len(d)
      BY <1>2, <2>2
    <3> QED BY <1>2, <1>3, <2>2, <3>1
  <2>6. /\ d[m] + k - 1 \in Addresses
        /\ d[m] + k - 1 \notin bss..(bss + BssSize - 1)
    <3>1. k \in 1..Len(files[m])
      BY <2>2
    <3>2. d[m] + k - 1 \in Nat /\ d[m] <= d[m] + k - 1 /\ d[m] + k - 1 < memoryModuleAddress
      BY <1>3, <2>4, <2>5, <3>1, InPlace
    <3>3. /\ d[m] + k - 1 \in Nat /\ d[1] <= d[m] + k - 1
          /\ d[m] + k - 1 < memoryModuleAddress
      BY <1>3, <2>5, <3>2
    <3>4. /\ d[m] + k - 1 \in 0..(Top - 1)
          /\ ~(d[m] + k - 1 <= bss + BssSize - 1)
      <4> DEFINE a == d[m] + k - 1
      <4>1. a \in Nat /\ d[1] <= a /\ a < memoryModuleAddress
        BY <3>3
      <4> HIDE DEF a
      <4>2. a \in 0..(Top - 1) /\ ~(a <= bss + BssSize - 1)
        BY <1>3, <4>1
      <4> QED BY <4>2 DEF a
    <3> QED BY <3>4 DEF Addresses
  <2> QED BY <1>1, <1>5, <2>3, <2>6 DEF d
<1>8. Loaded(Len(files))'
  BY <1>7 DEF n
<1> QED BY <1>1, <1>6, <1>8 DEF ImageInv

\* The heap lies behind the modules.
LEMMA ManagerKeeps == ASSUME ImageAssumption, ImageInv, initMemoryManager PROVE ImageInv'
<1> DEFINE n == Len(files)
           d == moduleAddresses
<1>1. /\ phase = "memory" /\ phase' = "main"
      /\ memory' = memset(memoryModuleAddress, 0, 1)
      /\ files' = files /\ files \in Given /\ KernelResides /\ Loaded(Len(files))
  BY DEF initMemoryManager, packer, ImageInv
<1>2. /\ n \in Nat /\ n <= Len(d) /\ Len(d) \in Nat /\ \A m \in 1..n : Len(files[m]) \in Nat
  BY <1>1, ImageTypes
<1>3. /\ memoryModuleAddress \in Nat /\ Top \in Nat /\ memoryModuleAddress < Top /\ d[1] \in Nat
      /\ Len(Kernel) \in Nat /\ Len(Kernel) <= d[1] /\ d[1] < memoryModuleAddress
      /\ \A m \in 1..Len(d) : d[m] \in Nat
  BY Addressing
<1>4. \A a \in Addresses : a < memoryModuleAddress => memory'[a] = memory[a]
  <2>1. \A a \in Addresses :
          memory'[a] = IF a \in memoryModuleAddress..(memoryModuleAddress + 1 - 1)
                       THEN 0 ELSE memory[a]
    BY <1>1 DEF memset
  <2> QED BY <1>3, <2>1 DEF Addresses
<1> HIDE DEF n, d
<1>5. KernelResides'
  <2>1. ASSUME NEW k \in 1..Len(Kernel) PROVE memory'[k - 1] = Kernel[k]
    <3>1. k - 1 \in Addresses /\ k - 1 < memoryModuleAddress
      BY <1>3 DEF Addresses
    <3>2. memory[k - 1] = Kernel[k]
      BY <1>1 DEF KernelResides
    <3> QED BY <1>4, <3>1, <3>2
  <2> QED BY <2>1 DEF KernelResides
<1>6. Loaded(Len(files))'
  <2>1. SUFFICES ASSUME \A m \in 1..Len(files)' : Fits(m)', NEW m \in 1..Len(files'),
                        NEW k \in 1..Len(files'[m])
                 PROVE  memory'[moduleAddresses[m] + k - 1] = files'[m][k]
    BY DEF Loaded
  <2>2. (\A l \in 1..n : Fits(l)) /\ m \in 1..n /\ k \in 1..Len(files[m])
    BY <1>1, <2>1 DEF Fits, n
  <2>3. memory[d[m] + k - 1] = files[m][k]
    BY <1>1, <2>2 DEF Loaded, n, d
  <2>4. d[m] + Len(files[m]) <= memoryModuleAddress
    BY <1>1, <2>2, AllFit DEF n, d
  <2>5. d[m] \in Nat /\ Len(files[m]) \in Nat
    <3>1. m \in 1..Len(d)
      BY <1>2, <2>2
    <3> QED BY <1>2, <1>3, <2>2, <3>1
  <2>6. d[m] + k - 1 \in Nat /\ d[m] + k - 1 < memoryModuleAddress
    BY <1>3, <2>2, <2>4, <2>5, InPlace
  <2>7. d[m] + k - 1 \in Addresses
    <3> DEFINE a == d[m] + k - 1
    <3>1. a \in Nat /\ a < memoryModuleAddress
      BY <2>6
    <3> HIDE DEF a
    <3>2. a \in Addresses
      BY <1>3, <3>1 DEF Addresses
    <3> QED BY <3>2 DEF a
  <2> QED BY <1>1, <1>4, <2>3, <2>6, <2>7 DEF d
<1> QED BY <1>1, <1>5, <1>6 DEF ImageInv

LEMMA ImageRests ==
  ASSUME ImageInv, UNCHANGED imageVars
  PROVE  ImageInv'
BY DEF ImageInv, imageVars, Loaded, Fits, Resides, KernelResides, endOfKernelBinary

\* What the invariant says at the end.
LEMMA ImageLoaded == ASSUME ImageAssumption, ImageInv PROVE LoadedAsPacked
<1> SUFFICES ASSUME phase = "main" PROVE LoadedAsPacked
  BY DEF LoadedAsPacked
<1>1. files \in Given /\ KernelResides /\ Loaded(Len(files))
  BY DEF ImageInv
<1>2. /\ Len(Kernel) \in Nat
      /\ Len(files) \in Nat /\ \A m \in 1..Len(files) : files[m] \in Seq(Cells)
  BY <1>1, ImageTypes
<1>3. DOMAIN files = 1..Len(files) /\ \A m \in 1..Len(files) : DOMAIN files[m] = 1..Len(files[m])
  <2>1. files \in Seq(Contents)
    BY <1>1 DEF Given
  <2> QED BY <1>2, <2>1
<1>4. ASSUME NEW a \in 0..(endOfKernelBinary - 1) PROVE memory[a] = Kernel[a + 1]
  <2>1. a + 1 \in 1..Len(Kernel) /\ (a + 1) - 1 = a
    BY <1>2 DEF endOfKernelBinary
  <2>2. memory[(a + 1) - 1] = Kernel[a + 1]
    BY <1>1, <2>1 DEF KernelResides
  <2> QED BY <2>1, <2>2
<1>5. ASSUME NEW m \in DOMAIN files, \A n \in DOMAIN files : Fits(n), NEW k \in DOMAIN files[m]
      PROVE  memory[moduleAddresses[m] + k - 1] = files[m][k]
  <2>1. (\A n \in 1..Len(files) : Fits(n)) /\ m \in 1..Len(files) /\ k \in 1..Len(files[m])
    BY <1>3, <1>5
  <2> QED BY <1>1, <2>1 DEF Loaded
<1> QED BY <1>4, <1>5 DEF LoadedAsPacked

\* When main() starts, the kernel is as it was linked and the modules are at their
\* addresses as their files were (buildImage of ModulePacker/main.c, loadModules and
\* initializeKernelBinary): for all sizes and numbers of modules that fit, all
\* layouts that keep the order of the memory map, and every size of the buffer.
THEOREM ModulesLoaded == ASSUME ImageAssumption PROVE ImageSpec => []LoadedAsPacked
<1>1. ImageInit => ImageInv
  BY ImageBegun
<1>2. ImageInv /\ [ImageNext]_imageVars => ImageInv'
  BY PackerKeeps, CountKeeps, LoadKeeps, ClearKeeps, ManagerKeeps, ImageRests DEF ImageNext
<1>3. ImageInv => LoadedAsPacked
  BY ImageLoaded
<1> QED BY <1>1, <1>2, <1>3, PTL DEF ImageSpec

-----------------------------------------------------------------------------
(* Filters: what is made of a text.                                        *)

Chars == Vocals \union Others \union {"NL", "BS"}

\* What satisfies the equations of a run is the run.
LEMMA SameRun ==
  ASSUME NEW n \in Nat, NEW V, NEW b, NEW step, NEW g, Run(g, n, V, b, step),
         NEW h, h[0] = b, \A k \in 1..n : h[k - 1] \in V => h[k] = step[k][h[k - 1]]
  PROVE  \A k \in 0..n : h[k] = g[k]
<1> DEFINE T == {k \in 0..n : h[k] # g[k]}
<1> SUFFICES ASSUME T # {} PROVE FALSE
  OBVIOUS
<1>1. /\ g \in [0..n -> V] /\ g[0] = b
      /\ \A k \in 1..n : g[k] = step[k][g[k - 1]]
  BY DEF Run
<1>2. PICK k \in T : \A l \in T : k <= l
  <2>1. T \subseteq Nat
    OBVIOUS
  <2> HIDE DEF T
  <2> QED BY <2>1, SmallestNumber
<1>3. k \in 0..n /\ h[k] # g[k]
  BY <1>2
<1>4. k # 0
  BY <1>1, <1>3
<1>5. k \in 1..n /\ k - 1 \in 0..n /\ k - 1 < k
  BY <1>3, <1>4
<1>6. k - 1 \notin T
  <2> HIDE DEF T
  <2> QED BY <1>2, <1>5
<1>7. h[k - 1] = g[k - 1] /\ g[k - 1] \in V
  BY <1>1, <1>5, <1>6
<1>8. h[k] = step[k][h[k - 1]] /\ g[k] = step[k][g[k - 1]]
  BY <1>1, <1>5, <1>7
<1> QED BY <1>3, <1>7, <1>8

LEMMA PassedSeq ==
  ASSUME NEW com, NEW t \in Seq(Chars), NEW c \in Chars
  PROVE  Passed(com, t, c) \in Seq(Chars)
<1>1. Append(t, c) \in Seq(Chars)
  OBVIOUS
<1>2. t # << >> => Front(t) \in Seq(Chars)
  BY DEF Front
<1> QED BY <1>1, <1>2 DEF Passed

\* The function PassedOn is defined with is a run over the characters of the text.
LEMMA PassedRuns ==
  ASSUME NEW com, NEW t \in Seq(Chars)
  PROVE  LET step == [k \in 1..Len(t) |-> [x \in Seq(Chars) |-> Passed(com, x, t[k])]]
         IN  \E g : Run(g, Len(t), Seq(Chars), << >>, step) /\ PassedOn(com, t) = g[Len(t)]
<1> DEFINE n == Len(t)
           step == [k \in 1..n |-> [x \in Seq(Chars) |-> Passed(com, x, t[k])]]
           E(f, k) == IF k = 0 THEN << >> ELSE Passed(com, f[k - 1], t[k])
           upTo == CHOOSE f : f = [k \in 0..n |-> E(f, k)]
<1> SUFFICES \E g : Run(g, n, Seq(Chars), << >>, step) /\ PassedOn(com, t) = g[n]
  OBVIOUS
<1>1. n \in Nat /\ \A k \in 1..n : t[k] \in Chars
  OBVIOUS
<1>2. PassedOn(com, t) = upTo[n]
  BY Zenon DEF PassedOn
<1> HIDE DEF n
<1>3. \A k \in 1..n : \A x \in Seq(Chars) :
        Passed(com, x, t[k]) \in Seq(Chars) /\ step[k][x] = Passed(com, x, t[k])
  BY <1>1, PassedSeq
<1>4. step \in [1..n -> [Seq(Chars) -> Seq(Chars)]]
  BY <1>3
<1> HIDE DEF step
<1>5. PICK g : Run(g, n, Seq(Chars), << >>, step)
  <2>1. << >> \in Seq(Chars)
    OBVIOUS
  <2> QED BY <1>1, <1>4, <2>1, RunExists
<1>6. /\ g \in [0..n -> Seq(Chars)] /\ g[0] = << >>
      /\ \A k \in 1..n : g[k] = step[k][g[k - 1]]
  BY <1>5 DEF Run
<1>7. g = [k \in 0..n |-> E(g, k)]
  <2>1. \A k \in 0..n : g[k] = E(g, k)
    <3>1. ASSUME NEW k \in 1..n PROVE g[k] = Passed(com, g[k - 1], t[k])
      <4>1. k - 1 \in 0..n
        BY <1>1
      <4>2. g[k - 1] \in Seq(Chars)
        BY <1>6, <4>1
      <4> QED BY <1>3, <1>6, <4>2
    <3>2. \A k \in 0..n : k = 0 \/ (k \in 1..n /\ k # 0)
      BY <1>1
    <3> QED BY <1>6, <3>1, <3>2
  <2> HIDE DEF E
  <2> QED BY <1>6, <2>1
<1>8. upTo = [k \in 0..n |-> E(upTo, k)]
  BY <1>7
<1> HIDE DEF upTo
<1>9. \A k \in 0..n : upTo[k] = E(upTo, k)
  <2> HIDE DEF E
  <2> QED BY <1>8
<1>10. upTo[0] = << >> /\ \A k \in 1..n : upTo[k] = Passed(com, upTo[k - 1], t[k])
  <2>1. 0 \in 0..n /\ \A k \in 1..n : k \in 0..n /\ k # 0
    BY <1>1
  <2> QED BY <1>9, <2>1
<1>11. \A k \in 1..n : upTo[k - 1] \in Seq(Chars) => upTo[k] = step[k][upTo[k - 1]]
  BY <1>3, <1>10
<1>12. \A k \in 0..n : upTo[k] = g[k]
  BY <1>1, <1>5, <1>10, <1>11, SameRun
<1>13. n \in 0..n
  BY <1>1
<1> QED BY <1>2, <1>5, <1>12, <1>13

LEMMA PassedOnLaws ==
  ASSUME NEW com
  PROVE  /\ PassedOn(com, << >>) = << >>
         /\ \A t \in Seq(Chars) : PassedOn(com, t) \in Seq(Chars)
         /\ \A t \in Seq(Chars) : \A c \in Chars :
              PassedOn(com, Append(t, c)) = Passed(com, PassedOn(com, t), c)
<1> DEFINE S == Seq(Chars)
           step(t) == [k \in 1..Len(t) |-> [x \in S |-> Passed(com, x, t[k])]]
<1>1. ASSUME NEW t \in S
      PROVE  \E g : Run(g, Len(t), S, << >>, step(t)) /\ PassedOn(com, t) = g[Len(t)]
  BY PassedRuns
<1>2. ASSUME NEW t \in S PROVE PassedOn(com, t) \in S
  <2>1. PICK g : Run(g, Len(t), S, << >>, step(t)) /\ PassedOn(com, t) = g[Len(t)]
    BY <1>1
  <2>2. Len(t) \in 0..Len(t)
    OBVIOUS
  <2> QED BY <2>1, <2>2 DEF Run
<1>3. PassedOn(com, << >>) = << >>
  <2>1. << >> \in S /\ Len(<< >>) = 0
    OBVIOUS
  <2>2. PICK g : Run(g, 0, S, << >>, step(<< >>)) /\ PassedOn(com, << >>) = g[0]
    <3> HIDE DEF step, S
    <3> QED BY <1>1, <2>1
  <2> QED BY <2>2 DEF Run
<1>4. ASSUME NEW t \in S, NEW c \in Chars
      PROVE  PassedOn(com, Append(t, c)) = Passed(com, PassedOn(com, t), c)
  <2> DEFINE u == Append(t, c)
             n == Len(t)
  <2>1. /\ u \in S /\ n \in Nat /\ Len(u) = n + 1 /\ u[n + 1] = c
        /\ \A k \in 1..n : u[k] = t[k]
    OBVIOUS
  <2> HIDE DEF u, n
  <2>2. PICK g : Run(g, n, S, << >>, step(t)) /\ PassedOn(com, t) = g[n]
    BY <1>1 DEF n
  <2>3. PICK h : Run(h, n + 1, S, << >>, step(u)) /\ PassedOn(com, u) = h[n + 1]
    BY <1>1, <2>1
  <2>4. /\ h \in [0..(n + 1) -> S] /\ h[0] = << >>
        /\ \A k \in 1..(n + 1) : h[k] = step(u)[k][h[k - 1]]
    BY <2>3 DEF Run
  <2>5. \A k \in 1..(n + 1) : h[k - 1] \in S
    <3>1. \A k \in 1..(n + 1) : k - 1 \in 0..(n + 1)
      BY <2>1
    <3> QED BY <2>4, <3>1
  <2>6. \A k \in 1..(n + 1) : h[k] = Passed(com, h[k - 1], u[k])
    BY <2>1, <2>4, <2>5
  <2>7. \A k \in 1..n : h[k - 1] \in S => h[k] = step(t)[k][h[k - 1]]
    <3>1. \A k \in 1..n : k \in 1..(n + 1)
      BY <2>1
    <3>2. \A k \in 1..n : \A x \in S : step(t)[k][x] = Passed(com, x, t[k])
      BY DEF n
    <3> HIDE DEF step
    <3>3. ASSUME NEW k \in 1..n, h[k - 1] \in S PROVE h[k] = step(t)[k][h[k - 1]]
      <4>1. h[k] = Passed(com, h[k - 1], t[k])
        BY <2>1, <2>6, <3>1
      <4>2. step(t)[k][h[k - 1]] = Passed(com, h[k - 1], t[k])
        BY <3>2, <3>3
      <4> QED BY <4>1, <4>2
    <3> QED BY <3>3
  <2>8. h[n] = g[n]
    <3>1. \A k \in 0..n : h[k] = g[k]
      <4> DEFINE s == step(t)
                 e == << >>
      <4>1. Run(g, n, S, e, s)
        BY <2>2
      <4>2. n \in Nat /\ h[0] = e
        BY <2>1, <2>4
      <4>3. \A k \in 1..n : h[k - 1] \in S => h[k] = s[k][h[k - 1]]
        BY <2>7
      <4> HIDE DEF s, S, e
      <4> QED BY <4>1, <4>2, <4>3, SameRun
    <3> QED BY <2>1, <3>1
  <2>9. h[n + 1] = Passed(com, h[n], c)
    <3>1. n + 1 \in 1..(n + 1) /\ (n + 1) - 1 = n
      BY <2>1
    <3> QED BY <2>1, <2>6, <3>1
  <2> QED BY <2>2, <2>3, <2>8, <2>9 DEF u
<1> QED BY <1>2, <1>3, <1>4

-----------------------------------------------------------------------------
(* What is printed.                                                        *)

Buffers == [Places -> Chars \union {"0", "EOF"}]

\* A string that ends at q is printed up to there if the length reaches that far.
LEMMA PrintsLine ==
  ASSUME FiltersAssumption, NEW b \in Buffers, NEW l \in 0..SIZE, NEW q \in l..SIZE,
         NEW m \in Nat, q - l <= m,
         \A p \in l..(q - 1) : b[p] \in Chars, b[q] \in {"0", "EOF"}
  PROVE  write(b, l, m) = [k \in 1..(q - l) |-> b[l + k - 1]]
<1> DEFINE chars == [k \in 1..(m + 1) |-> IF l + k - 1 \in Places THEN b[l + k - 1] ELSE "0"]
           ends == {k \in DOMAIN chars : chars[k] \in {"0", "EOF"}}
           first == CHOOSE k \in ends : \A e \in ends : k <= e
           n == q - l
<1>1. SIZE \in Nat /\ "0" \notin Chars /\ "EOF" \notin Chars
  BY DEF FiltersAssumption, Chars
<1>2. /\ l \in Nat /\ q \in Nat /\ n \in Nat /\ n + 1 \in 1..(m + 1)
      /\ l + (n + 1) - 1 = q /\ q \in Places /\ l <= q /\ q <= SIZE
  BY <1>1 DEF Places
<1>3. /\ DOMAIN chars = 1..(m + 1)
      /\ \A k \in 1..(m + 1) :
           chars[k] = IF l + k - 1 \in Places THEN b[l + k - 1] ELSE "0"
  OBVIOUS
<1>4. write(b, l, m) = SubSeq(chars, 1, (IF ends = {} THEN m + 2 ELSE first) - 1)
  BY DEF write
<1> HIDE DEF chars, n
<1>5. \A k \in 1..n : k \in 1..(m + 1) /\ chars[k] = b[l + k - 1] /\ chars[k] \in Chars
  <2>1. ASSUME NEW k \in 1..n
        PROVE  k \in 1..(m + 1) /\ l + k - 1 \in l..(q - 1) /\ l + k - 1 \in Places
    BY <1>1, <1>2 DEF Places, n
  <2> QED BY <1>3, <2>1
<1>6. chars[n + 1] \in {"0", "EOF"}
  <2>1. chars[n + 1] = b[q]
    BY <1>2, <1>3
  <2> QED BY <2>1
<1>7. n + 1 \in ends /\ \A k \in ends : n + 1 <= k
  <2>1. n + 1 \in ends
    BY <1>2, <1>3, <1>6
  <2>2. ASSUME NEW k \in ends PROVE n + 1 <= k
    <3>1. k \in 1..(m + 1) /\ chars[k] \in {"0", "EOF"}
      BY <1>3
    <3>2. k \notin 1..n
      BY <1>1, <1>5, <3>1
    <3> QED BY <1>2, <3>1, <3>2
  <2> QED BY <2>1, <2>2
<1>8. first = n + 1
  <2>1. \A k \in ends : k \in Nat
    BY <1>3
  <2> HIDE DEF ends
  <2>2. first \in ends /\ \A k \in ends : first <= k
    BY <1>7
  <2> QED BY <1>2, <1>7, <2>1, <2>2
<1>9. write(b, l, m) = SubSeq(chars, 1, n)
  <2>1. ends # {}
    BY <1>7
  <2>2. (n + 1) - 1 = n
    BY <1>2
  <2> HIDE DEF ends, first
  <2> QED BY <1>4, <1>8, <2>1, <2>2
<1>10. SubSeq(chars, 1, n) = [k \in 1..n |-> chars[k]]
  BY <1>2
<1>11. [k \in 1..n |-> chars[k]] = [k \in 1..n |-> b[l + k - 1]]
  BY <1>5
<1> QED BY <1>9, <1>10, <1>11 DEF n

\* Lines put together.
LEMMA JoinsLine ==
  ASSUME NEW e \in Seq(Chars), NEW l \in 0..Len(e)
  PROVE  SubSeq(e, 1, l) \o [k \in 1..(Len(e) - l) |-> e[l + k]] = e
<1>1. [k \in 1..(Len(e) - l) |-> e[l + k]] = SubSeq(e, l + 1, Len(e))
  OBVIOUS
<1>2. SubSeq(e, 1, l) \o SubSeq(e, l + 1, Len(e)) = SubSeq(e, 1, Len(e))
  <2>1. 1 \in 1..(Len(e) + 1) /\ l \in (1 - 1)..Len(e) /\ Len(e) \in l..Len(e)
    OBVIOUS
  <2> QED BY <2>1, ConcatAdjacentSubSeq
<1>3. SubSeq(e, 1, Len(e)) = e
  OBVIOUS
<1> QED BY <1>1, <1>2, <1>3

\* e lies in the buffer b up to i = n; it is printed up to the line that begins at l,
\* and j = m reaches at least from there to its end.
Lies(e, b, n, m, l, o) ==
  /\ e \in Seq(Chars) /\ n = Len(e)
  /\ \A k \in 1..n : b[k - 1] = e[k]
  /\ \A p \in n..SIZE : b[p] = "0"
  /\ l \in 0..n /\ m \in Nat /\ n - l <= m
  /\ o = SubSeq(e, 1, l)

LEMMA PutLaws ==
  ASSUME NEW b \in Buffers, NEW p \in Places, NEW c \in Chars \union {"0", "EOF"}
  PROVE  /\ Put(b, p, c) \in Buffers /\ Put(b, p, c)[p] = c
         /\ \A q \in Places : q # p => Put(b, p, c)[q] = b[q]
BY DEF Put, Buffers

\* e ends at n in the buffer b, and m reaches from l to its end.
Stops(e, b, n, l, m) ==
  /\ e \in Seq(Chars) /\ b \in Buffers /\ n \in 0..SIZE /\ n = Len(e)
  /\ \A k \in 1..n : b[k - 1] = e[k]
  /\ b[n] \in {"0", "EOF"}
  /\ l \in 0..n /\ m \in Nat /\ n - l <= m

\* What lies in the buffer is printed to its end.
LEMMA LastLine ==
  ASSUME FiltersAssumption, NEW e, NEW b, NEW n, NEW l, NEW m, Stops(e, b, n, l, m)
  PROVE  SubSeq(e, 1, l) \o write(b, l, m) = e
<1> USE DEF Stops
<1>1. SIZE \in Nat /\ n \in Nat /\ l \in 0..SIZE /\ n \in l..SIZE
  BY DEF FiltersAssumption
<1>2. ASSUME NEW p \in l..(n - 1) PROVE b[p] \in Chars
  <2>1. p + 1 \in 1..n /\ (p + 1) - 1 = p
    BY <1>1
  <2>2. b[p] = e[p + 1]
    BY <2>1
  <2> QED BY <2>1, <2>2
<1>3. write(b, l, m) = [k \in 1..(n - l) |-> b[l + k - 1]]
  BY <1>1, <1>2, PrintsLine
<1>4. ASSUME NEW k \in 1..(n - l) PROVE b[l + k - 1] = e[l + k]
  <2>1. l + k \in 1..n
    BY <1>1
  <2> QED BY <2>1
<1>5. write(b, l, m) = [k \in 1..(Len(e) - l) |-> e[l + k]]
  BY <1>3, <1>4
<1>6. SubSeq(e, 1, l) \o [k \in 1..(Len(e) - l) |-> e[l + k]] = e
  BY JoinsLine
<1> QED BY <1>5, <1>6

\* A character is put behind the others.
LEMMA Grows ==
  ASSUME FiltersAssumption, NEW e, NEW b \in Buffers, NEW n, NEW m, NEW l, NEW o,
         Lies(e, b, n, m, l, o), n < SIZE, NEW c \in Chars
  PROVE  Lies(Append(e, c), Put(b, n, c), n + 1, m + 1, l, o)
<1> DEFINE f == Append(e, c)
           d == Put(b, n, c)
<1>1. /\ e \in Seq(Chars) /\ n = Len(e) /\ n \in Nat
      /\ \A k \in 1..n : b[k - 1] = e[k]
      /\ \A p \in n..SIZE : b[p] = "0"
      /\ l \in 0..n /\ m \in Nat /\ n - l <= m /\ o = SubSeq(e, 1, l)
  BY DEF Lies
<1>2. /\ f \in Seq(Chars) /\ Len(f) = n + 1 /\ f[n + 1] = c
      /\ \A k \in 1..n : f[k] = e[k]
  BY <1>1
<1>3. SIZE \in Nat /\ n \in Places /\ \A p \in 0..SIZE : p \in Places
  BY <1>1 DEF FiltersAssumption, Places
<1>4. d[n] = c /\ \A p \in Places : p # n => d[p] = b[p]
  BY <1>3, PutLaws
<1> HIDE DEF f, d
<1>5. ASSUME NEW k \in 1..(n + 1) PROVE d[k - 1] = f[k]
  <2>1. CASE k = n + 1
    BY <1>1, <1>2, <1>4, <2>1
  <2>2. CASE k # n + 1
    <3>1. k \in 1..n /\ k - 1 \in 0..SIZE /\ k - 1 # n
      BY <1>1, <1>3, <2>2
    <3> QED BY <1>1, <1>2, <1>3, <1>4, <3>1
  <2> QED BY <2>1, <2>2
<1>6. ASSUME NEW p \in (n + 1)..SIZE PROVE d[p] = "0"
  <2>1. p \in n..SIZE /\ p \in 0..SIZE /\ p # n
    BY <1>1
  <2> QED BY <1>1, <1>3, <1>4, <2>1
<1>7. o = SubSeq(f, 1, l)
  BY <1>1, <1>2
<1>8. l \in 0..(n + 1) /\ m + 1 \in Nat /\ (n + 1) - l <= m + 1
  BY <1>1
<1>9. Lies(f, d, n + 1, m + 1, l, o)
  BY <1>2, <1>5, <1>6, <1>7, <1>8 DEF Lies
<1> QED BY <1>9 DEF f, d

\* A line end is put there, and the line is printed.
LEMMA LineEnds ==
  ASSUME FiltersAssumption, NEW e, NEW b \in Buffers, NEW n, NEW m, NEW l, NEW o,
         Lies(e, b, n, m, l, o), n < SIZE, NEW c \in Chars
  PROVE  Lies(Append(e, c), Put(b, n, c), n + 1, 0, n + 1,
              o \o write(Put(b, n, c), l, m + 1))
<1> DEFINE f == Append(e, c)
           d == Put(b, n, c)
<1>1. Lies(f, d, n + 1, m + 1, l, o)
  BY Grows
<1>2. n \in Nat /\ n \in Places /\ SIZE \in Nat
  BY DEF Lies, FiltersAssumption, Places
<1>3. d \in Buffers
  BY <1>2, PutLaws
<1> HIDE DEF f, d
<1>4. /\ f \in Seq(Chars) /\ n + 1 = Len(f)
      /\ \A k \in 1..(n + 1) : d[k - 1] = f[k]
      /\ \A p \in (n + 1)..SIZE : d[p] = "0"
      /\ l \in 0..(n + 1) /\ m + 1 \in Nat /\ (n + 1) - l <= m + 1 /\ o = SubSeq(f, 1, l)
  BY <1>1 DEF Lies
<1>5. o \o write(d, l, m + 1) = f
  <2>1. n + 1 \in 0..SIZE /\ d[n + 1] \in {"0", "EOF"}
    BY <1>2, <1>4
  <2>2. Stops(f, d, n + 1, l, m + 1)
    BY <1>3, <1>4, <2>1 DEF Stops
  <2>3. SubSeq(f, 1, l) \o write(d, l, m + 1) = f
    BY <2>2, LastLine
  <2> QED BY <1>4, <2>3
<1>6. f = SubSeq(f, 1, n + 1)
  BY <1>4
<1>7. n + 1 \in 0..(n + 1) /\ (n + 1) - (n + 1) <= 0
  BY <1>2
<1>8. Lies(f, d, n + 1, 0, n + 1, f)
  BY <1>4, <1>6, <1>7 DEF Lies
<1> QED BY <1>5, <1>8 DEF f, d

\* The last character of a line is taken back.
LEMMA TakesBack ==
  ASSUME FiltersAssumption, NEW e, NEW b \in Buffers, NEW n, NEW m, NEW l, NEW o,
         Lies(e, b, n, m, l, o), n < SIZE, l < n
  PROVE  Lies(Front(e), Put(Put(b, n, "0"), n - 1, "0"), n - 1, m + 1, l, o)
<1> DEFINE f == Front(e)
           a == Put(b, n, "0")
           d == Put(a, n - 1, "0")
<1>1. /\ e \in Seq(Chars) /\ n = Len(e) /\ n \in Nat
      /\ \A k \in 1..n : b[k - 1] = e[k]
      /\ \A p \in n..SIZE : b[p] = "0"
      /\ l \in 0..n /\ m \in Nat /\ n - l <= m /\ o = SubSeq(e, 1, l)
  BY DEF Lies
<1>2. n > 0 /\ l <= n - 1 /\ l \in Nat
  BY <1>1
<1>3. f \in Seq(Chars) /\ Len(f) = n - 1 /\ \A k \in 1..(n - 1) : f[k] = e[k]
  BY <1>1, <1>2 DEF Front
<1>4. SIZE \in Nat /\ n \in Places /\ n - 1 \in Places /\ \A p \in 0..SIZE : p \in Places
  BY <1>1, <1>2 DEF FiltersAssumption, Places
<1>5. a \in Buffers /\ a[n] = "0" /\ \A p \in Places : p # n => a[p] = b[p]
  BY <1>4, PutLaws
<1> HIDE DEF a
<1>6. d[n - 1] = "0" /\ \A p \in Places : p # n - 1 => d[p] = a[p]
  BY <1>4, <1>5, PutLaws
<1> HIDE DEF f, d
<1>7. ASSUME NEW k \in 1..(n - 1) PROVE d[k - 1] = f[k]
  <2>1. k \in 1..n /\ k - 1 \in 0..SIZE /\ k - 1 # n /\ k - 1 # n - 1
    BY <1>1, <1>4
  <2> QED BY <1>1, <1>3, <1>4, <1>5, <1>6, <2>1
<1>8. ASSUME NEW p \in (n - 1)..SIZE PROVE d[p] = "0"
  <2>1. p \in 0..SIZE /\ p \in Places /\ (p = n - 1 \/ p = n \/ (p \in n..SIZE /\ p # n /\ p # n - 1))
    BY <1>1, <1>2, <1>4 DEF Places
  <2>2. n # n - 1
    BY <1>1
  <2> QED BY <1>1, <1>4, <1>5, <1>6, <2>1, <2>2
<1>9. o = SubSeq(f, 1, l)
  BY <1>1, <1>2, <1>3
<1>10. l \in 0..(n - 1) /\ m + 1 \in Nat /\ (n - 1) - l <= m + 1
  BY <1>1, <1>2
<1>11. Lies(f, d, n - 1, m + 1, l, o)
  BY <1>1, <1>3, <1>7, <1>8, <1>9, <1>10 DEF Lies
<1> QED BY <1>11 DEF f, a, d

\* A backspace that is taken out leaves a zero where there was one.
LEMMA TakenOut ==
  ASSUME FiltersAssumption, NEW e, NEW b \in Buffers, NEW n, NEW m, NEW l, NEW o,
         Lies(e, b, n, m, l, o), n < SIZE
  PROVE  Lies(e, Put(b, n, "0"), n, m + 1, l, o)
<1>1. /\ n \in Nat /\ e \in Seq(Chars) /\ b[n] = "0" /\ m \in Nat /\ l \in 0..n /\ n - l <= m
      /\ n \in Places
  BY DEF Lies, FiltersAssumption, Places
<1>2. Put(b, n, "0") = b
  BY <1>1 DEF Put, Buffers
<1>3. m + 1 \in Nat /\ n - l <= m + 1
  BY <1>1
<1> QED BY <1>2, <1>3 DEF Lies

\* The end of the text is put behind the last character, and the last line is printed.
LEMMA Ends ==
  ASSUME FiltersAssumption, NEW e, NEW b \in Buffers, NEW n, NEW m, NEW l, NEW o,
         Lies(e, b, n, m, l, o), n <= SIZE
  PROVE  o \o write(Put(b, n, "EOF"), l, m + 1) = e
<1> DEFINE d == Put(b, n, "EOF")
<1>1. /\ e \in Seq(Chars) /\ n = Len(e) /\ n \in Nat
      /\ \A k \in 1..n : b[k - 1] = e[k]
      /\ l \in 0..n /\ m \in Nat /\ n - l <= m /\ o = SubSeq(e, 1, l)
  BY DEF Lies
<1>2. SIZE \in Nat /\ n \in Places /\ n \in 0..SIZE /\ \A p \in 0..SIZE : p \in Places
  BY <1>1 DEF FiltersAssumption, Places
<1>3. d \in Buffers /\ d[n] = "EOF" /\ \A p \in Places : p # n => d[p] = b[p]
  BY <1>2, PutLaws
<1> HIDE DEF d
<1>4. ASSUME NEW k \in 1..n PROVE d[k - 1] = e[k]
  <2>1. k - 1 \in 0..SIZE /\ k - 1 # n
    BY <1>1, <1>2
  <2> QED BY <1>1, <1>2, <1>3, <2>1
<1>5. m + 1 \in Nat /\ n - l <= m + 1 /\ d[n] \in {"0", "EOF"}
  BY <1>1, <1>3
<1>6. SubSeq(e, 1, l) \o write(d, l, m + 1) = e
  <2>1. Stops(e, d, n, l, m + 1)
    BY <1>1, <1>2, <1>3, <1>4, <1>5 DEF Stops
  <2> QED BY <2>1, LastLine
<1> QED BY <1>1, <1>6 DEF d

-----------------------------------------------------------------------------
(* The invariant of Filters.                                               *)

\* What was read so far is in the buffer and in what was printed.
Conveys ==
  /\ i \in 0..Len(text)
  /\ command = "cat" /\ WithinLines(text) =>
       /\ Lies(PassedOn("cat", text), buffer, i, j, line, out)
       /\ line = 0 \/ PassedOn("cat", text)[line] = "NL"
  /\ command = "filter" => Lies(PassedOn("filter", text), buffer, i, j, line, out)
  /\ command = "wc" => i = Newlines(text) /\ out = << >>

FiltersInv ==
  /\ text \in Seq(Chars) /\ command \in {"cat", "filter", "wc"} /\ buffer \in Buffers
  /\ at \in Chars \union {"loop", "EOF", "outside", "exit"} /\ i \in Int
  /\ at = "loop" => i >= 0
  /\ at # "exit" => i <= Len(text)
  /\ Len(text) < SIZE =>
       /\ at \in {"loop", "EOF", "outside", "exit"}
       /\ at \in {"loop", "EOF"} => Conveys
       /\ PassesTextOn

\* A text with one character more.
LEMMA NewlinesLaws ==
  /\ Newlines(<< >>) = 0
  /\ \A t \in Seq(Chars) : Newlines(t) \in 0..Len(t)
  /\ \A t \in Seq(Chars) : \A c \in Chars :
       Newlines(Append(t, c)) = IF c = "NL" THEN Newlines(t) + 1 ELSE Newlines(t)
<1> DEFINE N(t) == {n \in DOMAIN t : t[n] = "NL"}
<1>1. Newlines(<< >>) = 0
  <2>1. N(<< >>) = {}
    OBVIOUS
  <2> QED BY <2>1, FS_EmptySet DEF Newlines
<1>2. ASSUME NEW t \in Seq(Chars)
      PROVE  /\ IsFiniteSet(N(t)) /\ Cardinality(N(t)) \in 0..Len(t)
             /\ Len(t) \in Nat /\ N(t) \subseteq 1..Len(t)
  <2>1. Len(t) \in Nat /\ N(t) \subseteq 1..Len(t)
    <3>1. Len(t) \in Nat /\ DOMAIN t = 1..Len(t)
      BY LenProperties
    <3>2. ASSUME NEW n \in N(t) PROVE n \in 1..Len(t)
      <4>1. n \in DOMAIN t
        OBVIOUS
      <4> QED BY <3>1, <4>1
    <3> HIDE DEF N
    <3> QED BY <3>1, <3>2
  <2>2. IsFiniteSet(1..Len(t)) /\ Cardinality(1..Len(t)) = Len(t)
    <3>1. \A n \in Nat : IsFiniteSet(1..n) /\ Cardinality(1..n) = IF 1 > n THEN 0 ELSE n - 1 + 1
      BY FS_Interval
    <3>2. \A n \in Nat : (IF 1 > n THEN 0 ELSE n - 1 + 1) = n
      OBVIOUS
    <3> QED BY <2>1, <3>1, <3>2
  <2> HIDE DEF N
  <2>3. IsFiniteSet(N(t)) /\ Cardinality(N(t)) <= Len(t)
    BY <2>1, <2>2, FS_Subset
  <2>4. Cardinality(N(t)) \in Nat
    BY <2>3, FS_CardinalityType
  <2> QED BY <2>1, <2>3, <2>4
<1>3. ASSUME NEW t \in Seq(Chars), NEW c \in Chars
      PROVE  Newlines(Append(t, c)) = IF c = "NL" THEN Newlines(t) + 1 ELSE Newlines(t)
  <2> DEFINE n == Len(t)
             u == Append(t, c)
  <2>1. /\ n \in Nat /\ DOMAIN t = 1..n /\ DOMAIN u = 1..(n + 1) /\ u[n + 1] = c
        /\ \A k \in 1..n : u[k] = t[k]
    OBVIOUS
  <2> HIDE DEF n, u
  <2>2. N(u) = IF c = "NL" THEN N(t) \union {n + 1} ELSE N(t)
    <3>1. \A k \in 1..(n + 1) : k \in 1..n \/ k = n + 1
      BY <2>1
    <3>2. n + 1 \in 1..(n + 1) /\ \A k \in 1..n : k \in 1..(n + 1) /\ k # n + 1
      BY <2>1
    <3>3. \A k : k \in N(u) <=> k \in N(t) \/ (c = "NL" /\ k = n + 1)
      BY <2>1, <3>1, <3>2
    <3> HIDE DEF N
    <3> QED BY <3>3
  <2>3. n + 1 \notin N(t) /\ IsFiniteSet(N(t))
    <3>1. n + 1 \notin 1..n
      BY <2>1
    <3> QED BY <1>2, <3>1 DEF n
  <2> HIDE DEF N
  <2>4. Cardinality(N(t) \union {n + 1}) = Cardinality(N(t)) + 1
    BY <2>3, FS_AddElement
  <2>5. Newlines(t) = Cardinality(N(t)) /\ Newlines(u) = Cardinality(N(u))
    BY DEF Newlines, N
  <2> QED BY <2>2, <2>4, <2>5 DEF u
<1>4. \A t \in Seq(Chars) : Newlines(t) \in 0..Len(t)
  BY <1>2 DEF Newlines
<1> QED BY <1>1, <1>3, <1>4

\* What a backspace finds behind a text within lines.
LEMMA WithinLinesLaws ==
  ASSUME NEW t \in Seq(Chars), NEW c \in Chars, WithinLines(Append(t, c))
  PROVE  /\ WithinLines(t)
         /\ c = "BS" => LET e == PassedOn("cat", t) IN e # << >> /\ e[Len(e)] # "NL"
<1> DEFINE u == Append(t, c)
           n == Len(t)
<1>1. /\ n \in Nat /\ DOMAIN t = 1..n /\ DOMAIN u = 1..(n + 1) /\ u[n + 1] = c
      /\ \A k \in 1..n : u[k] = t[k]
      /\ \A k \in 1..(n + 1) : SubSeq(u, 1, k - 1) = SubSeq(t, 1, k - 1)
      /\ SubSeq(t, 1, n) = t
  OBVIOUS
<1>2. \A k \in DOMAIN u : u[k] = "BS" =>
        LET e == PassedOn("cat", SubSeq(u, 1, k - 1)) IN e # << >> /\ e[Len(e)] # "NL"
  BY DEF WithinLines
<1> HIDE DEF u, n
<1>3. ASSUME NEW k \in DOMAIN t, t[k] = "BS"
      PROVE  LET e == PassedOn("cat", SubSeq(t, 1, k - 1)) IN e # << >> /\ e[Len(e)] # "NL"
  <2>1. k \in 1..n /\ k \in 1..(n + 1)
    BY <1>1
  <2>2. k \in DOMAIN u /\ u[k] = "BS" /\ SubSeq(u, 1, k - 1) = SubSeq(t, 1, k - 1)
    BY <1>1, <1>3, <2>1
  <2> QED BY <1>2, <2>2
<1>4. ASSUME c = "BS"
      PROVE  LET e == PassedOn("cat", t) IN e # << >> /\ e[Len(e)] # "NL"
  <2>1. n + 1 \in 1..(n + 1) /\ (n + 1) - 1 = n
    BY <1>1
  <2>2. n + 1 \in DOMAIN u /\ u[n + 1] = "BS" /\ SubSeq(u, 1, (n + 1) - 1) = t
    BY <1>1, <1>4, <2>1
  <2> QED BY <1>2, <2>2
<1> QED BY <1>3, <1>4 DEF WithinLines

-----------------------------------------------------------------------------
(* The steps of Filters.                                                   *)

LEMMA FiltersBegun == ASSUME FiltersAssumption, FiltersInit PROVE FiltersInv
<1>1. /\ command \in {"cat", "filter", "wc"} /\ buffer = [p \in Places |-> "0"]
      /\ i = 0 /\ j = 0 /\ line = 0 /\ at = "loop" /\ text = << >> /\ out = << >>
  BY DEF FiltersInit
<1>2. buffer \in Buffers /\ \A p \in 0..SIZE : buffer[p] = "0"
  <2>1. \A p \in 0..SIZE : p \in Places
    BY DEF Places, FiltersAssumption
  <2> QED BY <1>1, <2>1 DEF Buffers
<1>3. << >> \in Seq(Chars) /\ Len(<< >>) = 0 /\ SubSeq(<< >>, 1, 0) = << >>
  OBVIOUS
<1>4. Lies(<< >>, buffer, i, j, line, out)
  BY <1>1, <1>2, <1>3 DEF Lies
<1>5. \A com : PassedOn(com, << >>) = << >>
  BY PassedOnLaws
<1>6. Newlines(<< >>) = 0
  BY NewlinesLaws
<1>7. Conveys
  BY <1>1, <1>3, <1>4, <1>5, <1>6 DEF Conveys
<1> QED BY <1>1, <1>2, <1>3, <1>7 DEF FiltersInv, PassesTextOn

\* The text with one character more.
LEMMA OneMore ==
  ASSUME FiltersInv, NEW c \in Chars, Read(c)
  PROVE  /\ text \in Seq(Chars) /\ text' = Append(text, c) /\ text' \in Seq(Chars)
         /\ Len(text) \in Nat /\ Len(text') = Len(text) + 1
         /\ at = "loop" /\ i \in Int /\ i >= 0 /\ i <= Len(text)
         /\ buffer \in Buffers /\ command \in {"cat", "filter", "wc"}
BY DEF FiltersInv, Read

\* A full buffer takes more characters than it holds.
LEMMA OverflowKeeps ==
  ASSUME FiltersAssumption, FiltersInv, NEW c \in Chars, Overflow(c)
  PROVE  FiltersInv'
<1>1. /\ text' = Append(text, c) /\ text' \in Seq(Chars)
      /\ Len(text) \in Nat /\ Len(text') = Len(text) + 1
      /\ i \in Int /\ i >= 0 /\ i <= Len(text)
      /\ buffer \in Buffers /\ command \in {"cat", "filter", "wc"}
  BY OneMore DEF Overflow
<1>2. i >= SIZE /\ at' = c /\ i' = i /\ buffer' = buffer /\ command' = command
  BY DEF Overflow
<1>3. ~(Len(text') < SIZE)
  BY <1>1, <1>2 DEF FiltersAssumption
<1>4. i' \in Int /\ i' >= 0 /\ i' <= Len(text')
  BY <1>1, <1>2
<1> QED BY <1>1, <1>2, <1>3, <1>4 DEF FiltersInv

\* A step of a loop keeps the invariant if it keeps what the loop has passed on.
LEMMA LoopKeeps ==
  ASSUME FiltersAssumption, FiltersInv, NEW c \in Chars, Read(c),
         command' = command, buffer' \in Buffers, i' \in Int, i' <= i + 1,
         at' = "outside" \/ (at' = "loop" /\ i' >= 0),
         Conveys /\ at' = "loop" => Conveys'
  PROVE  FiltersInv'
<1>1. /\ text' \in Seq(Chars) /\ Len(text) \in Nat /\ Len(text') = Len(text) + 1
      /\ at = "loop" /\ i \in Int /\ i <= Len(text) /\ command \in {"cat", "filter", "wc"}
  BY OneMore
<1>2. at' = "loop" => i' >= 0
  OBVIOUS
<1>3. i' <= Len(text')
  BY <1>1
<1>4. Len(text') < SIZE => Len(text) < SIZE
  BY <1>1 DEF FiltersAssumption
<1>5. Len(text) < SIZE => Conveys
  BY <1>1 DEF FiltersInv
<1>6. Len(text') < SIZE => (at' \in {"loop", "EOF"} => Conveys')
  BY <1>4, <1>5
<1>7. PassesTextOn'
  BY DEF PassesTextOn
<1> QED BY <1>1, <1>2, <1>3, <1>6, <1>7 DEF FiltersInv

\* cat.
LEMMA CatKeeps ==
  ASSUME FiltersAssumption, FiltersInv, NEW c \in Chars, cat(c)
  PROVE  FiltersInv'
<1> DEFINE e == PassedOn("cat", text)
           f == PassedOn("cat", text')
<1>1. /\ command = "cat" /\ command' = command /\ i < SIZE /\ Read(c)
      /\ buffer' = IF c = "BS" THEN Put(Put(buffer, i, "0"), i - 1, "0") ELSE Put(buffer, i, c)
      /\ i' = IF c = "BS" THEN i - 1 ELSE i + 1
      /\ c = "NL" => /\ out' = out \o write(buffer', line, j + 1)
                     /\ j' = 0 /\ line' = i'
      /\ c # "NL" => j' = j + 1 /\ out' = out /\ line' = line
      /\ at' = IF i' < 0 THEN "outside" ELSE at
  BY DEF cat
<1>2. /\ text \in Seq(Chars) /\ text' = Append(text, c) /\ text' \in Seq(Chars)
      /\ Len(text) \in Nat /\ Len(text') = Len(text) + 1
      /\ at = "loop" /\ i \in Int /\ i >= 0 /\ i <= Len(text) /\ buffer \in Buffers
  BY <1>1, OneMore
<1>3. SIZE \in Nat /\ i \in Places /\ i - 1 \in Places
  BY <1>1, <1>2 DEF FiltersAssumption, Places
<1>4. buffer' \in Buffers
  <2>1. Put(buffer, i, "0") \in Buffers /\ Put(buffer, i, c) \in Buffers
    BY <1>2, <1>3, PutLaws
  <2>2. Put(Put(buffer, i, "0"), i - 1, "0") \in Buffers
    BY <1>3, <2>1, PutLaws
  <2> QED BY <1>1, <2>1, <2>2
<1>5. i' \in Int /\ i' <= i + 1 /\ (at' = "outside" \/ (at' = "loop" /\ i' >= 0))
  BY <1>1, <1>2
<1>6. f = Passed("cat", e, c) /\ e \in Seq(Chars)
  BY <1>2, PassedOnLaws
<1>7. ASSUME Conveys, at' = "loop" PROVE Conveys'
  <2>1. i' \in 0..Len(text')
    BY <1>1, <1>2, <1>5, <1>7
  <2>2. ASSUME WithinLines(text')
        PROVE  Lies(f, buffer', i', j', line', out') /\ (line' = 0 \/ f[line'] = "NL")
    <3>1. WithinLines(text) /\ (c = "BS" => e # << >> /\ e[Len(e)] # "NL")
      BY <1>2, <2>2, WithinLinesLaws
    <3>2. Lies(e, buffer, i, j, line, out) /\ (line = 0 \/ e[line] = "NL")
      BY <1>1, <1>7, <3>1 DEF Conveys
    <3>3. i = Len(e) /\ i \in Nat /\ line \in 0..i
      BY <3>2 DEF Lies
    <3>4. CASE c = "BS"
      <4>1. f = Front(e)
        BY <1>6, <3>1, <3>4 DEF Passed
      <4>2. line < i
        BY <1>6, <3>1, <3>2, <3>3, <3>4
      <4>3. Lies(f, buffer', i', j', line', out')
        BY <1>1, <1>2, <3>2, <3>4, <4>1, <4>2, TakesBack
      <4>4. line # 0 => f[line] = e[line]
        BY <1>6, <3>3, <4>1, <4>2 DEF Front
      <4> QED BY <1>1, <3>2, <3>4, <4>3, <4>4
    <3>5. CASE c = "NL"
      <4>1. f = Append(e, c) /\ buffer' = Put(buffer, i, c) /\ i' = i + 1 /\ j' = 0 /\ line' = i + 1
            /\ out' = out \o write(Put(buffer, i, c), line, j + 1)
        BY <1>1, <1>6, <3>5 DEF Passed
      <4>2. Lies(f, buffer', i', j', line', out')
        BY <1>1, <1>2, <3>2, <4>1, LineEnds
      <4>3. f[i + 1] = c
        BY <1>6, <3>3, <4>1
      <4> QED BY <3>5, <4>1, <4>2, <4>3
    <3>6. CASE c # "BS" /\ c # "NL"
      <4>1. f = Append(e, c) /\ buffer' = Put(buffer, i, c) /\ i' = i + 1 /\ j' = j + 1
            /\ line' = line /\ out' = out
        BY <1>1, <1>6, <3>6 DEF Passed
      <4>2. Lies(f, buffer', i', j', line', out')
        BY <1>1, <1>2, <3>2, <4>1, Grows
      <4>3. line # 0 => f[line] = e[line]
        BY <1>6, <3>3, <4>1
      <4> QED BY <3>2, <4>1, <4>2, <4>3
    <3> QED BY <3>4, <3>5, <3>6
  <2> QED BY <1>1, <2>1, <2>2 DEF Conveys
<1> QED BY <1>1, <1>4, <1>5, <1>7, LoopKeeps

\* filter.
LEMMA FilterKeeps ==
  ASSUME FiltersAssumption, FiltersInv, NEW c \in Chars, filter(c)
  PROVE  FiltersInv'
<1> DEFINE e == PassedOn("filter", text)
           f == PassedOn("filter", text')
           kept == ~isVocal(c) /\ c # "BS"
<1>1. /\ command = "filter" /\ command' = command /\ i < SIZE /\ Read(c)
      /\ kept => buffer' = Put(buffer, i, c) /\ i' = i + 1
      /\ c = "BS" /\ ~kept => buffer' = Put(buffer, i, "0") /\ i' = i
      /\ c # "BS" /\ ~kept => buffer' = buffer /\ i' = i
      /\ c = "NL" => /\ out' = out \o write(buffer', line, j + 1)
                     /\ j' = 0 /\ line' = i'
      /\ c # "NL" => /\ j' = (IF isVocal(c) THEN j ELSE j + 1)
                     /\ out' = out /\ line' = line
      /\ at' \in {at, "outside"}
  BY DEF filter
<1>2. /\ text \in Seq(Chars) /\ text' = Append(text, c) /\ text' \in Seq(Chars)
      /\ Len(text) \in Nat /\ Len(text') = Len(text) + 1
      /\ at = "loop" /\ i \in Int /\ i >= 0 /\ i <= Len(text) /\ buffer \in Buffers
  BY <1>1, OneMore
<1>3. SIZE \in Nat /\ i \in Places
  BY <1>1, <1>2 DEF FiltersAssumption, Places
<1>4. ~isVocal("BS") /\ ~isVocal("NL")
  BY DEF isVocal, FiltersAssumption
<1>5. buffer' \in Buffers
  <2>1. Put(buffer, i, "0") \in Buffers /\ Put(buffer, i, c) \in Buffers
    BY <1>2, <1>3, PutLaws
  <2> HIDE DEF kept
  <2> QED BY <1>1, <1>2, <2>1
<1>6. i' \in {i, i + 1}
  <2> HIDE DEF kept
  <2> QED BY <1>1
<1>7. i' \in Int /\ i' <= i + 1 /\ (at' = "outside" \/ (at' = "loop" /\ i' >= 0))
  BY <1>1, <1>2, <1>6
<1>8. f = Passed("filter", e, c) /\ e \in Seq(Chars)
  BY <1>2, PassedOnLaws
<1>9. ASSUME Conveys PROVE Conveys'
  <2>1. i' \in 0..Len(text')
    BY <1>2, <1>6
  <2>2. Lies(e, buffer, i, j, line, out)
    BY <1>1, <1>9 DEF Conveys
  <2>3. Lies(f, buffer', i', j', line', out')
    <3>1. CASE c = "NL"
      <4>1. kept
        BY <1>4, <3>1
      <4>2. f = Append(e, c)
        BY <1>8, <3>1, <4>1 DEF Passed
      <4> HIDE DEF f, e, kept
      <4>3. /\ buffer' = Put(buffer, i, c) /\ i' = i + 1 /\ j' = 0 /\ line' = i + 1
            /\ out' = out \o write(Put(buffer, i, c), line, j + 1)
        BY <1>1, <3>1, <4>1
      <4> QED BY <1>1, <1>2, <2>2, <4>2, <4>3, LineEnds
    <3>2. CASE kept /\ c # "NL"
      <4>1. f = Append(e, c) /\ buffer' = Put(buffer, i, c) /\ i' = i + 1 /\ j' = j + 1
            /\ line' = line /\ out' = out
        BY <1>1, <1>8, <3>2 DEF Passed
      <4> QED BY <1>1, <1>2, <2>2, <4>1, Grows
    <3>3. CASE c = "BS"
      <4>1. f = e /\ buffer' = Put(buffer, i, "0") /\ i' = i /\ j' = j + 1
            /\ line' = line /\ out' = out
        BY <1>1, <1>4, <1>8, <3>3 DEF Passed
      <4> QED BY <1>1, <1>2, <2>2, <4>1, TakenOut
    <3>4. CASE isVocal(c)
      <4>1. f = e /\ buffer' = buffer /\ i' = i /\ j' = j /\ line' = line /\ out' = out
        BY <1>1, <1>4, <1>8, <3>4 DEF Passed
      <4> QED BY <2>2, <4>1
    <3> QED BY <3>1, <3>2, <3>3, <3>4
  <2> QED BY <1>1, <2>1, <2>3 DEF Conveys
<1> QED BY <1>1, <1>5, <1>7, <1>9, LoopKeeps

\* wc.
LEMMA WcKeeps ==
  ASSUME FiltersAssumption, FiltersInv, NEW c \in Chars, wc(c)
  PROVE  FiltersInv'
<1>1. /\ command = "wc" /\ command' = command /\ Read(c)
      /\ i' = (IF c = "NL" THEN i + 1 ELSE i)
      /\ buffer' = buffer /\ at' = at /\ out' = out
  BY DEF wc
<1>2. /\ text \in Seq(Chars) /\ text' = Append(text, c)
      /\ Len(text) \in Nat /\ Len(text') = Len(text) + 1
      /\ at = "loop" /\ i \in Int /\ i >= 0 /\ i <= Len(text) /\ buffer \in Buffers
  BY <1>1, OneMore
<1>3. i' \in Int /\ i' <= i + 1 /\ at' = "loop" /\ i' >= 0
  BY <1>1, <1>2
<1>4. Newlines(text') = IF c = "NL" THEN Newlines(text) + 1 ELSE Newlines(text)
  BY <1>2, NewlinesLaws
<1>5. Conveys => Conveys'
  BY <1>1, <1>2, <1>3, <1>4 DEF Conveys
<1> QED BY <1>1, <1>2, <1>3, <1>5, LoopKeeps

LEMMA EofKeeps == ASSUME FiltersInv, Eof PROVE FiltersInv'
<1>1. /\ at = "loop" /\ at' = "EOF"
      /\ UNCHANGED <<command, buffer, i, j, line, text, out>>
  BY DEF Eof
<1>2. Conveys => Conveys'
  BY <1>1 DEF Conveys
<1>3. PassesTextOn'
  BY <1>1 DEF PassesTextOn
<1> QED BY <1>1, <1>2, <1>3 DEF FiltersInv

\* Behind the loop the rest is printed.
LEMMA FinishKeeps == ASSUME FiltersAssumption, FiltersInv, Finish PROVE FiltersInv'
<1>1. /\ at \notin {"loop", "outside", "exit"} /\ at' = "exit" /\ i' = i + 1
      /\ buffer' = Put(buffer, i, at)
      /\ command = "wc" => out' = <<i + 1>>
      /\ command # "wc" => out' = out \o write(buffer', line, j + 1)
      /\ command' = command /\ text' = text
  BY DEF Finish
<1>2. /\ text \in Seq(Chars) /\ command \in {"cat", "filter", "wc"} /\ buffer \in Buffers
      /\ at \in Chars \union {"EOF"} /\ i \in Int
  BY <1>1 DEF FiltersInv
<1>3. buffer' \in Buffers /\ i' \in Int
  <2>1. \A c \in Chars \union {"0", "EOF"} : Put(buffer, i, c) \in Buffers
    BY <1>2 DEF Put, Buffers
  <2>2. at \in Chars \union {"0", "EOF"}
    BY <1>2
  <2> QED BY <1>1, <1>2, <2>1, <2>2
<1>4. ASSUME Len(text) < SIZE PROVE PassesTextOn'
  <2>1. at = "EOF" /\ Conveys
    BY <1>1, <1>4 DEF FiltersInv
  <2>2. i \in 0..Len(text) /\ Len(text) \in Nat /\ SIZE \in Nat
    BY <1>2, <2>1 DEF Conveys, FiltersAssumption
  <2>3. i <= SIZE
    BY <1>4, <2>2
  <2>4. ASSUME command = "cat", WithinLines(text) PROVE out' = PassedOn("cat", text)
    <3>1. Lies(PassedOn("cat", text), buffer, i, j, line, out)
      BY <2>1, <2>4 DEF Conveys
    <3>2. out' = out \o write(Put(buffer, i, "EOF"), line, j + 1)
      BY <1>1, <2>1, <2>4
    <3>3. buffer \in Buffers
      BY <1>2
    <3> QED BY <2>3, <3>1, <3>2, <3>3, Ends
  <2>5. ASSUME command = "filter" PROVE out' = PassedOn("filter", text)
    <3>1. Lies(PassedOn("filter", text), buffer, i, j, line, out)
      BY <2>1, <2>5 DEF Conveys
    <3>2. out' = out \o write(Put(buffer, i, "EOF"), line, j + 1)
      BY <1>1, <2>1, <2>5
    <3>3. buffer \in Buffers
      BY <1>2
    <3> QED BY <2>3, <3>1, <3>2, <3>3, Ends
  <2>6. ASSUME command = "wc" PROVE out' = <<Newlines(text) + 1>>
    BY <1>1, <2>1, <2>6 DEF Conveys
  <2> QED BY <1>1, <1>2, <2>4, <2>5, <2>6 DEF PassesTextOn
<1> QED BY <1>1, <1>2, <1>3, <1>4 DEF FiltersInv

\* What cat, filter and wc print is the text as it was corrected, the text without
\* vocals and the number of lines (cat.c, filter.c, wc.c), for every text that is
\* shorter than the buffer: no line is cut short or printed beyond its end, although
\* the length that is given to write() also counts what was taken back.
THEOREM TextsArrive == ASSUME FiltersAssumption PROVE FiltersSpec => []PassesTextOn
<1>1. FiltersInit => FiltersInv
  BY FiltersBegun
<1>2. FiltersInv /\ [FiltersNext]_filterVars => FiltersInv'
  <2>1. SUFFICES ASSUME FiltersInv, [FiltersNext]_filterVars PROVE FiltersInv'
    OBVIOUS
  <2>2. CASE UNCHANGED filterVars
    BY <2>1, <2>2 DEF FiltersInv, filterVars, Conveys, PassesTextOn
  <2>3. ASSUME NEW c \in Vocals \union Others \union {"NL", "BS"},
               Overflow(c) \/ cat(c) \/ filter(c) \/ wc(c)
        PROVE  FiltersInv'
    <3>1. c \in Chars
      BY DEF Chars
    <3> QED BY <2>1, <2>3, <3>1, OverflowKeeps, CatKeeps, FilterKeeps, WcKeeps
  <2>4. CASE Eof
    BY <2>1, <2>4, EofKeeps
  <2>5. CASE Finish
    BY <2>1, <2>5, FinishKeeps
  <2> QED BY <2>1, <2>2, <2>3, <2>4, <2>5 DEF FiltersNext
<1>3. FiltersInv => PassesTextOn
  <2>1. FiltersInv /\ Len(text) < SIZE => PassesTextOn
    BY DEF FiltersInv
  <2>2. ~(Len(text) < SIZE) => PassesTextOn
    BY DEF PassesTextOn
  <2> QED BY <2>1, <2>2
<1> QED BY <1>1, <1>2, <1>3, PTL DEF FiltersSpec

-----------------------------------------------------------------------------
(* Numbers as text: powers and divisions.                                  *)

Positive == Nat \ {0}

\* The powers of b up to the k-th.
Powers(g, b, k) ==
  /\ g \in [0..k -> Positive] /\ g[0] = 1
  /\ \A l \in 1..k : g[l] = b * g[l - 1]

LEMMA Products ==
  /\ \A x, y \in Nat : x * y \in Nat
  /\ \A x, y \in Positive : x * y \in Positive
  /\ \A x \in Positive, y \in Nat : x * y >= y /\ y * x >= y
<1>1. ASSUME NEW x \in Nat, NEW y \in Nat PROVE x * y \in Nat
  OBVIOUS
<1>2. ASSUME NEW x \in Positive, NEW y \in Nat
      PROVE  x * y >= y /\ y * x >= y
  <2>1. x - 1 \in Nat /\ (x - 1) * y \in Nat
    BY <1>1 DEF Positive
  <2>2. x * y = (x - 1) * y + y /\ y * x = x * y
    BY DEF Positive
  <2> QED BY <2>1, <2>2
<1>3. ASSUME NEW x \in Positive, NEW y \in Positive PROVE x * y \in Positive
  <2>1. x * y >= y /\ x * y \in Nat /\ y > 0
    BY <1>1, <1>2 DEF Positive
  <2> QED BY <2>1 DEF Positive
<1> QED BY <1>1, <1>2, <1>3

LEMMA PowersExist ==
  ASSUME NEW b \in Positive, NEW k \in Nat
  PROVE  \E g : Powers(g, b, k) /\ Power(b, k) = g[k]
<1> DEFINE step == [l \in 1..k |-> [x \in Positive |-> b * x]]
           E(f, l) == IF l = 0 THEN 1 ELSE b * f[l - 1]
           p == CHOOSE f : f = [l \in 0..k |-> E(f, l)]
<1>1. Power(b, k) = p[k]
  BY Zenon DEF Power
<1>2. step \in [1..k -> [Positive -> Positive]]
  BY Products
<1>3. \A l \in 1..k : \A x \in Positive : step[l][x] = b * x
  OBVIOUS
<1> HIDE DEF step
<1>4. PICK g : Run(g, k, Positive, 1, step)
  <2>1. 1 \in Positive
    BY DEF Positive
  <2> QED BY <1>2, <2>1, RunExists
<1>5. /\ g \in [0..k -> Positive] /\ g[0] = 1
      /\ \A l \in 1..k : g[l] = step[l][g[l - 1]]
  BY <1>4 DEF Run
<1>6. ASSUME NEW l \in 1..k PROVE g[l] = b * g[l - 1]
  <2>1. l - 1 \in 0..k
    OBVIOUS
  <2>2. g[l - 1] \in Positive
    BY <1>5, <2>1
  <2> QED BY <1>3, <1>5, <2>2
<1>7. g = [l \in 0..k |-> E(g, l)]
  <2>1. \A l \in 0..k : l = 0 \/ (l \in 1..k /\ l # 0)
    OBVIOUS
  <2>2. \A l \in 0..k : g[l] = E(g, l)
    BY <1>5, <1>6, <2>1
  <2> HIDE DEF E
  <2> QED BY <1>5, <2>2
<1>8. p = [l \in 0..k |-> E(p, l)]
  BY <1>7
<1> HIDE DEF p
<1>9. \A l \in 0..k : p[l] = E(p, l)
  <2> HIDE DEF E
  <2> QED BY <1>8
<1>10. p[0] = 1 /\ \A l \in 1..k : p[l - 1] \in Positive => p[l] = step[l][p[l - 1]]
  <2>1. 0 \in 0..k /\ \A l \in 1..k : l \in 0..k /\ l # 0
    OBVIOUS
  <2> QED BY <1>3, <1>9, <2>1
<1>11. \A l \in 0..k : p[l] = g[l]
  BY <1>4, <1>10, SameRun
<1>12. k \in 0..k
  OBVIOUS
<1> QED BY <1>1, <1>5, <1>6, <1>11, <1>12 DEF Powers

LEMMA PowerLaws ==
  ASSUME NEW b \in Positive
  PROVE  /\ Power(b, 0) = 1
         /\ \A k \in Nat : Power(b, k) \in Positive /\ Power(b, k + 1) = b * Power(b, k)
<1>1. Power(b, 0) = 1
  BY PowersExist DEF Powers
<1>2. ASSUME NEW k \in Nat PROVE Power(b, k) \in Positive
  <2>1. k \in 0..k
    OBVIOUS
  <2> QED BY <2>1, PowersExist DEF Powers
<1>3. ASSUME NEW k \in Nat PROVE Power(b, k + 1) = b * Power(b, k)
  <2>1. PICK g : Powers(g, b, k) /\ Power(b, k) = g[k]
    BY PowersExist
  <2>2. PICK h : Powers(h, b, k + 1) /\ Power(b, k + 1) = h[k + 1]
    BY PowersExist
  <2> DEFINE T == {l \in 0..k : g[l] # h[l]}
  <2>3. T = {}
    <3> SUFFICES ASSUME T # {} PROVE FALSE
      OBVIOUS
    <3>1. PICK l \in T : \A x \in T : l <= x
      <4>1. T \subseteq Nat
        OBVIOUS
      <4> HIDE DEF T
      <4> QED BY <4>1, SmallestNumber
    <3>2. l \in 0..k /\ g[l] # h[l] /\ l # 0
      BY <2>1, <2>2, <3>1 DEF Powers
    <3>3. l \in 1..k /\ l \in 1..(k + 1) /\ l - 1 \in 0..k /\ l - 1 \notin T
      BY <3>1, <3>2
    <3>4. g[l - 1] = h[l - 1]
      BY <3>3
    <3> QED BY <2>1, <2>2, <3>2, <3>3, <3>4 DEF Powers
  <2>4. g[k] = h[k]
    <3>1. k \in 0..k
      OBVIOUS
    <3> QED BY <2>3, <3>1
  <2>5. h[k + 1] = b * h[(k + 1) - 1]
    <3>1. k + 1 \in 1..(k + 1)
      OBVIOUS
    <3> QED BY <2>2, <3>1 DEF Powers
  <2> QED BY <2>1, <2>2, <2>4, <2>5
<1> QED BY <1>1, <1>2, <1>3

\* Powers grow with the exponent and with the base.
LEMMA PowersGrow ==
  ASSUME NEW b \in Positive, NEW k \in Nat, NEW m \in Nat, k <= m
  PROVE  Power(b, k) <= Power(b, m)
<1> DEFINE T == {l \in Nat : k <= l /\ ~(Power(b, k) <= Power(b, l))}
<1> SUFFICES ASSUME T # {} PROVE FALSE
  OBVIOUS
<1>1. PICK l \in T : \A x \in T : l <= x
  <2>1. T \subseteq Nat
    OBVIOUS
  <2> HIDE DEF T
  <2> QED BY <2>1, SmallestNumber
<1>2. l \in Nat /\ k <= l /\ ~(Power(b, k) <= Power(b, l))
  BY <1>1
<1>3. Power(b, k) \in Nat /\ Power(b, l) \in Nat
  BY <1>2, PowerLaws DEF Positive
<1>4. l # k
  BY <1>2, <1>3
<1>5. l - 1 \in Nat /\ k <= l - 1 /\ l - 1 \notin T /\ (l - 1) + 1 = l
  BY <1>1, <1>2, <1>4
<1>6. Power(b, k) <= Power(b, l - 1)
  BY <1>5
<1>7. Power(b, l - 1) \in Nat /\ Power(b, l) = b * Power(b, l - 1)
  BY <1>5, PowerLaws DEF Positive
<1>8. b * Power(b, l - 1) >= Power(b, l - 1)
  BY <1>7, Products
<1> QED BY <1>2, <1>3, <1>6, <1>7, <1>8

LEMMA BinaryIsLongest ==
  ASSUME NEW b \in Nat, b >= 2, NEW k \in Nat
  PROVE  Power(2, k) <= Power(b, k)
<1> DEFINE T == {l \in Nat : ~(Power(2, l) <= Power(b, l))}
<1> SUFFICES ASSUME T # {} PROVE FALSE
  OBVIOUS
<1>1. PICK l \in T : \A x \in T : l <= x
  <2>1. T \subseteq Nat
    OBVIOUS
  <2> HIDE DEF T
  <2> QED BY <2>1, SmallestNumber
<1>2. l \in Nat /\ ~(Power(2, l) <= Power(b, l))
  BY <1>1
<1>3. 2 \in Positive /\ b \in Positive
  BY DEF Positive
<1>4. l # 0
  <2>1. Power(2, 0) = 1 /\ Power(b, 0) = 1
    BY <1>3, PowerLaws
  <2> QED BY <1>2, <2>1
<1>5. l - 1 \in Nat /\ l - 1 \notin T /\ (l - 1) + 1 = l
  BY <1>1, <1>2, <1>4
<1>6. Power(2, l - 1) <= Power(b, l - 1)
  BY <1>5
<1>7. /\ Power(2, l - 1) \in Nat /\ Power(2, l) = 2 * Power(2, l - 1)
      /\ Power(b, l - 1) \in Nat /\ Power(b, l) = b * Power(b, l - 1)
  BY <1>3, <1>5, PowerLaws DEF Positive
<1>8. \A x, y \in Nat : x <= y => 2 * x <= b * y
  <2> SUFFICES ASSUME NEW x \in Nat, NEW y \in Nat, x <= y PROVE 2 * x <= b * y
    OBVIOUS
  <2>1. b * y = 2 * y + (b - 2) * y /\ b - 2 \in Nat
    OBVIOUS
  <2>2. (b - 2) * y \in Nat
    BY <2>1, Products
  <2> QED BY <2>1, <2>2
<1> QED BY <1>2, <1>6, <1>7, <1>8

LEMMA Divides ==
  /\ \A n \in Nat : \A b \in Positive :
       n \div b \in Nat /\ n % b \in 0..(b - 1) /\ n = b * (n \div b) + (n % b)
  /\ \A q \in Nat : \A b \in Positive : \A r \in 0..(b - 1) : (b * q + r) % b = r
<1>1. \A a, c \in Nat : c > 0 => /\ a = (a \div c) * c + (a % c)
                                /\ a % c \in 0..(c - 1) /\ a \div c \in Nat
  OBVIOUS
<1>2. \A c \in Nat \ {0} : \A x \in Nat : \A y \in 0..(c - 1) : (c * x + y) % c = y
  OBVIOUS
<1>3. \A c \in Positive : c \in Nat /\ c > 0 /\ c \in Nat \ {0}
  BY DEF Positive
<1>4. \A x \in Nat : \A c \in Nat : x * c = c * x
  OBVIOUS
<1>5. ASSUME NEW n \in Nat, NEW b \in Positive
      PROVE  n \div b \in Nat /\ n % b \in 0..(b - 1) /\ n = b * (n \div b) + (n % b)
  <2> DEFINE q == n \div b
             r == n % b
  <2>1. b \in Nat /\ b > 0
    BY <1>3
  <2>2. n = q * b + r /\ r \in 0..(b - 1) /\ q \in Nat
    BY <1>1, <2>1
  <2> HIDE DEF q, r
  <2>3. q * b = b * q
    BY <1>4, <2>1, <2>2
  <2>4. n = b * q + r
    BY <2>2, <2>3
  <2> QED BY <2>2, <2>4, Zenon DEF q, r
<1> QED BY <1>2, <1>3, <1>5

\* What is left of a number after each division.
LEMMA DividedLaws ==
  ASSUME NEW n \in Nat, NEW b \in Positive, NEW max \in Nat
  PROVE  /\ Divided(n, b, max) \in [0..max -> 0..n]
         /\ Divided(n, b, max)[0] = n
         /\ \A k \in 1..max : Divided(n, b, max)[k] = Divided(n, b, max)[k - 1] \div b
<1> DEFINE V == 0..n
           step == [k \in 1..max |-> [x \in V |-> x \div b]]
           E(f, k) == IF k = 0 THEN n ELSE Quotient(f[k - 1], b)
           left == CHOOSE f : f = [k \in 0..max |-> E(f, k)]
<1>1. Divided(n, b, max) = left
  BY Zenon DEF Divided
<1>2. ASSUME NEW x \in V PROVE Quotient(x, b) = x \div b /\ x \div b \in V
  <2>1. x \in Nat /\ ~(x < 0) /\ b \in Positive
    OBVIOUS
  <2>2. x \div b \in Nat /\ x % b \in 0..(b - 1) /\ x = b * (x \div b) + (x % b)
    BY <2>1, Divides
  <2> DEFINE q == x \div b
             r == x % b
  <2> HIDE DEF q, r
  <2>3. q \in Nat /\ b * q >= q /\ r \in Nat /\ x = b * q + r
    BY <2>2, Products DEF q, r, Positive
  <2>4. q <= x
    <3>1. b * q \in Nat
      BY <2>3, Products DEF Positive
    <3> QED BY <2>1, <2>3, <3>1
  <2>5. q \in V
    BY <2>3, <2>4
  <2>6. Quotient(x, b) = x \div b
    BY <2>1, Zenon DEF Quotient
  <2> QED BY <2>5, <2>6 DEF q
<1>3. step \in [1..max -> [V -> V]] /\ \A k \in 1..max : \A x \in V : step[k][x] = Quotient(x, b)
  BY <1>2
<1> HIDE DEF step
<1>4. PICK g : Run(g, max, V, n, step)
  <2>1. n \in V
    OBVIOUS
  <2> HIDE DEF V
  <2> QED BY <1>3, <2>1, RunExists
<1>5. /\ g \in [0..max -> V] /\ g[0] = n
      /\ \A k \in 1..max : g[k] = step[k][g[k - 1]]
  BY <1>4 DEF Run
<1>6. ASSUME NEW k \in 1..max PROVE g[k] = Quotient(g[k - 1], b) /\ g[k - 1] \in V
  <2>1. k - 1 \in 0..max
    OBVIOUS
  <2>2. g[k - 1] \in V
    BY <1>5, <2>1
  <2> QED BY <1>3, <1>5, <2>2
<1>7. g = [k \in 0..max |-> E(g, k)]
  <2>1. \A k \in 0..max : k = 0 \/ (k \in 1..max /\ k # 0)
    OBVIOUS
  <2>2. \A k \in 0..max : g[k] = E(g, k)
    BY <1>5, <1>6, <2>1
  <2> HIDE DEF E
  <2> QED BY <1>5, <2>2
<1>8. left = [k \in 0..max |-> E(left, k)]
  BY <1>7
<1> HIDE DEF left
<1>9. \A k \in 0..max : left[k] = E(left, k)
  <2> HIDE DEF E
  <2> QED BY <1>8
<1>10. left[0] = n /\ \A k \in 1..max : left[k - 1] \in V => left[k] = step[k][left[k - 1]]
  <2>1. 0 \in 0..max /\ \A k \in 1..max : k \in 0..max /\ k # 0
    OBVIOUS
  <2> QED BY <1>3, <1>9, <2>1
<1>11. \A k \in 0..max : left[k] = g[k]
  <2> HIDE DEF V
  <2> QED BY <1>4, <1>10, SameRun
<1>12. left = g
  <2>1. left = [k \in 0..max |-> left[k]] /\ g = [k \in 0..max |-> g[k]]
    <3> HIDE DEF E
    <3> QED BY <1>5, <1>8
  <2> QED BY <1>11, <2>1
<1>13. \A k \in 1..max : g[k] = g[k - 1] \div b
  BY <1>2, <1>6
<1> QED BY <1>1, <1>5, <1>12, <1>13

\* The loop ends with c digits, low ones first.
LEMMA DigitsLaws ==
  ASSUME NEW n \in Nat, NEW b \in Positive, NEW max \in Nat
  PROVE  LET left == Divided(n, b, max)
         IN  \E c \in 0..max :
               /\ left[c] = 0 \/ c = max
               /\ Digits(n, b, max) = [k \in 1..c |-> Digit(left[k - 1] % b)]
<1> DEFINE left == Divided(n, b, max)
           C(k) == (left[k] = 0 \/ k = max) /\ \A l \in 0..(k - 1) : left[l] # 0
           c == CHOOSE k \in 0..max : C(k)
<1>1. left \in [0..max -> 0..n]
  BY DividedLaws
<1>2. Digits(n, b, max) = [k \in 1..c |-> Digit(Remainder(left[k - 1], b))]
  BY Zenon DEF Digits
<1> HIDE DEF left
<1>3. \E k \in 0..max : C(k)
  <2> DEFINE T == {k \in 0..max : left[k] = 0 \/ k = max}
  <2>1. T \subseteq Nat /\ max \in T
    OBVIOUS
  <2>2. PICK k \in T : \A l \in T : k <= l
    <3> HIDE DEF T
    <3> QED BY <2>1, SmallestNumber
  <2>3. ASSUME NEW l \in 0..(k - 1) PROVE left[l] # 0
    <3>1. l \in 0..max /\ ~(k <= l)
      BY <2>2
    <3> QED BY <2>2, <3>1
  <2> QED BY <2>2, <2>3
<1>4. c \in 0..max /\ (left[c] = 0 \/ c = max)
  <2>1. c \in 0..max /\ C(c)
    <3> HIDE DEF C
    <3> QED BY <1>3
  <2> QED BY <2>1
<1> HIDE DEF c
<1>5. ASSUME NEW k \in 1..c PROVE Remainder(left[k - 1], b) = left[k - 1] % b
  <2> DEFINE x == left[k - 1]
  <2>1. k - 1 \in 0..max
    BY <1>4
  <2>2. x \in Nat
    BY <1>1, <2>1
  <2> HIDE DEF x
  <2>3. ~(x < 0)
    BY <2>2
  <2>4. Remainder(x, b) = x - b * (x \div b)
    BY <2>3, Zenon DEF Remainder, Quotient
  <2> DEFINE q == x \div b
             r == x % b
  <2>5. q \in Nat /\ r \in 0..(b - 1) /\ x = b * q + r
    BY <2>2, Divides, Zenon
  <2> HIDE DEF q, r
  <2>6. b * q \in Nat /\ b \in Nat
    BY <2>5, Products DEF Positive
  <2>7. x - b * q = r
    BY <2>2, <2>5, <2>6
  <2> QED BY <2>4, <2>7 DEF x, q, r
<1>6. Digits(n, b, max) = [k \in 1..c |-> Digit(left[k - 1] % b)]
  BY <1>2, <1>5
<1> QED BY <1>4, <1>6 DEF left

\* The values u that the c low digits of a number add up to from the high end, given
\* what is left of it after each division.
AddUp(u, left, c, b, sum) ==
  /\ u[0] = 0
  /\ \A k \in 1..c : u[k] = u[k - 1] * b + (left[c - k] % b)
  /\ u[c] = sum

\* What they leave out is what was left of n in the end.
LEMMA DigitsAddUp ==
  ASSUME NEW n \in Nat, NEW b \in Positive, NEW max \in Nat,
         NEW c \in 0..max, Divided(n, b, max)[c] = 0 \/ c = max
  PROVE  \E u \in [0..c -> 0..n] :
           AddUp(u, Divided(n, b, max), c, b,
                 IF n < Power(b, max) THEN n ELSE n % Power(b, max))
<1> DEFINE left == Divided(n, b, max)
           P(k) == Power(b, k)
           u == [k \in 0..c |-> left[c - k] - left[c] * P(k)]
<1>1. /\ left \in [0..max -> 0..n] /\ left[0] = n
      /\ \A k \in 1..max : left[k] = left[k - 1] \div b
      /\ left[c] = 0 \/ c = max
  BY DividedLaws
<1>2. P(0) = 1 /\ \A k \in Nat : P(k) \in Positive /\ P(k + 1) = b * P(k)
  BY PowerLaws
<1>3. \A k \in 0..c : u[k] = left[c - k] - left[c] * P(k)
  OBVIOUS
<1>4. u = [k \in 0..c |-> u[k]]
  OBVIOUS
<1> HIDE DEF left, u, P
<1>5. \A k \in 0..c : c - k \in 0..max /\ left[c - k] \in 0..n
  BY <1>1
<1>6. left[c] \in 0..n /\ left[c] \in Nat /\ b \in Nat /\ b > 0
  BY <1>1 DEF Positive
<1>7. u[0] = 0
  <2>1. 0 \in 0..c /\ c - 0 = c
    OBVIOUS
  <2>2. left[c] * 1 = left[c]
    BY <1>6
  <2> QED BY <1>2, <1>3, <1>6, <2>1, <2>2
<1>8. ASSUME NEW k \in 1..c PROVE u[k] = u[k - 1] * b + (left[c - k] % b)
  <2> DEFINE K == left[c - k + 1]
             r == left[c - k] % b
             A == left[c]
             Q == P(k - 1)
  <2>1. /\ k \in 0..c /\ k - 1 \in 0..c /\ k - 1 \in Nat /\ (k - 1) + 1 = k
        /\ c - (k - 1) = c - k + 1 /\ c - k + 1 \in 1..max /\ (c - k + 1) - 1 = c - k
    OBVIOUS
  <2>2. left[c - k] \in Nat /\ K = left[c - k] \div b
    BY <1>1, <1>5, <2>1
  <2>3. K \in Nat /\ r \in Nat /\ left[c - k] = b * K + r
    <3> HIDE DEF K
    <3>1. /\ left[c - k] \div b \in Nat /\ left[c - k] % b \in 0..(b - 1)
          /\ left[c - k] = b * (left[c - k] \div b) + (left[c - k] % b)
      BY <2>2, Divides
    <3> QED BY <1>6, <2>2, <3>1
  <2>4. P(k) = b * Q /\ Q \in Nat
    <3>1. P((k - 1) + 1) = b * P(k - 1) /\ P(k - 1) \in Nat
      BY <1>2, <2>1 DEF Positive
    <3> QED BY <2>1, <3>1
  <2>5. u[k] = (b * K + r) - A * (b * Q) /\ u[k - 1] = K - A * Q
    BY <1>3, <2>1, <2>3, <2>4
  <2> HIDE DEF K, r, A, Q
  <2>6. A \in Nat
    BY <1>6 DEF A
  <2>8. (b * K + r) - A * (b * Q) = (K - A * Q) * b + r
    BY <1>6, <2>3, <2>4, <2>6
  <2> QED BY <2>5, <2>8 DEF r
<1>9. ASSUME NEW k \in 0..c PROVE u[k] \in 0..(P(k) - 1)
  <2> DEFINE T == {l \in 0..c : u[l] \notin 0..(P(l) - 1)}
  <2> SUFFICES ASSUME T # {} PROVE FALSE
    OBVIOUS
  <2>1. PICK l \in T : \A x \in T : l <= x
    <3>1. T \subseteq Nat
      OBVIOUS
    <3> HIDE DEF T
    <3> QED BY <3>1, SmallestNumber
  <2>2. l \in 0..c /\ u[l] \notin 0..(P(l) - 1)
    BY <2>1
  <2>3. l # 0
    BY <1>2, <1>7, <2>2
  <2>4. l \in 1..c /\ l - 1 \in 0..c /\ l - 1 \notin T /\ (l - 1) + 1 = l /\ l - 1 \in Nat
    BY <2>1, <2>2, <2>3
  <2> DEFINE w == u[l - 1]
             r == left[c - l] % b
             Q == P(l - 1)
  <2>5. w \in 0..(Q - 1)
    BY <2>4
  <2>6. u[l] = w * b + r
    BY <1>8, <2>4
  <2>7. r \in 0..(b - 1)
    <3>1. left[c - l] \in Nat
      BY <1>5, <2>2
    <3> QED BY <3>1, Divides
  <2>8. P(l) = b * Q /\ Q \in Nat /\ Q > 0
    <3>1. P((l - 1) + 1) = b * P(l - 1) /\ P(l - 1) \in Positive
      BY <1>2, <2>4
    <3> QED BY <2>4, <3>1 DEF Positive
  <2> HIDE DEF w, r, Q
  <2>9. w * b + r <= b * Q - 1 /\ w * b + r \in Nat
    <3>1. Q - 1 - w \in Nat /\ w \in Nat
      BY <2>5, <2>8
    <3>2. b * (Q - 1 - w) \in Nat /\ w * b \in Nat
      BY <1>6, <3>1, Products
    <3>3. b * Q = w * b + b + b * (Q - 1 - w)
      BY <1>6, <2>8, <3>1
    <3> QED BY <1>6, <2>7, <3>2, <3>3
  <2>10. b * Q \in Nat
    BY <1>6, <2>8, Products
  <2>11. u[l] \in 0..(P(l) - 1)
    BY <2>6, <2>8, <2>9, <2>10
  <2> QED BY <2>2, <2>11
<1>10. ASSUME NEW k \in 0..c PROVE u[k] \in 0..n
  <2>1. left[c] * P(k) \in Nat
    BY <1>2, <1>6, Products DEF Positive
  <2>2. u[k] \in Nat
    BY <1>2, <1>9 DEF Positive
  <2> QED BY <1>3, <1>5, <2>1, <2>2
<1>11. u \in [0..c -> 0..n]
  BY <1>4, <1>10
<1>12. u[c] = IF n < P(max) THEN n ELSE n % P(max)
  <2> DEFINE A == left[c]
             Q == P(c)
             v == u[c]
             M == P(max)
  <2>1. c \in 0..c /\ c - c = 0 /\ c \in Nat /\ c <= max
    OBVIOUS
  <2>2. v = n - A * Q /\ v \in 0..(Q - 1)
    BY <1>1, <1>3, <1>9, <2>1
  <2>3. Q \in Positive /\ Q <= M /\ M \in Nat
    <3>1. P(c) <= P(max)
      BY <2>1, PowersGrow DEF P
    <3> QED BY <1>2, <2>1, <3>1 DEF Positive
  <2>4. A \in Nat /\ (A = 0 \/ Q = M)
    BY <1>1, <1>6
  <2> HIDE DEF A, Q, v, M
  <2>5. A * Q \in Nat /\ (A # 0 => A * Q >= Q) /\ (A = 0 => A * Q = 0)
    BY <2>3, <2>4, Products DEF Positive
  <2>6. CASE n < M
    <3>1. A = 0
      BY <2>2, <2>3, <2>4, <2>5, <2>6 DEF Positive
    <3> QED BY <2>2, <2>5, <2>6, <3>1 DEF v, M
  <2>7. CASE ~(n < M)
    <3>1. A # 0
      BY <2>2, <2>3, <2>5, <2>7 DEF Positive
    <3>2. Q = M
      BY <2>4, <3>1
    <3>3. n = Q * A + v /\ (Q * A + v) % Q = v
      <4>1. n = A * Q + v /\ A * Q = Q * A
        BY <2>2, <2>3, <2>4, <2>5 DEF Positive
      <4>2. (Q * A + v) % Q = v
        BY <2>2, <2>3, <2>4, Divides
      <4> QED BY <4>1, <4>2
    <3>4. n % M = v
      BY <3>2, <3>3
    <3> QED BY <2>7, <3>4 DEF v, M
  <2> QED BY <2>6, <2>7
<1> DEFINE sum == IF n < P(max) THEN n ELSE n % P(max)
<1> HIDE DEF sum
<1>13. AddUp(u, left, c, b, sum)
  <2>1. u[c] = sum
    BY <1>12 DEF sum
  <2> QED BY <1>7, <1>8, <2>1, Zenon DEF AddUp
<1> QED BY <1>11, <1>13, Zenon DEF left, P, sum

-----------------------------------------------------------------------------
(* Numbers as text: what is written.                                       *)

LEMMA HalfLaws ==
  ASSUME NumbersAssumption
  PROVE  Half \in Positive /\ Power(2, Bits) = 2 * Half
<1>1. 2 \in Positive /\ Bits - 1 \in Nat /\ (Bits - 1) + 1 = Bits
  BY DEF Positive, NumbersAssumption
<1> QED BY <1>1, PowerLaws DEF Half

\* A number is cut to an int, which leaves an int as it is.
LEMMA WrapLaws ==
  ASSUME NumbersAssumption
  PROVE  /\ \A n \in Int : Wrap(n) \in Ints
         /\ \A n \in Ints : Wrap(n) = n
<1> DEFINE H == Half
<1>1. H \in Nat /\ H > 0
  BY HalfLaws DEF Positive
<1>2. \A n : Wrap(n) = IF n % (2 * H) >= H THEN (n % (2 * H)) - 2 * H ELSE n % (2 * H)
  BY Zenon DEF Wrap
<1>3. Ints = -H..(H - 1)
  BY Zenon DEF Ints
<1> HIDE DEF H
<1>4. ASSUME NEW n \in Int PROVE n % (2 * H) \in 0..(2 * H - 1)
  BY <1>1
<1>5. ASSUME NEW n \in 0..(H - 1) PROVE n % (2 * H) = n
  BY <1>1
<1>6. ASSUME NEW n \in -H..(-1) PROVE n % (2 * H) = n + 2 * H
  BY <1>1
<1>7. ASSUME NEW n \in Int PROVE Wrap(n) \in Ints
  <2> DEFINE m == n % (2 * H)
  <2>1. m \in 0..(2 * H - 1) /\ Wrap(n) = IF m >= H THEN m - 2 * H ELSE m
    BY <1>2, <1>4
  <2> HIDE DEF m
  <2> QED BY <1>1, <1>3, <2>1
<1>8. ASSUME NEW n \in Ints PROVE Wrap(n) = n
  <2> DEFINE m == n % (2 * H)
  <2>1. n \in 0..(H - 1) \/ n \in -H..(-1)
    BY <1>1, <1>3
  <2>2. (m = n /\ n \in 0..(H - 1)) \/ (m = n + 2 * H /\ n \in -H..(-1))
    <3>1. n \in 0..(H - 1) => m = n
      BY <1>5
    <3>2. n \in -H..(-1) => m = n + 2 * H
      BY <1>6
    <3> HIDE DEF m
    <3> QED BY <2>1, <3>1, <3>2, Zenon
  <2>3. Wrap(n) = IF m >= H THEN m - 2 * H ELSE m
    BY <1>2
  <2> HIDE DEF m
  <2> QED BY <1>1, <2>2, <2>3
<1> QED BY <1>7, <1>8

\* The string is turned round: the sign comes first, then the digits.
LEMMA TurnedRound ==
  ASSUME NEW s \in Seq(Nat), NEW x \in {0, 1}
  PROVE  LET t == Reverse(IF x = 1 THEN Append(s, 45) ELSE s)
         IN  /\ t \in Seq(Nat) /\ Len(t) = x + Len(s)
             /\ \A k \in 1..x : t[k] = 45
             /\ \A k \in 1..Len(s) : t[x + k] = s[Len(s) - k + 1]
<1> DEFINE r == IF x = 1 THEN Append(s, 45) ELSE s
           t == Reverse(r)
           c == Len(s)
<1>1. /\ r \in Seq(Nat) /\ Len(r) = x + c /\ c \in Nat /\ x \in Nat
      /\ \A k \in 1..c : r[k] = s[k]
      /\ x = 1 => r[c + 1] = 45
  OBVIOUS
<1>2. t = [k \in 1..Len(r) |-> r[Len(r) - k + 1]]
  BY DEF Reverse
<1> HIDE DEF r, t
<1>3. t = [k \in 1..(x + c) |-> r[(x + c) - k + 1]]
  BY <1>1, <1>2
<1>4. ASSUME NEW k \in 1..(x + c) PROVE r[(x + c) - k + 1] \in Nat
  <2>1. \A m \in Nat : \A l \in 1..m : m - l + 1 \in 1..m
    OBVIOUS
  <2>2. x + c \in Nat /\ Len(r) = x + c
    BY <1>1
  <2>3. (x + c) - k + 1 \in 1..Len(r)
    BY <2>1, <2>2
  <2>4. \A l \in 1..Len(r) : r[l] \in Nat
    <3>1. r \in Seq(Nat)
      BY <1>1
    <3> QED BY <3>1
  <2> QED BY <2>3, <2>4
<1>5. t \in [1..(x + c) -> Nat]
  BY <1>3, <1>4
<1>6. t \in Seq(Nat) /\ Len(t) = x + c
  <2>1. x + c \in Nat
    BY <1>1
  <2>2. \A m \in Nat : \A q \in [1..m -> Nat] : q \in Seq(Nat) /\ Len(q) = m
    OBVIOUS
  <2> QED BY <1>5, <2>1, <2>2
<1>7. ASSUME NEW k \in 1..x PROVE t[k] = 45
  <2>1. x = 1 /\ k = 1 /\ 1 \in 1..(x + c) /\ (x + c) - 1 + 1 = c + 1
    BY <1>1
  <2> QED BY <1>1, <1>3, <2>1
<1>8. ASSUME NEW k \in 1..c PROVE t[x + k] = s[c - k + 1]
  <2>1. x + k \in 1..(x + c) /\ (x + c) - (x + k) + 1 = c - k + 1 /\ c - k + 1 \in 1..c
    BY <1>1
  <2> QED BY <1>1, <1>3, <2>1
<1> QED BY <1>6, <1>7, <1>8 DEF t, r

\* t is x signs and c digits e, high ones first, which add up to u.
Spells(t, x, c, e, u, b, n) ==
  /\ x \in {0, 1} /\ c \in Positive /\ e \in [1..c -> 0..(b - 1)] /\ u \in [0..c -> 0..n]
  /\ u[0] = 0 /\ \A k \in 1..c : u[k] = u[k - 1] * b + e[k]
  /\ t \in Seq(Nat) /\ Len(t) = x + c
  /\ \A k \in 1..x : t[k] = 45
  /\ \A k \in 1..c : t[x + k] = Digit(e[k])

LEMMA Written ==
  ASSUME NumbersAssumption, NEW v \in Ints, v # Least, NEW b \in 2..32, NEW max \in Nat
  PROVE  LET n == IF v < 0 THEN -v ELSE v
             x == IF v < 0 /\ b = 10 THEN 1 ELSE 0
         IN  /\ n \in 0..(Half - 1)
             /\ \E c, e, u : /\ Spells(gtoa(v, b, max), x, c, e, u, b, n)
                             /\ u[c] = IF n < Power(b, max) THEN n ELSE n % Power(b, max)
<1> DEFINE n == IF v < 0 THEN -v ELSE v
           x == IF v < 0 /\ b = 10 THEN 1 ELSE 0
           digits == Digits(n, b, max)
           shown == IF digits = << >> THEN <<48>> ELSE digits
           left == Divided(n, b, max)
           total == IF n < Power(b, max) THEN n ELSE n % Power(b, max)
<1>1. Half \in Nat /\ Half > 0
  BY HalfLaws DEF Positive
<1>2. v \in -Half..(Half - 1) /\ v # -Half
  BY DEF Ints, Least
<1>3. n \in 0..(Half - 1) /\ n \in Nat /\ n \in Ints
  BY <1>1, <1>2 DEF Ints
<1>4. abs(v) = n
  <2>1. v < 0 => Wrap(-v) = -v
    BY <1>3, WrapLaws
  <2> QED BY <2>1, Zenon DEF abs
<1>5. gtoa(v, b, max) = Reverse(IF x = 1 THEN Append(shown, 45) ELSE shown)
  <2> DEFINE given(m) == IF Digits(m, b, max) = << >> THEN <<48>> ELSE Digits(m, b, max)
  <2>0. gtoa(v, b, max) =
          Reverse(IF v < 0 /\ b = 10 THEN Append(given(abs(v)), 45) ELSE given(abs(v)))
    BY Zenon DEF gtoa
  <2>1. gtoa(v, b, max) = Reverse(IF v < 0 /\ b = 10 THEN Append(shown, 45) ELSE shown)
    <3>1. shown = given(n)
      OBVIOUS
    <3> HIDE DEF shown, given, n
    <3> QED BY <1>4, <2>0, <3>1
  <2>2. x = 1 <=> v < 0 /\ b = 10
    OBVIOUS
  <2> HIDE DEF shown, x
  <2> QED BY <2>1, <2>2, Zenon
<1>6. x \in {0, 1}
  OBVIOUS
<1>7. b \in Positive /\ b \in Nat
  BY DEF Positive
<1> HIDE DEF n, x
<1>8. PICK c \in 0..max : /\ left[c] = 0 \/ c = max
                          /\ digits = [k \in 1..c |-> Digit(left[k - 1] % b)]
  BY <1>3, <1>7, DigitsLaws
<1>9. PICK u \in [0..c -> 0..n] : AddUp(u, left, c, b, total)
  <2>1. n \in Nat /\ b \in Positive /\ max \in Nat
    BY <1>3, <1>7
  <2>2. c \in 0..max /\ (Divided(n, b, max)[c] = 0 \/ c = max)
    BY <1>8
  <2> QED BY <2>1, <2>2, DigitsAddUp, Zenon
<1>10. left \in [0..max -> 0..n]
  BY <1>3, <1>7, DividedLaws
<1>11. \A r \in 0..(b - 1) : Digit(r) \in Nat
  BY DEF Digit
<1> HIDE DEF digits, shown, left, total
<1>12. ASSUME NEW k \in 0..max PROVE left[k] % b \in 0..(b - 1) /\ Digit(left[k] % b) \in Nat
  <2>1. left[k] \in Nat
    BY <1>3, <1>10
  <2> QED BY <1>7, <1>11, <2>1, Divides
<1>13. CASE c = 0
  <2> DEFINE e == [k \in 1..1 |-> 0]
             w == [k \in 0..1 |-> 0]
             zero == <<48>>
             t == Reverse(IF x = 1 THEN Append(zero, 45) ELSE zero)
  <2>1. shown = <<48>>
    <3>1. digits = << >>
      BY <1>8, <1>13
    <3> QED BY <3>1 DEF shown
  <2>2. total = 0
    BY <1>9, <1>13 DEF AddUp
  <2>3. e \in [1..1 -> 0..(b - 1)] /\ w \in [0..1 -> 0..n] /\ w[0] = 0 /\ w[1] = 0 /\ e[1] = 0
    BY <1>3
  <2>4. zero \in Seq(Nat) /\ Len(zero) = 1 /\ zero[1] = 48
    OBVIOUS
  <2> HIDE DEF e, w, zero
  <2>5. /\ t \in Seq(Nat) /\ Len(t) = x + 1
        /\ \A k \in 1..x : t[k] = 45
        /\ \A k \in 1..1 : t[x + k] = zero[1 - k + 1]
    <3>1. /\ t \in Seq(Nat) /\ Len(t) = x + Len(zero)
          /\ \A k \in 1..x : t[k] = 45
          /\ \A k \in 1..Len(zero) : t[x + k] = zero[Len(zero) - k + 1]
      BY <1>6, <2>4, TurnedRound
    <3> HIDE DEF t
    <3> QED BY <2>4, <3>1
  <2> HIDE DEF t
  <2>6. \A k \in 1..1 : k = 1 /\ k - 1 = 0 /\ 1 - k + 1 = 1
    OBVIOUS
  <2>7. \A k \in 1..1 : w[k] = w[k - 1] * b + e[k] /\ t[x + k] = Digit(e[k])
    <3>1. Digit(0) = 48 /\ 0 * b + 0 = 0
      BY <1>7 DEF Digit
    <3> QED BY <2>3, <2>4, <2>5, <2>6, <3>1
  <2>8. Spells(t, x, 1, e, w, b, n)
    BY <1>6, <2>3, <2>5, <2>7 DEF Spells, Positive
  <2>9. t = gtoa(v, b, max)
    BY <1>5, <2>1 DEF t, zero
  <2> QED BY <1>3, <2>2, <2>3, <2>8, <2>9 DEF total, n, x
<1>14. CASE c # 0
  <2> DEFINE e == [k \in 1..c |-> left[c - k] % b]
             t == gtoa(v, b, max)
  <2>1. c \in Positive /\ c \in Nat
    BY <1>14 DEF Positive
  <2>2. digits \in Seq(Nat) /\ Len(digits) = c /\ \A k \in 1..c : digits[k] = Digit(left[k - 1] % b)
    <3>1. \A k \in 1..c : k - 1 \in 0..max
      OBVIOUS
    <3>2. \A k \in 1..c : Digit(left[k - 1] % b) \in Nat
      BY <1>12, <3>1
    <3>3. digits \in [1..c -> Nat]
      BY <1>8, <3>2
    <3> QED BY <1>8, <2>1, <3>3
  <2>3. shown = digits
    <3>1. digits # << >>
      BY <1>14, <2>2
    <3> QED BY <3>1 DEF shown
  <2>4. /\ t \in Seq(Nat) /\ Len(t) = x + c
        /\ \A k \in 1..x : t[k] = 45
        /\ \A k \in 1..c : t[x + k] = digits[c - k + 1]
    <3> DEFINE z == Reverse(IF x = 1 THEN Append(digits, 45) ELSE digits)
    <3>1. /\ z \in Seq(Nat) /\ Len(z) = x + Len(digits)
          /\ \A k \in 1..x : z[k] = 45
          /\ \A k \in 1..Len(digits) : z[x + k] = digits[Len(digits) - k + 1]
      BY <1>6, <2>2, TurnedRound
    <3>2. t = z
      BY <1>5, <2>3
    <3> HIDE DEF t, z
    <3> QED BY <2>2, <3>1, <3>2
  <2> HIDE DEF t
  <2>5. \A k \in 1..c : c - k \in 0..max /\ c - k + 1 \in 1..c /\ (c - k + 1) - 1 = c - k
    OBVIOUS
  <2>6. e \in [1..c -> 0..(b - 1)] /\ \A k \in 1..c : e[k] = left[c - k] % b
    BY <1>12, <2>5
  <2> HIDE DEF e
  <2>7. ASSUME NEW k \in 1..c PROVE t[x + k] = Digit(e[k])
    <3>1. t[x + k] = digits[c - k + 1]
      BY <2>4
    <3>2. digits[c - k + 1] = Digit(left[(c - k + 1) - 1] % b)
      BY <2>2, <2>5
    <3>3. (c - k + 1) - 1 = c - k /\ e[k] = left[c - k] % b
      BY <2>5, <2>6
    <3> QED BY <3>1, <3>2, <3>3
  <2>8. \A k \in 1..c : u[k] = u[k - 1] * b + e[k]
    BY <1>9, <2>6 DEF AddUp
  <2>9. Spells(t, x, c, e, u, b, n)
    <3>1. u \in [0..c -> 0..n] /\ u[0] = 0
      BY <1>9 DEF AddUp
    <3> QED BY <1>6, <2>1, <2>4, <2>6, <2>7, <2>8, <3>1, Zenon DEF Spells
  <2> QED BY <1>3, <1>9, <2>9 DEF total, n, x, t, AddUp
<1> QED BY <1>13, <1>14

-----------------------------------------------------------------------------
(* Numbers as text: what is read.                                          *)

\* Two functions agree if they begin alike and go on alike.
LEMMA Agree ==
  ASSUME NEW m \in Nat, NEW f, NEW g, f[0] = g[0],
         \A k \in 1..m : f[k - 1] = g[k - 1] => f[k] = g[k]
  PROVE  \A k \in 0..m : f[k] = g[k]
<1> DEFINE T == {k \in 0..m : f[k] # g[k]}
<1> SUFFICES ASSUME T # {} PROVE FALSE
  OBVIOUS
<1>1. PICK k \in T : \A l \in T : k <= l
  <2>1. T \subseteq Nat
    OBVIOUS
  <2> HIDE DEF T
  <2> QED BY <2>1, SmallestNumber
<1>2. k \in 0..m /\ f[k] # g[k] /\ k # 0
  BY <1>1
<1>3. k \in 1..m /\ k - 1 \in 0..m /\ ~(k <= k - 1)
  BY <1>2
<1>4. k - 1 \notin T
  <2> HIDE DEF T
  <2> QED BY <1>1, <1>3
<1>5. f[k - 1] = g[k - 1]
  BY <1>3, <1>4
<1> QED BY <1>2, <1>3, <1>5

\* A digit is no sign and stands for its value.
LEMMA DigitStands ==
  \A r \in 0..31 : /\ Digit(r) \in Nat /\ Digit(r) \notin {0, 45}
                   /\ (IF Digit(r) >= 65 THEN Digit(r) - 55 ELSE Digit(r) - 48) = r
                   /\ r <= 9 => Digit(r) = r + 48 /\ isNumber(Digit(r))
BY DEF Digit, isNumber

LEMMA MeansTotal ==
  ASSUME NEW t, NEW x, NEW c, NEW e, NEW u, NEW b \in 2..32, NEW n \in Nat,
         Spells(t, x, c, e, u, b, n)
  PROVE  Meaning(t, b) = u[c]
<1> DEFINE m == Len(t)
           D(k) == IF t[k] >= 65 THEN t[k] - 55 ELSE t[k] - 48
           E(f, k) == IF k = 0 THEN 0
                      ELSE IF t[k] = 45 THEN f[k - 1] ELSE f[k - 1] * b + D(k)
           upTo == CHOOSE f : f = [k \in 0..m |-> E(f, k)]
           g == [k \in 0..m |-> IF k <= x THEN 0 ELSE u[k - x]]
<1>1. Meaning(t, b) = upTo[m]
  BY Zenon DEF Meaning
<1>2. /\ x \in {0, 1} /\ c \in Nat /\ c > 0 /\ e \in [1..c -> 0..(b - 1)] /\ u \in [0..c -> 0..n]
      /\ u[0] = 0 /\ \A k \in 1..c : u[k] = u[k - 1] * b + e[k]
      /\ m = x + c
      /\ \A k \in 1..x : t[k] = 45
      /\ \A k \in 1..c : t[x + k] = Digit(e[k])
  <2>1. c \in Nat /\ c > 0
    BY DEF Spells, Positive
  <2>2. m = x + c
    BY Zenon DEF Spells
  <2> QED BY <2>1, <2>2, Zenon DEF Spells
<1>0. x \in Nat /\ x <= 1 /\ c \in Nat /\ c > 0 /\ m \in Nat /\ m = x + c
  <2>1. x \in {0, 1} /\ c \in Nat /\ c > 0 /\ m = x + c
    BY <1>2, Zenon
  <2> HIDE DEF m
  <2> QED BY <2>1
<1>3. \A k \in 0..m : g[k] = IF k <= x THEN 0 ELSE u[k - x]
  OBVIOUS
<1>4. g = [k \in 0..m |-> g[k]]
  OBVIOUS
<1> HIDE DEF m, g
<1>5. ASSUME NEW k \in 1..m, k > x
      PROVE  t[k] # 45 /\ D(k) = e[k - x] /\ k - x \in 1..c
  <2>1. k - x \in 1..c /\ x + (k - x) = k
    BY <1>2, <1>5
  <2>2. t[k] = Digit(e[k - x]) /\ e[k - x] \in 0..31
    <3>1. t[x + (k - x)] = Digit(e[k - x]) /\ e[k - x] \in 0..(b - 1)
      BY <1>2, <2>1
    <3> QED BY <2>1, <3>1
  <2>3. D(k) = e[k - x]
    BY <2>2, DigitStands
  <2> QED BY <2>1, <2>2, <2>3, DigitStands
<1>6. ASSUME NEW k \in 0..m PROVE g[k] = E(g, k)
  <2>1. CASE k = 0
    <3>1. 0 <= x /\ 0 \in 0..m
      BY <1>0
    <3>2. g[0] = 0
      BY <1>3, <3>1
    <3> QED BY <2>1, <3>2
  <2>2. CASE k # 0 /\ k <= x
    <3>1. k = 1 /\ x = 1 /\ 0 \in 0..m /\ 0 <= x /\ k - 1 = 0 /\ k \in 1..x
      BY <1>0, <2>2
    <3>2. t[k] = 45
      BY <1>2, <3>1
    <3>3. g[k] = 0
      BY <1>3, <2>2
    <3>4. g[k - 1] = 0
      BY <1>3, <3>1
    <3> HIDE DEF D
    <3> QED BY <2>2, <3>2, <3>3, <3>4
  <2>3. CASE k # 0 /\ k > x
    <3>1. k \in 1..m /\ k - 1 \in 0..m /\ k - x \in 1..c /\ (k - x) - 1 = (k - 1) - x
      BY <1>2, <2>3
    <3>2. g[k - 1] = u[(k - x) - 1]
      <4>1. CASE k - 1 <= x
        <5>1. (k - x) - 1 = 0
          BY <1>2, <2>3, <4>1
        <5> QED BY <1>2, <1>3, <3>1, <4>1, <5>1
      <4>2. CASE ~(k - 1 <= x)
        BY <1>3, <3>1, <4>2
      <4> QED BY <4>1, <4>2
    <3>3. g[k] = u[k - x]
      BY <1>2, <1>3, <2>3
    <3>4. t[k] # 45 /\ D(k) = e[k - x]
      BY <1>5, <2>3, <3>1
    <3>5. u[k - x] = u[(k - x) - 1] * b + e[k - x]
      BY <1>2, <3>1
    <3> HIDE DEF D
    <3> QED BY <2>3, <3>2, <3>3, <3>4, <3>5
  <2>4. k <= x \/ k > x
    BY <1>2
  <2> QED BY <2>1, <2>2, <2>3, <2>4
<1>7. g = [k \in 0..m |-> E(g, k)]
  <2> HIDE DEF E
  <2> QED BY <1>4, <1>6
<1>8. upTo = [k \in 0..m |-> E(upTo, k)]
  <2> HIDE DEF E
  <2> QED BY <1>7
<1> HIDE DEF upTo
<1>9. \A k \in 0..m : upTo[k] = E(upTo, k)
  <2> HIDE DEF E
  <2> QED BY <1>8
<1>10. m \in Nat /\ 0 \in 0..m /\ m \in 0..m /\ \A k \in 1..m : k \in 0..m /\ k # 0
  BY <1>0
<1>11. upTo[m] = g[m]
  <2> HIDE DEF D
  <2>1. upTo[0] = g[0]
    BY <1>6, <1>9, <1>10
  <2>2. \A k \in 1..m : upTo[k - 1] = g[k - 1] => upTo[k] = g[k]
    BY <1>6, <1>9, <1>10
  <2> HIDE DEF E
  <2>3. \A k \in 0..m : upTo[k] = g[k]
    BY <1>10, <2>1, <2>2, Agree
  <2> QED BY <1>10, <2>3
<1>12. g[m] = u[c]
  <2>1. ~(m <= x) /\ m - x = c
    BY <1>0
  <2> QED BY <1>3, <1>10, <2>1
<1> QED BY <1>1, <1>11, <1>12

\* An argument is followed by a terminator.
Argument(s, t) ==
  /\ s \in Seq(Nat) /\ Len(s) > Len(t)
  /\ \A k \in 1..Len(t) : s[k] = t[k]
  /\ s[Len(t) + 1] = 0

\* The first loop of atoi looks at the sign and at all digits but the first, or at
\* all digits.
LEMMA SignsFound ==
  ASSUME NEW t, NEW x, NEW c, NEW e, NEW u, NEW b \in 2..32, NEW n \in Nat,
         Spells(t, x, c, e, u, b, n), NEW s, Argument(s, t)
  PROVE  Signs(s) = x
<1> DEFINE m == Len(s)
           F(p) == IF Over(s, p) THEN p ELSE IF s[p] = 45 THEN p + 2 ELSE p + 1
           E(f, k) == IF k = 0 THEN 1 ELSE F(f[k - 1])
           place == CHOOSE f : f = [k \in 0..m |-> E(f, k)]
           g == [k \in 0..m |-> IF k = 0 THEN 1 ELSE IF k <= c THEN k + 1 + x ELSE x + c + 1]
<1>1. LookedAt(s) = place
  BY Zenon DEF LookedAt
<1>2. /\ x \in {0, 1} /\ c \in Nat /\ c > 0 /\ m \in Nat /\ m >= x + c + 1
      /\ x = 1 => s[1] = 45
      /\ s[x + c + 1] = 0
      /\ \A k \in 1..c : s[x + k] \notin {0, 45}
  <2>1. /\ x \in {0, 1} /\ c \in Nat /\ c > 0 /\ e \in [1..c -> 0..(b - 1)]
        /\ Len(t) = x + c /\ \A k \in 1..x : t[k] = 45
    <3>1. c \in Nat /\ c > 0
      BY DEF Spells, Positive
    <3> QED BY <3>1, Zenon DEF Spells
  <2>2. /\ m \in Nat /\ m > x + c /\ s[(x + c) + 1] = 0
        /\ \A k \in 1..(x + c) : s[k] = t[k]
    BY <2>1 DEF Argument
  <2>3. \A l \in 1..c : t[x + l] = Digit(e[l])
    BY DEF Spells
  <2>4. ASSUME NEW k \in 1..c PROVE s[x + k] \notin {0, 45}
    <3>1. x + k \in 1..(x + c)
      BY <2>1
    <3>2. e[k] \in 0..(b - 1) /\ \A r \in 0..(b - 1) : r \in 0..31
      BY <2>1
    <3>3. s[x + k] = Digit(e[k])
      BY <2>2, <2>3, <3>1
    <3> QED BY <3>2, <3>3, DigitStands
  <2>5. x = 1 => s[1] = 45
    <3>1. x = 1 => t[1] = 45 /\ 1 \in 1..(x + c)
      BY <2>1
    <3> QED BY <2>2, <3>1
  <2> QED BY <2>1, <2>2, <2>4, <2>5
<1>3. \A k \in 0..m : g[k] = IF k = 0 THEN 1 ELSE IF k <= c THEN k + 1 + x ELSE x + c + 1
  OBVIOUS
<1>4. g = [k \in 0..m |-> g[k]]
  OBVIOUS
<1>5. \A p : Over(s, p) <=> p > m \/ s[p] = 0
  BY DEF Over
<1> HIDE DEF m, g
\* Behind the place 1 no sign is looked at.
<1>6. ASSUME NEW p \in 1..(x + c), p # 1 \/ x = 0 PROVE ~Over(s, p) /\ s[p] # 45
  <2>1. p - x \in 1..c /\ x + (p - x) = p /\ ~(p > m)
    BY <1>2, <1>6
  <2>2. s[p] \notin {0, 45}
    BY <1>2, <2>1
  <2> QED BY <1>5, <2>1, <2>2
<1>7. Over(s, x + c + 1)
  BY <1>2, <1>5
<1>8. x = 1 => ~Over(s, 1) /\ s[1] = 45
  BY <1>2, <1>5
<1>9. ASSUME NEW k \in 1..m PROVE g[k] = F(g[k - 1])
  <2>1. k \in 0..m /\ k - 1 \in 0..m /\ k # 0
    BY <1>2
  <2>2. g[k] = IF k <= c THEN k + 1 + x ELSE x + c + 1
    BY <1>3, <2>1
  <2>3. CASE k = 1
    <3>1. g[k - 1] = 1 /\ g[k] = 2 + x
      BY <1>2, <1>3, <2>1, <2>2, <2>3
    <3>2. x = 0 => F(1) = 2
      <4>1. x = 0 => ~Over(s, 1) /\ s[1] # 45
        BY <1>2, <1>6
      <4> QED BY <4>1
    <3>3. x = 1 => F(1) = 3
      BY <1>8
    <3> HIDE DEF F
    <3> QED BY <1>2, <3>1, <3>2, <3>3
  <2>4. CASE k # 1 /\ k - 1 <= c
    <3>1. g[k - 1] = k + x
      BY <1>2, <1>3, <2>1, <2>4
    <3>2. CASE k <= c
      <4>1. k + x \in 1..(x + c) /\ k + x # 1
        BY <1>2, <2>4, <3>2
      <4>2. F(k + x) = k + x + 1
        BY <1>6, <4>1
      <4> HIDE DEF F
      <4> QED BY <1>2, <2>2, <3>1, <3>2, <4>2
    <3>3. CASE ~(k <= c)
      <4>1. k + x = x + c + 1
        BY <1>2, <2>4, <3>3
      <4>2. F(x + c + 1) = x + c + 1
        BY <1>7
      <4> HIDE DEF F
      <4> QED BY <2>2, <3>1, <3>3, <4>1, <4>2
    <3> QED BY <3>2, <3>3
  <2>5. CASE k # 1 /\ ~(k - 1 <= c)
    <3>1. g[k - 1] = x + c + 1 /\ g[k] = x + c + 1
      BY <1>2, <1>3, <2>1, <2>2, <2>5
    <3>2. F(x + c + 1) = x + c + 1
      BY <1>7
    <3> HIDE DEF F
    <3> QED BY <3>1, <3>2
  <2> QED BY <2>3, <2>4, <2>5
<1>10. ASSUME NEW k \in 0..m PROVE g[k] = E(g, k)
  <2>1. CASE k = 0
    BY <1>3, <2>1
  <2>2. CASE k # 0
    <3>1. k \in 1..m
      BY <2>2
    <3> HIDE DEF F
    <3> QED BY <1>9, <2>2, <3>1
  <2> QED BY <2>1, <2>2
<1>11. g = [k \in 0..m |-> E(g, k)]
  <2> HIDE DEF E
  <2> QED BY <1>4, <1>10
<1>12. place = [k \in 0..m |-> E(place, k)]
  <2> HIDE DEF E
  <2> QED BY <1>11
<1> HIDE DEF place
<1>13. (\A k \in 0..m : place[k] = E(place, k)) /\ DOMAIN place = 0..m
  <2> HIDE DEF E
  <2> QED BY <1>12
<1>14. m \in Nat /\ 0 \in 0..m /\ \A k \in 1..m : k \in 0..m /\ k # 0
  BY <1>2
<1>15. \A k \in 0..m : place[k] = g[k]
  <2> HIDE DEF F
  <2>1. place[0] = g[0]
    BY <1>10, <1>13, <1>14
  <2>2. \A k \in 1..m : place[k - 1] = g[k - 1] => place[k] = g[k]
    BY <1>10, <1>13, <1>14
  <2> HIDE DEF E
  <2> QED BY <1>14, <2>1, <2>2, Agree
<1> DEFINE found == {k \in DOMAIN place : ~Over(s, place[k]) /\ s[place[k]] = 45}
<1>16. Signs(s) = Cardinality(found)
  BY <1>1, Zenon DEF Signs
<1>17. ASSUME NEW k \in 0..m, k # 0 \/ x = 0 PROVE Over(s, g[k]) \/ s[g[k]] # 45
  <2>1. g[k] = x + c + 1 \/ (g[k] \in 1..(x + c) /\ (g[k] # 1 \/ x = 0))
    BY <1>2, <1>3, <1>17
  <2> QED BY <1>6, <1>7, <2>1
<1>18. found = IF x = 0 THEN {} ELSE {0}
  <2>1. ASSUME NEW k \in found PROVE k = 0 /\ x = 1
    <3>1. k \in 0..m /\ ~Over(s, g[k]) /\ s[g[k]] = 45
      BY <1>13, <1>15
    <3> QED BY <1>2, <1>17, <3>1
  <2>2. x = 1 => 0 \in found
    <3>1. place[0] = 1
      BY <1>3, <1>14, <1>15
    <3> QED BY <1>8, <1>13, <1>14, <3>1
  <2> HIDE DEF found
  <2> QED BY <1>2, <2>1, <2>2
<1> HIDE DEF found
<1>19. Cardinality({}) = 0 /\ Cardinality({0}) = 1
  BY FS_EmptySet, FS_Singleton
<1> QED BY <1>2, <1>16, <1>18, <1>19

\* The first loop passes over what it should, the second reads all the digits and
\* stops at the terminator, and no step of the sum is cut.
LEMMA ReadsNumber ==
  ASSUME NumbersAssumption,
         NEW t, NEW x, NEW c, NEW e, NEW u, NEW n \in 0..(Half - 1),
         Spells(t, x, c, e, u, 10, n), NEW s, Argument(s, t)
  PROVE  atoi(s) = IF x = 0 THEN u[c] ELSE -u[c]
<1> DEFINE str == SubSeq(s, x + 1, Len(s))
           Q(l) == /\ l = Len(str) \/ ~isNumber(str[l + 1])
                   /\ \A k \in 1..l : isNumber(str[k])
           count == CHOOSE l \in 0..Len(str) : Q(l)
           E(f, k) == IF k = 0 THEN 0 ELSE Wrap(f[k - 1] * 10 + (str[k] - 48))
           val == CHOOSE f : f = [k \in 0..c |-> E(f, k)]
<1>1. x \in Nat /\ x <= 1 /\ c \in Nat /\ c > 0 /\ Half \in Nat /\ n \in Nat
  <2>1. c \in Nat /\ c > 0
    BY DEF Spells, Positive
  <2>3. x \in {0, 1}
    BY Zenon DEF Spells
  <2>2. Half \in Nat
    BY HalfLaws DEF Positive
  <2> QED BY <2>1, <2>2, <2>3
<1>2. /\ e \in [1..c -> 0..9] /\ u \in [0..c -> 0..n]
      /\ u[0] = 0 /\ \A k \in 1..c : u[k] = u[k - 1] * 10 + e[k]
      /\ \A k \in 1..c : t[x + k] = Digit(e[k])
      /\ Len(t) = x + c
  <2>1. e \in [1..c -> 0..9]
    <3>1. 10 - 1 = 9
      OBVIOUS
    <3>2. e \in [1..c -> 0..(10 - 1)]
      BY Zenon DEF Spells
    <3> QED BY <3>1, <3>2
  <2>2. u \in [0..c -> 0..n] /\ u[0] = 0 /\ Len(t) = x + c
    BY Zenon DEF Spells
  <2>3. \A k \in 1..c : u[k] = u[k - 1] * 10 + e[k]
    BY Zenon DEF Spells
  <2>4. \A k \in 1..c : t[x + k] = Digit(e[k])
    BY Zenon DEF Spells
  <2> QED BY <2>1, <2>2, <2>3, <2>4, Zenon
<1>3. /\ s \in Seq(Nat) /\ Len(s) \in Nat /\ Len(s) > x + c
      /\ \A k \in 1..(x + c) : s[k] = t[k]
      /\ s[(x + c) + 1] = 0
  BY <1>2 DEF Argument
<1>4. /\ Len(str) = Len(s) - x /\ Len(str) \in Nat /\ Len(str) > c
      /\ \A k \in 1..(Len(s) - x) : str[k] = s[x + k]
  <2>1. /\ x + 1 \in 1..(Len(s) + 1) /\ Len(s) \in ((x + 1) - 1)..Len(s)
        /\ Len(s) - (x + 1) + 1 = Len(s) - x /\ Len(s) - x \in Nat /\ Len(s) - x > c
    BY <1>1, <1>3
  <2>2. /\ Len(str) = IF x + 1 <= Len(s) THEN Len(s) - (x + 1) + 1 ELSE 0
        /\ \A k \in 1..(Len(s) - (x + 1) + 1) : str[k] = s[(x + 1) + k - 1]
    <3> DEFINE m == x + 1
               l == Len(s)
    <3>1. m \in Int /\ l \in Int
      BY <1>1, <1>3
    <3>2. \A k \in m..l : s[k] \in Nat
      <4>1. \A k \in m..l : k \in 1..Len(s)
        BY <1>1
      <4> QED BY <1>3, <4>1
    <3>3. str = SubSeq(s, m, l)
      BY DEF str
    <3> HIDE DEF m, l
    <3>4. /\ Len(SubSeq(s, m, l)) = IF m <= l THEN l - m + 1 ELSE 0
          /\ \A k \in 1..(l - m + 1) : SubSeq(s, m, l)[k] = s[m + k - 1]
      BY <3>1, <3>2, SubSeqProperties
    <3> HIDE DEF str
    <3> QED BY <3>3, <3>4 DEF m, l
  <2>3. \A k \in 1..(Len(s) - x) : (x + 1) + k - 1 = x + k
    BY <1>1, <1>3
  <2> HIDE DEF str
  <2> QED BY <2>1, <2>2, <2>3
<1> HIDE DEF str
<1>5. ASSUME NEW k \in 1..c PROVE str[k] = e[k] + 48 /\ isNumber(str[k])
  <2>1. k \in 1..(Len(s) - x) /\ x + k \in 1..(x + c)
    BY <1>1, <1>3
  <2>2. str[k] = Digit(e[k])
    BY <1>2, <1>3, <1>4, <2>1
  <2>3. e[k] \in 0..31 /\ e[k] <= 9
    <3>1. e[k] \in 0..9
      BY <1>2
    <3> QED BY <3>1
  <2> QED BY <2>2, <2>3, DigitStands
<1>6. str[c + 1] = 0 /\ ~isNumber(str[c + 1])
  <2>1. c + 1 \in 1..(Len(s) - x) /\ x + (c + 1) = (x + c) + 1
    BY <1>1, <1>3
  <2>2. str[c + 1] = 0
    BY <1>3, <1>4, <2>1
  <2> QED BY <2>2 DEF isNumber
<1>7. count = c
  <2>1. c \in 0..Len(str) /\ Q(c)
    BY <1>1, <1>4, <1>5, <1>6
  <2>2. ASSUME NEW l \in 0..Len(str), Q(l) PROVE l = c
    <3>1. ~(l < c)
      <4>1. l < c => l # Len(str) /\ l + 1 \in 1..c
        BY <1>1, <1>4
      <4> QED BY <1>5, <2>2, <4>1
    <3>2. ~(l > c)
      <4>1. l > c => c + 1 \in 1..l
        BY <1>1
      <4> QED BY <1>6, <2>2, <4>1
    <3> QED BY <1>1, <1>4, <3>1, <3>2
  <2> HIDE DEF Q
  <2> QED BY <2>1, <2>2
<1>8. atoi(s) = Wrap(Value(str, c) * (IF x % 2 = 0 THEN 1 ELSE -1))
  <2> DEFINE read(w) == SubSeq(s, w + 1, Len(s))
             last(w) == CHOOSE l \in 0..Len(read(w)) :
                 /\ l = Len(read(w)) \/ ~isNumber(read(w)[l + 1])
                 /\ \A k \in 1..l : isNumber(read(w)[k])
  <2>1. atoi(s) = Wrap(Value(read(Signs(s)), last(Signs(s)))
                         * (IF Signs(s) % 2 = 0 THEN 1 ELSE -1))
    BY Zenon DEF atoi
  <2>2. Signs(s) = x
    <3>1. 10 \in 2..32 /\ n \in Nat
      BY <1>1
    <3> QED BY <3>1, SignsFound
  <2>3. read(x) = str /\ last(x) = count
    BY DEF str
  <2> HIDE DEF read, last, count
  <2> QED BY <1>7, <2>1, <2>2, <2>3
<1>9. Value(str, c) = val[c]
  BY Zenon DEF Value
<1>10. u = [k \in 0..c |-> u[k]]
  BY <1>2
<1>11. ASSUME NEW k \in 0..c PROVE u[k] = E(u, k)
  <2>1. CASE k = 0
    BY <1>2, <2>1
  <2>2. CASE k # 0
    <3>1. k \in 1..c
      BY <2>2
    <3>2. u[k] = u[k - 1] * 10 + e[k]
      BY <1>2, <3>1
    <3>3. str[k] - 48 = e[k]
      <4>1. str[k] = e[k] + 48 /\ e[k] \in 0..9
        BY <1>2, <1>5, <3>1
      <4> QED BY <4>1
    <3>4. u[k] \in Ints
      <4>1. u[k] \in 0..n
        BY <1>2
      <4> QED BY <1>1, <4>1 DEF Ints
    <3>5. Wrap(u[k]) = u[k]
      BY <3>4, WrapLaws
    <3> QED BY <2>2, <3>2, <3>3, <3>5
  <2> QED BY <2>1, <2>2
<1>12. u = [k \in 0..c |-> E(u, k)]
  <2> HIDE DEF E
  <2> QED BY <1>10, <1>11
<1>13. val = [k \in 0..c |-> E(val, k)]
  <2> HIDE DEF E
  <2> QED BY <1>12
<1> HIDE DEF val
<1>14. \A k \in 0..c : val[k] = E(val, k)
  <2> HIDE DEF E
  <2> QED BY <1>13
<1>15. val[c] = u[c]
  <2>0. 0 \in 0..c /\ c \in 0..c /\ \A k \in 1..c : k \in 0..c /\ k # 0
    BY <1>1
  <2>1. val[0] = u[0]
    BY <1>11, <1>14, <2>0
  <2>2. \A k \in 1..c : val[k - 1] = u[k - 1] => val[k] = u[k]
    BY <1>11, <1>14, <2>0
  <2> HIDE DEF E
  <2>3. \A k \in 0..c : val[k] = u[k]
    BY <1>1, <2>1, <2>2, Agree
  <2> QED BY <2>0, <2>3
<1>16. u[c] \in Ints /\ -u[c] \in Ints /\ u[c] \in Nat
  <2>1. u[c] \in 0..n
    BY <1>1, <1>2
  <2> QED BY <1>1, <2>1 DEF Ints
<1>17. Wrap(u[c]) = u[c] /\ Wrap(-u[c]) = -u[c]
  BY <1>16, WrapLaws
<1>18. CASE x = 0
  <2>1. u[c] * (IF x % 2 = 0 THEN 1 ELSE -1) = u[c]
    BY <1>16, <1>18
  <2> QED BY <1>8, <1>9, <1>15, <1>17, <1>18, <2>1
<1>19. CASE x = 1
  <2>1. u[c] * (IF x % 2 = 0 THEN 1 ELSE -1) = -u[c]
    BY <1>16, <1>19
  <2> QED BY <1>8, <1>9, <1>15, <1>17, <1>19, <2>1
<1> QED BY <1>1, <1>18, <1>19

\* The inductive invariant: the text is that of the number.
NumbersTyped == value \in Ints /\ base \in Bases /\ length \in Limits /\ behind \in Junk

Shown == IF length = NoLength THEN itoa(value, base) ELSE gtoa(value, base, length)

NumbersInv ==
  /\ stage \in {"value", "text", "number"}
  /\ NumbersTyped
  /\ stage # "value" => numeral = Shown
  /\ ReadBack

Kept == IF Enough THEN Amount ELSE Amount % Power(base, length)

\* The text spells the amount, or what its low digits keep of it.
LEMMA ShownSpells ==
  ASSUME NumbersAssumption, NumbersTyped, value # Least
  PROVE  \E x, c, e, u : \E n \in 0..(Half - 1) :
           /\ Spells(Shown, x, c, e, u, base, n) /\ u[c] = Kept
           /\ x = IF value < 0 /\ base = 10 THEN 1 ELSE 0
<1> DEFINE max == IF length = NoLength THEN Bits ELSE length
           n == IF value < 0 THEN -value ELSE value
           x == IF value < 0 /\ base = 10 THEN 1 ELSE 0
<1>1. /\ base \in 2..32 /\ base \in Nat /\ base >= 2 /\ base \in Positive
      /\ Bits \in Nat /\ max \in Nat
  BY DEF NumbersTyped, NumbersAssumption, Positive
<1>2. value \in Ints
  BY DEF NumbersTyped
<1>3. Shown = gtoa(value, base, max)
  BY Zenon DEF Shown, itoa
<1> HIDE DEF max
<1>4. /\ n \in 0..(Half - 1)
      /\ \E c, e, u : /\ Spells(gtoa(value, base, max), x, c, e, u, base, n)
                      /\ u[c] = IF n < Power(base, max) THEN n ELSE n % Power(base, max)
  BY <1>1, <1>2, Written
<1>5. n = Amount
  BY Zenon DEF Amount
<1> HIDE DEF n, x
<1>6. PICK c, e, u : /\ Spells(gtoa(value, base, max), x, c, e, u, base, n)
                     /\ u[c] = IF n < Power(base, max) THEN n ELSE n % Power(base, max)
  BY <1>4
<1>7. Half \in Nat /\ Half > 0 /\ n \in Nat /\ n < Half
  <2>1. Half \in Nat /\ Half > 0
    BY HalfLaws DEF Positive
  <2> QED BY <1>4, <2>1
<1>8. Power(base, max) \in Nat
  BY <1>1, PowerLaws DEF Positive
<1>9. u[c] = Kept
  <2>1. CASE length = NoLength
    <3>1. Power(2, Bits) = 2 * Half /\ Power(2, Bits) <= Power(base, Bits)
      BY <1>1, HalfLaws, BinaryIsLongest
    <3>2. n < Power(base, max)
      <4>1. max = Bits
        BY <2>1 DEF max
      <4>2. 2 * Half <= Power(base, max)
        BY <3>1, <4>1
      <4> QED BY <1>7, <1>8, <4>2
    <3>3. Kept = n
      BY <1>5, <2>1 DEF Kept, Enough
    <3> QED BY <1>6, <3>2, <3>3
  <2>2. CASE length # NoLength
    <3>1. max = length
      BY <2>2 DEF max
    <3>2. Enough <=> n < Power(base, max)
      <4>1. Enough <=> Power(base, max) > n
        BY <1>5, <2>2, <3>1 DEF Enough
      <4> QED BY <1>7, <1>8, <4>1
    <3>3. Kept = IF n < Power(base, max) THEN n ELSE n % Power(base, max)
      BY <1>5, <3>1, <3>2, Zenon DEF Kept
    <3> QED BY <1>6, <3>3
  <2> QED BY <2>1, <2>2
<1>10. x = IF value < 0 /\ base = 10 THEN 1 ELSE 0
  BY DEF x
<1>11. Spells(Shown, x, c, e, u, base, n)
  BY <1>3, <1>6
<1> QED BY <1>4, <1>9, <1>10, <1>11

\* What numbers are printed as means what it should.
LEMMA ShownMeans ==
  ASSUME NumbersAssumption, NumbersTyped, value # Least
  PROVE  Meaning(Shown, base) = Kept
<1>1. PICK x, c, e, u : \E n \in 0..(Half - 1) :
        Spells(Shown, x, c, e, u, base, n) /\ u[c] = Kept
  BY ShownSpells
<1>2. PICK n \in 0..(Half - 1) : Spells(Shown, x, c, e, u, base, n) /\ u[c] = Kept
  BY <1>1
<1>3. base \in 2..32 /\ n \in Nat
  BY DEF NumbersTyped, NumbersAssumption
<1> QED BY <1>2, <1>3, MeansTotal

\* What is printed in decimal is read back.
LEMMA ShownIsRead ==
  ASSUME NumbersAssumption, NumbersTyped, value # Least, base = 10, Enough
  PROVE  atoi(Shown \o <<0>> \o behind) = value
<1> DEFINE s == Shown \o <<0>> \o behind
<1>1. PICK x, c, e, u : \E n \in 0..(Half - 1) :
        /\ Spells(Shown, x, c, e, u, base, n) /\ u[c] = Kept
        /\ x = IF value < 0 /\ base = 10 THEN 1 ELSE 0
  BY ShownSpells
<1>2. PICK n \in 0..(Half - 1) :
        /\ Spells(Shown, x, c, e, u, base, n) /\ u[c] = Kept
        /\ x = IF value < 0 /\ base = 10 THEN 1 ELSE 0
  BY <1>1
<1>3. Shown \in Seq(Nat)
  BY <1>2, Zenon DEF Spells
<1>4. behind \in Seq(Nat)
  <2>1. behind \in Seq(0..127)
    BY DEF NumbersTyped, NumbersAssumption
  <2>2. ASSUME NEW S, S \subseteq Nat, NEW q \in Seq(S) PROVE q \in Seq(Nat)
    <3>1. Len(q) \in Nat /\ q \in [1..Len(q) -> S]
      OBVIOUS
    <3>2. q \in [1..Len(q) -> Nat]
      BY <2>2, <3>1
    <3> QED BY <3>1, <3>2
  <2>3. 0..127 \subseteq Nat
    OBVIOUS
  <2> QED BY <2>1, <2>2, <2>3
<1> HIDE DEF Shown
<1>5. Argument(s, Shown)
  <2>1. <<0>> \in Seq(Nat) /\ Len(<<0>>) = 1 /\ <<0>>[1] = 0
    OBVIOUS
  <2>2. s \in Seq(Nat) /\ Len(s) = Len(Shown) + 1 + Len(behind)
    BY <1>3, <1>4, <2>1
  <2>3. Len(Shown) \in Nat /\ Len(behind) \in Nat
    BY <1>3, <1>4
  <2>4. \A k \in 1..Len(Shown) : s[k] = Shown[k]
    BY <1>3, <1>4, <2>1
  <2>5. s[Len(Shown) + 1] = 0
    BY <1>3, <1>4, <2>1
  <2> HIDE DEF s
  <2> QED BY <2>2, <2>3, <2>4, <2>5 DEF Argument
<1> HIDE DEF s
<1>6. atoi(s) = IF x = 0 THEN u[c] ELSE -u[c]
  <2>1. Spells(Shown, x, c, e, u, 10, n)
    BY <1>2
  <2> QED BY <1>5, <2>1, ReadsNumber
<1>7. value \in Int
  <2>1. Half \in Nat
    BY HalfLaws DEF Positive
  <2> QED BY <2>1 DEF NumbersTyped, Ints
<1>8. u[c] = Amount
  BY <1>2 DEF Kept
<1>9. CASE value < 0
  <2>1. x = 1 /\ u[c] = -value
    BY <1>2, <1>8, <1>9 DEF Amount
  <2> QED BY <1>6, <1>7, <2>1 DEF s
<1>10. CASE ~(value < 0)
  <2>1. x = 0 /\ u[c] = value
    BY <1>2, <1>8, <1>10 DEF Amount
  <2> QED BY <1>6, <1>7, <2>1 DEF s
<1> QED BY <1>9, <1>10

\* What itoa() and gtoa() of libc.c print in decimal, atoi() reads back, whatever lies
\* behind it in the line, and what they print in any base stands for the amount of the
\* number, or for its low digits if the length is too short: for ints of every width.
THEOREM NumbersReadBack ==
  ASSUME NumbersAssumption
  PROVE  NumbersSpec => []ReadBack
<1>1. NumbersInit => NumbersInv
  BY DEF NumbersInit, NumbersInv, NumbersTyped, ReadBack
<1>2. NumbersInv /\ [NumbersNext]_numberVars => NumbersInv'
  <2> SUFFICES ASSUME NumbersInv, [NumbersNext]_numberVars PROVE NumbersInv'
    OBVIOUS
  <2>1. NumbersTyped /\ ReadBack
    BY DEF NumbersInv
  <2>2. CASE toText
    <3>1. /\ stage' = "text" /\ numeral' = Shown
          /\ UNCHANGED <<value, base, length, behind, result>>
      BY <2>2, Zenon DEF toText, Shown
    <3>2. NumbersTyped' /\ Shown' = Shown /\ Kept' = Kept
      BY <2>1, <3>1, Zenon DEF NumbersTyped, Shown, Kept, Enough, Amount
    <3>3. ReadBack'
      <4>1. value # Least => Meaning(Shown, base) = Kept
        BY <2>1, ShownMeans
      <4>2. value # Least => Meaning(numeral', base') = Kept'
        BY <3>1, <3>2, <4>1
      <4> QED BY <3>1, <4>2 DEF ReadBack, Kept
    <3> QED BY <3>1, <3>2, <3>3 DEF NumbersInv
  <2>3. CASE toNumber
    <3>1. /\ stage = "text" /\ base = 10 /\ stage' = "number"
          /\ result' = atoi(numeral \o <<0>> \o behind)
          /\ UNCHANGED <<value, base, length, numeral, behind>>
      BY <2>3, Zenon DEF toNumber
    <3>2. numeral = Shown
      BY <3>1 DEF NumbersInv
    <3>3. NumbersTyped' /\ Shown' = Shown /\ (Enough' <=> Enough)
      BY <2>1, <3>1, Zenon DEF NumbersTyped, Shown, Enough, Amount
    <3>4. ReadBack'
      <4>1. value # Least /\ Enough => result' = value
        BY <2>1, <3>1, <3>2, ShownIsRead
      <4>2. value # Least => Meaning(numeral, base) = Kept
        BY <2>1, <3>1 DEF ReadBack, Kept
      <4> QED BY <3>1, <4>1, <4>2 DEF ReadBack, Kept, Enough, Amount, Least
    <3> QED BY <3>1, <3>2, <3>3, <3>4 DEF NumbersInv
  <2>4. CASE UNCHANGED numberVars
    BY <2>4, Zenon DEF numberVars, NumbersInv, NumbersTyped, Shown, ReadBack, Enough, Amount
  <2> QED BY <2>2, <2>3, <2>4 DEF NumbersNext
<1>3. NumbersInv => ReadBack
  BY DEF NumbersInv
<1> QED BY <1>1, <1>2, <1>3, PTL DEF NumbersSpec
-----------------------------------------------------------------------------
(* Command line: what is typed.                                            *)

LineKeys == Plain \union {"SP", "BAR", "AMP", "BS"}

LEMMA CorrectedSeq ==
  ASSUME NEW t \in Seq(LineKeys), NEW c \in LineKeys
  PROVE  Corrected(t, c) \in Seq(LineKeys)
<1>1. Append(t, c) \in Seq(LineKeys)
  OBVIOUS
<1>2. t # << >> => Front(t) \in Seq(LineKeys)
  BY DEF Front
<1> QED BY <1>1, <1>2 DEF Corrected

\* The function Line is defined with is a run over the characters of the text.
LEMMA LineRuns ==
  ASSUME NEW t \in Seq(LineKeys)
  PROVE  LET step == [k \in 1..Len(t) |-> [x \in Seq(LineKeys) |-> Corrected(x, t[k])]]
         IN  \E g : Run(g, Len(t), Seq(LineKeys), << >>, step) /\ Line(t) = g[Len(t)]
<1> DEFINE n == Len(t)
           step == [k \in 1..n |-> [x \in Seq(LineKeys) |-> Corrected(x, t[k])]]
           E(f, k) == IF k = 0 THEN << >> ELSE Corrected(f[k - 1], t[k])
           upTo == CHOOSE f : f = [k \in 0..n |-> E(f, k)]
<1> SUFFICES \E g : Run(g, n, Seq(LineKeys), << >>, step) /\ Line(t) = g[n]
  OBVIOUS
<1>1. n \in Nat /\ \A k \in 1..n : t[k] \in LineKeys
  OBVIOUS
<1>2. Line(t) = upTo[n]
  BY Zenon DEF Line
<1> HIDE DEF n
<1>3. \A k \in 1..n : \A x \in Seq(LineKeys) :
        Corrected(x, t[k]) \in Seq(LineKeys) /\ step[k][x] = Corrected(x, t[k])
  BY <1>1, CorrectedSeq
<1>4. step \in [1..n -> [Seq(LineKeys) -> Seq(LineKeys)]]
  BY <1>3
<1> HIDE DEF step
<1>5. PICK g : Run(g, n, Seq(LineKeys), << >>, step)
  <2>1. << >> \in Seq(LineKeys)
    OBVIOUS
  <2> QED BY <1>1, <1>4, <2>1, RunExists
<1>6. /\ g \in [0..n -> Seq(LineKeys)] /\ g[0] = << >>
      /\ \A k \in 1..n : g[k] = step[k][g[k - 1]]
  BY <1>5 DEF Run
<1>7. g = [k \in 0..n |-> E(g, k)]
  <2>1. \A k \in 0..n : g[k] = E(g, k)
    <3>1. ASSUME NEW k \in 1..n PROVE g[k] = Corrected(g[k - 1], t[k])
      <4>1. k - 1 \in 0..n
        BY <1>1
      <4>2. g[k - 1] \in Seq(LineKeys)
        BY <1>6, <4>1
      <4> QED BY <1>3, <1>6, <4>2
    <3>2. \A k \in 0..n : k = 0 \/ (k \in 1..n /\ k # 0)
      BY <1>1
    <3> QED BY <1>6, <3>1, <3>2
  <2> HIDE DEF E
  <2> QED BY <1>6, <2>1
<1>8. upTo = [k \in 0..n |-> E(upTo, k)]
  BY <1>7
<1> HIDE DEF upTo
<1>9. \A k \in 0..n : upTo[k] = E(upTo, k)
  <2> HIDE DEF E
  <2> QED BY <1>8
<1>10. upTo[0] = << >> /\ \A k \in 1..n : upTo[k] = Corrected(upTo[k - 1], t[k])
  <2>1. 0 \in 0..n /\ \A k \in 1..n : k \in 0..n /\ k # 0
    BY <1>1
  <2> QED BY <1>9, <2>1
<1>11. \A k \in 1..n : upTo[k - 1] \in Seq(LineKeys) => upTo[k] = step[k][upTo[k - 1]]
  BY <1>3, <1>10
<1>12. \A k \in 0..n : upTo[k] = g[k]
  BY <1>1, <1>5, <1>10, <1>11, SameRun
<1>13. n \in 0..n
  BY <1>1
<1> QED BY <1>2, <1>5, <1>12, <1>13

LEMMA LineLaws ==
  /\ Line(<< >>) = << >>
  /\ \A t \in Seq(LineKeys) : Line(t) \in Seq(LineKeys)
  /\ \A t \in Seq(LineKeys) : \A c \in LineKeys :
       Line(Append(t, c)) = Corrected(Line(t), c)
<1> DEFINE S == Seq(LineKeys)
           step(t) == [k \in 1..Len(t) |-> [x \in S |-> Corrected(x, t[k])]]
<1>1. ASSUME NEW t \in S
      PROVE  \E g : Run(g, Len(t), S, << >>, step(t)) /\ Line(t) = g[Len(t)]
  BY LineRuns
<1>2. ASSUME NEW t \in S PROVE Line(t) \in S
  <2>1. PICK g : Run(g, Len(t), S, << >>, step(t)) /\ Line(t) = g[Len(t)]
    BY <1>1
  <2>2. Len(t) \in 0..Len(t)
    OBVIOUS
  <2> QED BY <2>1, <2>2 DEF Run
<1>3. Line(<< >>) = << >>
  <2>1. << >> \in S /\ Len(<< >>) = 0
    OBVIOUS
  <2>2. PICK g : Run(g, 0, S, << >>, step(<< >>)) /\ Line(<< >>) = g[0]
    <3> HIDE DEF step, S
    <3> QED BY <1>1, <2>1
  <2> QED BY <2>2 DEF Run
<1>4. ASSUME NEW t \in S, NEW c \in LineKeys
      PROVE  Line(Append(t, c)) = Corrected(Line(t), c)
  <2> DEFINE u == Append(t, c)
             n == Len(t)
  <2>1. /\ u \in S /\ n \in Nat /\ Len(u) = n + 1 /\ u[n + 1] = c
        /\ \A k \in 1..n : u[k] = t[k]
    OBVIOUS
  <2> HIDE DEF u, n
  <2>2. PICK g : Run(g, n, S, << >>, step(t)) /\ Line(t) = g[n]
    BY <1>1 DEF n
  <2>3. PICK h : Run(h, n + 1, S, << >>, step(u)) /\ Line(u) = h[n + 1]
    BY <1>1, <2>1
  <2>4. /\ h \in [0..(n + 1) -> S] /\ h[0] = << >>
        /\ \A k \in 1..(n + 1) : h[k] = step(u)[k][h[k - 1]]
    BY <2>3 DEF Run
  <2>5. \A k \in 1..(n + 1) : h[k - 1] \in S
    <3>1. \A k \in 1..(n + 1) : k - 1 \in 0..(n + 1)
      BY <2>1
    <3> QED BY <2>4, <3>1
  <2>6. \A k \in 1..(n + 1) : h[k] = Corrected(h[k - 1], u[k])
    BY <2>1, <2>4, <2>5
  <2>7. \A k \in 1..n : h[k - 1] \in S => h[k] = step(t)[k][h[k - 1]]
    <3>1. \A k \in 1..n : k \in 1..(n + 1)
      BY <2>1
    <3>2. \A k \in 1..n : \A x \in S : step(t)[k][x] = Corrected(x, t[k])
      BY DEF n
    <3> HIDE DEF step
    <3>3. ASSUME NEW k \in 1..n, h[k - 1] \in S PROVE h[k] = step(t)[k][h[k - 1]]
      <4>1. h[k] = Corrected(h[k - 1], t[k])
        BY <2>1, <2>6, <3>1
      <4>2. step(t)[k][h[k - 1]] = Corrected(h[k - 1], t[k])
        BY <3>2, <3>3
      <4> QED BY <4>1, <4>2
    <3> QED BY <3>3
  <2>8. h[n] = g[n]
    <3>1. \A k \in 0..n : h[k] = g[k]
      <4> DEFINE s == step(t)
                 e == << >>
      <4>1. Run(g, n, S, e, s)
        BY <2>2
      <4>2. n \in Nat /\ h[0] = e
        BY <2>1, <2>4
      <4>3. \A k \in 1..n : h[k - 1] \in S => h[k] = s[k][h[k - 1]]
        BY <2>7
      <4> HIDE DEF s, S, e
      <4> QED BY <4>1, <4>2, <4>3, SameRun
    <3> QED BY <2>1, <3>1
  <2>9. h[n + 1] = Corrected(h[n], c)
    <3>1. n + 1 \in 1..(n + 1) /\ (n + 1) - 1 = n
      BY <2>1
    <3> QED BY <2>1, <2>6, <3>1
  <2> QED BY <2>2, <2>3, <2>8, <2>9 DEF u
<1> QED BY <1>2, <1>3, <1>4

-----------------------------------------------------------------------------
(* Command line: the words of a line.                                      *)

LEMMA Blanks ==
  ASSUME NEW l \in Seq(LineKeys)
  PROVE  /\ Len(l) \in Nat /\ l \in [1..Len(l) -> LineKeys]
         /\ \A p \in 1..Len(l) : isBlank(l, p) <=> l[p] = "SP"
         /\ isBlank(l, 0) /\ isBlank(l, Len(l) + 1)
         /\ Begins(l) = {k \in 1..Len(l) : ~isBlank(l, k) /\ isBlank(l, k - 1)}
<1>1. Len(l) \in Nat /\ DOMAIN l = 1..Len(l) /\ l \in [1..Len(l) -> LineKeys]
  OBVIOUS
<1>2. 0 \notin 1..Len(l) /\ Len(l) + 1 \notin 1..Len(l)
  BY <1>1
<1> QED BY <1>1, <1>2, Zenon DEF isBlank, Begins

\* A word has an end, and only one.
LEMMA WordEnds ==
  ASSUME NEW l \in Seq(LineKeys), NEW k \in Begins(l)
  PROVE  \E e \in k..Len(l) :
           /\ isBlank(l, e + 1) /\ \A x \in k..e : ~isBlank(l, x)
           /\ WordAt(l, k) = SubSeq(l, k, e)
<1> DEFINE n == Len(l)
           Q(e) == isBlank(l, e + 1) /\ \A x \in k..e : ~isBlank(l, x)
           T == {x \in k..(n + 1) : isBlank(l, x)}
<1>1. n \in Nat /\ k \in 1..n /\ ~isBlank(l, k) /\ isBlank(l, n + 1)
  BY Blanks
<1> HIDE DEF n
<1>2. PICK b \in T : \A x \in T : b <= x
  <2>1. T \subseteq Nat /\ n + 1 \in T
    BY <1>1
  <2> HIDE DEF T
  <2> QED BY <2>1, SmallestNumber
<1>3. b \in k..(n + 1) /\ isBlank(l, b) /\ b # k
  BY <1>1, <1>2
<1>4. b - 1 \in k..n /\ (b - 1) + 1 = b
  BY <1>1, <1>3
<1>5. Q(b - 1)
  <2>1. ASSUME NEW x \in k..(b - 1) PROVE ~isBlank(l, x)
    <3>1. x \in k..(n + 1) /\ ~(b <= x)
      BY <1>1, <1>3
    <3> QED BY <1>2, <3>1
  <2> QED BY <1>3, <1>4, <2>1
<1>6. ASSUME NEW e \in k..n, Q(e) PROVE e = b - 1
  <2>1. ~(e < b - 1)
    <3>1. e < b - 1 => e + 1 \in k..(b - 1)
      BY <1>1, <1>4
    <3> QED BY <1>5, <1>6, <3>1
  <2>2. ~(e > b - 1)
    <3>1. e > b - 1 => b \in k..e
      BY <1>1, <1>3
    <3> QED BY <1>3, <1>6, <3>1
  <2> QED BY <1>1, <1>4, <2>1, <2>2
<1>7. WordAt(l, k) = SubSeq(l, k, CHOOSE e \in k..n : Q(e))
  BY Zenon DEF WordAt, n
<1>8. (CHOOSE e \in k..n : Q(e)) = b - 1
  <2> HIDE DEF Q
  <2> QED BY <1>4, <1>5, <1>6
<1> QED BY <1>4, <1>5, <1>7, <1>8 DEF n

\* The rank of a beginning is the number of the word.
LEMMA Ranks ==
  ASSUME NEW l \in Seq(LineKeys)
  PROVE  /\ IsFiniteSet(Begins(l)) /\ Cardinality(Begins(l)) \in Nat
         /\ \A k \in Begins(l) : Rank(l, k) \in 1..Cardinality(Begins(l))
         /\ \A k, q \in Begins(l) : Rank(l, k) = Rank(l, q) => k = q
         /\ \A k \in Begins(l) : (\A x \in Begins(l) : x >= k) => Rank(l, k) = 1
         /\ \A k \in Begins(l) :
              (\A x \in Begins(l) : x <= k) <=> Rank(l, k) = Cardinality(Begins(l))
         /\ \A k, q \in Begins(l) :
              k < q /\ (\A x \in Begins(l) : x <= k \/ x >= q) => Rank(l, q) = Rank(l, k) + 1
<1> DEFINE B == Begins(l)
           U(k) == {x \in B : x <= k}
<1>1. B \subseteq 1..Len(l) /\ Len(l) \in Nat
  BY Blanks
<1>2. \A k : Rank(l, k) = Cardinality(U(k))
  BY DEF Rank
<1> HIDE DEF B
<1>3. B \subseteq Nat
  BY <1>1
<1>4. IsFiniteSet(B)
  <2>1. IsFiniteSet(1..Len(l))
    BY <1>1, FS_Interval
  <2> QED BY <1>1, <2>1, FS_Subset
<1>5. Cardinality(B) \in Nat
  BY <1>4, FS_CardinalityType
<1>6. ASSUME NEW k \in B
      PROVE  /\ IsFiniteSet(U(k)) /\ k \in U(k) /\ Cardinality(U(k)) \in 1..Cardinality(B)
             /\ (\A x \in B : x <= k) <=> Cardinality(U(k)) = Cardinality(B)
  <2> DEFINE S == U(k)
  <2>1. S \in SUBSET B /\ k \in S
    BY <1>3
  <2>2. (\A x \in B : x <= k) <=> S = B
    OBVIOUS
  <2> HIDE DEF S
  <2>3. IsFiniteSet(S) /\ Cardinality(S) <= Cardinality(B) /\ (Cardinality(B) = Cardinality(S) => S = B)
    BY <1>4, <2>1, FS_Subset
  <2>4. Cardinality(S) \in Nat /\ Cardinality(S) # 0
    BY <2>1, <2>3, FS_CardinalityType, FS_EmptySet
  <2>5. IsFiniteSet(S) /\ k \in S /\ Cardinality(S) \in 1..Cardinality(B)
    BY <1>5, <2>1, <2>3, <2>4
  <2>6. (\A x \in B : x <= k) <=> Cardinality(S) = Cardinality(B)
    BY <2>2, <2>3
  <2> QED BY <2>5, <2>6 DEF S
<1>7. ASSUME NEW k \in B, NEW q \in B, k < q PROVE Cardinality(U(k)) < Cardinality(U(q))
  <2> DEFINE S == U(k)
             T == U(q)
  <2>1. S \in SUBSET T /\ q \in T /\ q \notin S
    <3>1. k \in Nat /\ q \in Nat /\ \A x \in B : x \in Nat
      BY <1>3
    <3>2. ~(q <= k) /\ q <= q /\ \A x \in B : x <= k => x <= q
      BY <1>7, <3>1
    <3> QED BY <3>2, Zenon
  <2>2. IsFiniteSet(T) /\ Cardinality(T) \in Nat
    BY <1>6, FS_CardinalityType
  <2>3. IsFiniteSet(S) /\ Cardinality(S) \in Nat
    BY <1>6, FS_CardinalityType
  <2> HIDE DEF S, T
  <2>4. Cardinality(S) <= Cardinality(T) /\ (Cardinality(T) = Cardinality(S) => T = S)
    BY <2>1, <2>2, FS_Subset
  <2>5. Cardinality(S) < Cardinality(T)
    BY <2>1, <2>2, <2>3, <2>4
  <2> QED BY <2>5 DEF S, T
<1>8. ASSUME NEW k \in B, NEW q \in B, Cardinality(U(k)) = Cardinality(U(q)) PROVE k = q
  <2>1. Cardinality(U(k)) \in Nat /\ Cardinality(U(q)) \in Nat
    BY <1>6, FS_CardinalityType
  <2> HIDE DEF U
  <2>2. ~(k < q) /\ ~(q < k)
    BY <1>7, <1>8, <2>1
  <2> QED BY <1>3, <2>2
<1>9. ASSUME NEW k \in B, \A x \in B : x >= k PROVE Cardinality(U(k)) = 1
  <2>1. U(k) = {k}
    <3>1. k \in Nat /\ \A x \in B : x \in Nat
      BY <1>3
    <3>2. \A x \in B : x <= k <=> x = k
      BY <1>9, <3>1
    <3> QED BY <3>2, Zenon
  <2> QED BY <2>1, FS_Singleton
<1>10. ASSUME NEW k \in B, NEW q \in B, k < q, \A x \in B : x <= k \/ x >= q
       PROVE  Cardinality(U(q)) = Cardinality(U(k)) + 1
  <2>1. U(q) = U(k) \union {q} /\ q \notin U(k)
    <3>1. k \in Nat /\ q \in Nat /\ \A x \in B : x \in Nat
      BY <1>3
    <3>2. ~(q <= k) /\ \A x \in B : x <= q <=> x <= k \/ x = q
      BY <1>10, <3>1
    <3> QED BY <3>2, Zenon
  <2>2. IsFiniteSet(U(k))
    BY <1>6
  <2> HIDE DEF U
  <2> QED BY <2>1, <2>2, FS_AddElement
<1> HIDE DEF U
<1> QED BY <1>2, <1>4, <1>5, <1>6, <1>8, <1>9, <1>10 DEF B

LEMMA WordsLaws ==
  ASSUME NEW l \in Seq(LineKeys)
  PROVE  /\ Words(l) \in Seq(Seq(LineKeys)) /\ Len(Words(l)) = Cardinality(Begins(l))
         /\ \A k \in Begins(l) : Words(l)[Rank(l, k)] = WordAt(l, k)
<1> DEFINE B == Begins(l)
           c == Cardinality(B)
           K(m) == CHOOSE k \in B : Rank(l, k) = m
<1>1. Words(l) = [m \in 1..c |-> WordAt(l, K(m))]
  BY Zenon DEF Words
<1>2. /\ IsFiniteSet(B) /\ c \in Nat /\ \A k \in B : Rank(l, k) \in 1..c
      /\ \A k, q \in B : Rank(l, k) = Rank(l, q) => k = q
  BY Ranks
<1>3. ASSUME NEW k \in B PROVE K(Rank(l, k)) = k
  BY <1>2
<1>4. ASSUME NEW m \in 1..c PROVE K(m) \in B
  <2> DEFINE R == {Rank(l, k) : k \in B}
             f == [k \in B |-> Rank(l, k)]
  <2>1. f \in [B -> R] /\ \A k \in B : f[k] = Rank(l, k)
    OBVIOUS
  <2>2. f \in Injection(B, R) /\ f \in Surjection(B, R)
    BY <1>2, <2>1 DEF Injection, Surjection, IsInjective
  <2> HIDE DEF f
  <2>3. IsFiniteSet(R) /\ Cardinality(R) = c
    BY <1>2, <2>2, FS_Surjection
  <2>4. R \in SUBSET (1..c)
    BY <1>2
  <2>5. IsFiniteSet(1..c) /\ Cardinality(1..c) = c
    <3>1. 1 \in Int /\ c \in Int /\ (IF 1 > c THEN 0 ELSE c - 1 + 1) = c
      BY <1>2
    <3> HIDE DEF c
    <3> QED BY <3>1, FS_Interval
  <2> HIDE DEF R
  <2>6. 1..c = R
    BY <2>3, <2>4, <2>5, FS_Subset
  <2>7. m \in R
    BY <2>6
  <2>8. \E k \in B : Rank(l, k) = m
    BY <2>7 DEF R
  <2> QED BY <2>8
<1>5. ASSUME NEW k \in B PROVE WordAt(l, k) \in Seq(LineKeys)
  <2>1. PICK e \in k..Len(l) : WordAt(l, k) = SubSeq(l, k, e)
    BY WordEnds
  <2>2. Len(l) \in Nat /\ k \in 1..Len(l)
    BY Blanks
  <2>3. k \in Int /\ e \in Int /\ \A p \in k..e : l[p] \in LineKeys
    BY <2>2
  <2> QED BY <2>1, <2>3, SubSeqProperties
<1> HIDE DEF B, K
<1>6. Words(l) \in [1..c -> Seq(LineKeys)]
  BY <1>1, <1>4, <1>5
<1>7. c \in Nat
  BY <1>2
<1> HIDE DEF c
<1>8. Words(l) \in Seq(Seq(LineKeys)) /\ Len(Words(l)) = c
  BY <1>6, <1>7
<1>9. ASSUME NEW k \in B PROVE Words(l)[Rank(l, k)] = WordAt(l, k)
  BY <1>1, <1>2, <1>3
<1> QED BY <1>8, <1>9 DEF B, c

-----------------------------------------------------------------------------
(* Command line: how it is cut.                                            *)

\* The line with the blanks from a up to z overwritten.
Cut(l, a, z) ==
  [p \in 1..Len(l) |-> IF p \in a..(z - 1) /\ l[p] = "SP" THEN "0" ELSE l[p]]

\* A blank or the end of the line is found from s on, before z.
EndsBefore(l, s, z) == z = Len(l) + 1 \/ \E r \in s..(z - 1) : isBlank(l, r)

IsCut(b, l, a, z) ==
  /\ b \in Seq(LineKeys \union {"0"}) /\ Len(b) = Len(l)
  /\ \A p \in 1..Len(l) :
       /\ b[p] = IF p \in a..(z - 1) /\ isBlank(l, p) THEN "0" ELSE l[p]
       /\ Char(b, p) = b[p]
       /\ l[p] # "0" /\ (isBlank(l, p) <=> l[p] = "SP")
  /\ Char(b, Len(l) + 1) = "0"

LEMMA CutLaws ==
  ASSUME LineAssumption, NEW l \in Seq(LineKeys), NEW a \in Nat, NEW z \in Nat
  PROVE  IsCut(Cut(l, a, z), l, a, z)
<1> DEFINE n == Len(l)
           b == Cut(l, a, z)
<1>1. n \in Nat /\ l \in [1..n -> LineKeys] /\ \A p \in 1..n : isBlank(l, p) <=> l[p] = "SP"
  BY Blanks
<1>2. \A p \in 1..n : l[p] # "0"
  <2>1. "0" \notin LineKeys
    BY DEF LineAssumption, LineKeys
  <2> QED BY <1>1, <2>1
<1>3. b = [p \in 1..n |-> IF p \in a..(z - 1) /\ l[p] = "SP" THEN "0" ELSE l[p]]
  BY DEF Cut
<1> HIDE DEF n, b
<1>4. \A p \in 1..n : b[p] = IF p \in a..(z - 1) /\ isBlank(l, p) THEN "0" ELSE l[p]
  BY <1>1, <1>3
<1>0. n \in Nat
  BY <1>1
<1>5. b \in [1..n -> LineKeys \union {"0"}]
  BY <1>1, <1>3
<1>6. b \in Seq(LineKeys \union {"0"}) /\ Len(b) = n
  <2> DEFINE S == LineKeys \union {"0"}
  <2>1. b \in [1..n -> S]
    BY <1>5
  <2> HIDE DEF S
  <2>2. b \in Seq(S) /\ Len(b) = n
    BY <1>0, <2>1
  <2> QED BY <2>2 DEF S
<1>7. (\A p \in 1..n : ~(p > n)) /\ n + 1 > n
  BY <1>0
<1>8. (\A p \in 1..n : Char(b, p) = b[p]) /\ Char(b, n + 1) = "0"
  BY <1>6, <1>7, Zenon DEF Char
<1> QED BY <1>1, <1>2, <1>4, <1>6, <1>8 DEF n, b, IsCut

\* Before the first word nothing is overwritten.
LEMMA NotYetCut ==
  ASSUME NEW l \in Seq(LineKeys), NEW s \in Nat
  PROVE  Cut(l, s, s) = l
<1>1. Len(l) \in Nat /\ l = [p \in 1..Len(l) |-> l[p]]
  OBVIOUS
<1>2. s..(s - 1) = {}
  OBVIOUS
<1>3. \A p \in 1..Len(l) : (IF p \in s..(s - 1) /\ l[p] = "SP" THEN "0" ELSE l[p]) = l[p]
  BY <1>2, Zenon
<1> QED BY <1>1, <1>3, Zenon DEF Cut

LEMMA FirstWord ==
  ASSUME LineAssumption, NEW l \in Seq(LineKeys), input = l
  PROVE  LET s == strstrip(1, "SP")
         IN  /\ s \in 1..(Len(l) + 1)
             /\ IF Begins(l) = {} THEN s = Len(l) + 1
                ELSE s \in Begins(l) /\ \A x \in Begins(l) : x >= s
<1> DEFINE n == Len(l)
           Q(q) == Char(l, q) # "SP" /\ \A r \in 1..(q - 1) : Char(l, r) = "SP"
           s == strstrip(1, "SP")
           T == {q \in 1..(n + 1) : Char(l, q) # "SP"}
<1>1. /\ n \in Nat /\ \A p \in 1..n : isBlank(l, p) <=> l[p] = "SP"
      /\ isBlank(l, 0)
      /\ Begins(l) = {k \in 1..n : ~isBlank(l, k) /\ isBlank(l, k - 1)}
  BY Blanks
<1>0. n \in Nat
  BY <1>1
<1>2. (\A p \in 1..n : Char(l, p) = l[p]) /\ Char(l, n + 1) = "0"
  <2>1. (\A p \in 1..n : ~(p > n)) /\ n + 1 > n
    BY <1>0
  <2> QED BY <2>1, Zenon DEF Char, n
<1>3. s = CHOOSE q \in 1..(n + 1) : Q(q)
  BY Zenon DEF strstrip, n
<1> HIDE DEF n
<1>4. PICK q \in T : \A x \in T : q <= x
  <2>1. T \subseteq Nat
    <3>1. 1..(n + 1) \subseteq Nat
      BY <1>0
    <3> QED BY <3>1, Zenon
  <2>2. n + 1 \in 1..(n + 1)
    BY <1>0
  <2>3. n + 1 \in T
    BY <1>2, <2>2
  <2> HIDE DEF T
  <2> QED BY <2>1, <2>3, SmallestNumber
<1>5. q \in 1..(n + 1) /\ Q(q)
  <2>1. q \in 1..(n + 1) /\ Char(l, q) # "SP"
    BY <1>4
  <2>2. ASSUME NEW r \in 1..(q - 1) PROVE Char(l, r) = "SP"
    <3>1. r \in 1..(n + 1) /\ ~(q <= r)
      <4>1. q \in 1..(n + 1)
        BY <2>1
      <4> HIDE DEF T
      <4> QED BY <1>0, <4>1
    <3> QED BY <1>4, <3>1
  <2> QED BY <2>1, <2>2
<1> HIDE DEF T
<1>6. s \in 1..(n + 1) /\ Q(s)
  <2> HIDE DEF Q, s
  <2> QED BY <1>3, <1>5
<1> HIDE DEF s
<1>7. ASSUME NEW x \in 1..n, x < s PROVE isBlank(l, x)
  <2>1. x \in 1..(s - 1)
    <3>1. s \in 1..(n + 1)
      BY <1>6
    <3> QED BY <1>0, <1>7, <3>1
  <2> QED BY <1>1, <1>2, <1>6, <2>1
<1>8. ASSUME NEW x \in Begins(l) PROVE x >= s
  <2>1. x \in 1..n /\ ~isBlank(l, x)
    BY <1>1
  <2>2. s \in 1..(n + 1) /\ ~(x < s)
    BY <1>6, <1>7, <2>1
  <2> QED BY <1>0, <2>1, <2>2
<1>9. s # n + 1 => s \in Begins(l)
  <2> SUFFICES ASSUME s # n + 1 PROVE s \in Begins(l)
    OBVIOUS
  <2>1. s \in 1..n
    <3>1. s \in 1..(n + 1)
      BY <1>6
    <3> QED BY <1>0, <3>1
  <2>2. ~isBlank(l, s)
    BY <1>1, <1>2, <1>6, <2>1
  <2>3. isBlank(l, s - 1)
    <3>1. s - 1 = 0 \/ (s - 1 \in 1..n /\ s - 1 < s)
      BY <1>0, <2>1
    <3> QED BY <1>1, <1>7, <3>1
  <2> QED BY <1>1, <2>1, <2>2, <2>3
<1>10. s = n + 1 => Begins(l) = {}
  <2>1. \A x \in Begins(l) : x \in 1..n /\ x >= s
    BY <1>1, <1>8
  <2>2. s = n + 1 => \A x \in 1..n : ~(x >= s)
    BY <1>0
  <2> QED BY <2>1, <2>2, Zenon
<1> QED BY <1>6, <1>8, <1>9, <1>10 DEF n, s

LEMMA SamePart ==
  ASSUME NEW q, NEW r, NEW s \in Int, NEW e \in Int, \A p \in s..e : q[p] = r[p]
  PROVE  SubSeq(q, s, e) = SubSeq(r, s, e)
<1>1. /\ SubSeq(q, s, e) = [p \in 1..(e - s + 1) |-> q[s + p - 1]]
      /\ SubSeq(r, s, e) = [p \in 1..(e - s + 1) |-> r[s + p - 1]]
  OBVIOUS
<1>2. \A p \in 1..(e - s + 1) : s + p - 1 \in s..e
  OBVIOUS
<1>3. \A p \in 1..(e - s + 1) : q[s + p - 1] = r[s + p - 1]
  BY <1>2
<1> QED BY <1>1, <1>3, Zenon

\* A string in the cut line ends where the word ended.
LEMMA StringLaws ==
  ASSUME LineAssumption, NEW l \in Seq(LineKeys), NEW s \in Begins(l), NEW a \in 1..s,
         NEW z \in (s + 1)..(Len(l) + 1), EndsBefore(l, s, z)
  PROVE  String(Cut(l, a, z), s) = WordAt(l, s)
<1> DEFINE n == Len(l)
           b == Cut(l, a, z)
           Q(q) == Char(b, q) = "0" /\ \A r \in s..(q - 1) : Char(b, r) # "0"
<1>1. n \in Nat /\ s \in 1..n /\ a \in Nat /\ z \in Nat /\ a <= s
  <2>1. n \in Nat /\ s \in 1..n
    BY Blanks
  <2> QED BY <2>1
<1>2. /\ b \in Seq(LineKeys \union {"0"}) /\ Len(b) = n /\ Char(b, n + 1) = "0"
      /\ \A p \in 1..n : /\ Char(b, p) = IF p \in a..(z - 1) /\ isBlank(l, p) THEN "0" ELSE l[p]
                         /\ b[p] = Char(b, p) /\ l[p] # "0"
  <2>1. a \in Nat /\ z \in Nat
    BY <1>1
  <2>2. IsCut(b, l, a, z)
    BY <2>1, CutLaws
  <2> HIDE DEF b
  <2> QED BY <2>2 DEF IsCut
<1>3. PICK e \in s..n : /\ isBlank(l, e + 1) /\ \A x \in s..e : ~isBlank(l, x)
                        /\ WordAt(l, s) = SubSeq(l, s, e)
  BY WordEnds
<1>4. z = n + 1 \/ \E r \in s..(z - 1) : isBlank(l, r)
  BY DEF EndsBefore
<1>5. String(b, s) = SubSeq(b, s, (CHOOSE q \in s..(Len(b) + 1) : Q(q)) - 1)
  BY Zenon DEF String
<1> HIDE DEF n, b
<1>6. ASSUME NEW p \in s..e PROVE Char(b, p) # "0" /\ b[p] = l[p]
  <2>1. p \in 1..n /\ ~isBlank(l, p)
    BY <1>1, <1>3
  <2> QED BY <1>2, <2>1
<1>7. Char(b, e + 1) = "0"
  <2>1. CASE e = n
    BY <1>2, <2>1
  <2>2. CASE e # n
    <3>1. e + 1 \in 1..n /\ a <= e + 1
      BY <1>1, <1>3, <2>2
    <3>2. e + 1 < z
      <4>1. CASE z = n + 1
        BY <1>1, <3>1, <4>1
      <4>2. CASE \E r \in s..(z - 1) : isBlank(l, r)
        <5>1. PICK r \in s..(z - 1) : isBlank(l, r)
          BY <4>2
        <5>2. r \notin s..e
          BY <1>3, <5>1
        <5> QED BY <1>1, <5>1, <5>2
      <4> QED BY <1>4, <4>1, <4>2
    <3>3. e + 1 \in a..(z - 1)
      BY <1>1, <3>1, <3>2
    <3> QED BY <1>2, <1>3, <3>1, <3>3
  <2> QED BY <2>1, <2>2
<1>8. e + 1 \in s..(n + 1) /\ Q(e + 1)
  <2>1. e + 1 \in s..(n + 1) /\ (e + 1) - 1 = e
    BY <1>1
  <2> QED BY <1>6, <1>7, <2>1
<1>9. ASSUME NEW q \in s..(n + 1), Q(q) PROVE q = e + 1
  <2>1. ~(q < e + 1)
    <3>1. q < e + 1 => q \in s..e
      BY <1>1
    <3> QED BY <1>6, <1>9, <3>1
  <2>2. ~(q > e + 1)
    <3>1. q > e + 1 => e + 1 \in s..(q - 1)
      BY <1>1
    <3> QED BY <1>7, <1>9, <3>1
  <2> QED BY <1>1, <2>1, <2>2
<1>10. (CHOOSE q \in s..(n + 1) : Q(q)) - 1 = e
  <2> DEFINE stop == CHOOSE q \in s..(n + 1) : Q(q)
  <2> SUFFICES stop - 1 = e
    BY Zenon
  <2>1. stop = e + 1
    <3> HIDE DEF Q
    <3> QED BY <1>8, <1>9
  <2> HIDE DEF stop
  <2> QED BY <1>1, <2>1
<1>11. SubSeq(b, s, e) = SubSeq(l, s, e)
  <2>1. s \in Int /\ e \in Int /\ \A p \in s..e : b[p] = l[p]
    BY <1>1, <1>6
  <2> HIDE DEF b
  <2> QED BY <2>1, SamePart
<1>12. String(b, s) = SubSeq(b, s, e)
  BY <1>2, <1>5, <1>10
<1> QED BY <1>3, <1>11, <1>12 DEF b

LEMMA NoString ==
  ASSUME LineAssumption, NEW l \in Seq(LineKeys), NEW a \in Nat, NEW z \in Nat
  PROVE  String(Cut(l, a, z), Len(l) + 1) = << >>
<1> DEFINE n == Len(l)
           s == n + 1
           b == Cut(l, a, z)
           Q(q) == Char(b, q) = "0" /\ \A r \in s..(q - 1) : Char(b, r) # "0"
<1>1. n \in Nat
  OBVIOUS
<1>2. Len(b) = n /\ Char(b, s) = "0"
  <2>1. IsCut(b, l, a, z)
    BY CutLaws
  <2> HIDE DEF b
  <2> QED BY <2>1 DEF IsCut
<1>3. String(b, s) = SubSeq(b, s, (CHOOSE q \in s..(Len(b) + 1) : Q(q)) - 1)
  BY Zenon DEF String
<1> HIDE DEF n, b
<1>4. \A q : q \in s..(Len(b) + 1) <=> q = s
  BY <1>1, <1>2
<1>5. Q(s)
  <2>1. s..(s - 1) = {}
    BY <1>1
  <2> QED BY <1>2, <2>1
<1>6. (CHOOSE q \in s..(Len(b) + 1) : Q(q)) = s
  <2> HIDE DEF Q, s
  <2> QED BY <1>4, <1>5
<1>7. SubSeq(b, s, s - 1) = << >>
  BY <1>1, SubSeqEmpty
<1> QED BY <1>3, <1>6, <1>7 DEF n, b

\* strtok finds the next word, or the end of the line, and overwrites the blanks
\* before it.
LEMMA NextWord ==
  ASSUME LineAssumption, NEW l \in Seq(LineKeys), NEW s \in Begins(l), NEW a \in 1..s,
         input = Cut(l, a, s)
  PROVE  LET z == strtok(s, "SP").next
         IN  /\ z \in (s + 1)..(Len(l) + 1) /\ EndsBefore(l, s, z)
             /\ z = Len(l) + 1 \/ z \in Begins(l)
             /\ \A x \in Begins(l) : x <= s \/ x >= z
             /\ strtok(s, "SP").cut = Cut(l, a, z)
             /\ Char(strtok(s, "SP").cut, z) = "0" <=> z = Len(l) + 1
<1> DEFINE n == Len(l)
           free(r) == Char(input, r) = "SP"
           Q(q) == /\ Char(input, q) = "0" \/ (~free(q) /\ \E r \in s..(q - 1) : free(r))
                   /\ \A r \in s..(q - 1) : free(r) \/ \A x \in s..r : ~free(x)
           next == CHOOSE q \in s..(Len(input) + 1) : Q(q)
           cut == [p \in DOMAIN input |->
                     IF p \in s..(next - 1) /\ free(p) THEN "0" ELSE input[p]]
<1>1. /\ n \in Nat /\ s \in 1..n /\ a \in Nat
      /\ Begins(l) = {k \in 1..n : ~isBlank(l, k) /\ isBlank(l, k - 1)}
      /\ isBlank(l, n + 1)
  <2>1. /\ n \in Nat /\ isBlank(l, n + 1)
        /\ Begins(l) = {k \in 1..n : ~isBlank(l, k) /\ isBlank(l, k - 1)}
    BY Blanks
  <2>2. s \in 1..n
    BY <2>1
  <2>3. a \in Nat
    BY <2>1, <2>2
  <2> QED BY <2>1, <2>2, <2>3
<1>2. n \in Nat /\ s \in Nat /\ a \in Nat /\ 1 <= a /\ a <= s /\ s <= n
  <2>1. n \in Nat /\ s \in 1..n
    BY <1>1
  <2> QED BY <2>1
<1>3. IsCut(input, l, a, s)
  BY <1>2, CutLaws
<1>4. Len(input) = n /\ DOMAIN input = 1..n /\ Char(input, n + 1) = "0"
  <2> DEFINE S == LineKeys \union {"0"}
  <2>1. input \in Seq(S) /\ Len(input) = n /\ Char(input, n + 1) = "0"
    BY <1>3, Zenon DEF IsCut
  <2> HIDE DEF S, n
  <2>2. DOMAIN input = 1..n
    BY <2>1
  <2> QED BY <2>1, <2>2
<1>5. strtok(s, "SP") = [next |-> next, cut |-> cut]
  BY Zenon DEF strtok
<1>6. \A p \in 1..n : input[p] = IF p \in a..(s - 1) /\ isBlank(l, p) THEN "0" ELSE l[p]
  BY <1>3, Zenon DEF IsCut
<1>7. ASSUME NEW p \in s..n
      PROVE  /\ Char(input, p) = l[p] /\ l[p] # "0"
             /\ free(p) <=> isBlank(l, p)
  <2>1. p \in 1..n /\ p \notin a..(s - 1)
    BY <1>2
  <2>2. Char(input, p) = l[p] /\ l[p] # "0" /\ (isBlank(l, p) <=> l[p] = "SP")
    BY <1>3, <2>1, Zenon DEF IsCut
  <2> QED BY <2>2
<1> HIDE DEF n
<1>8. PICK e \in s..n : isBlank(l, e + 1) /\ \A x \in s..e : ~isBlank(l, x)
  BY WordEnds DEF n
<1>9. ASSUME NEW x \in s..e PROVE ~free(x)
  <2>1. x \in s..n
    BY <1>2
  <2> QED BY <1>7, <1>8, <2>1
<1> HIDE DEF free
\* The first character behind the blanks that follow the word.
<1> DEFINE T == {q \in (e + 1)..(n + 1) : q = n + 1 \/ ~isBlank(l, q)}
<1>10. PICK z \in T : \A x \in T : z <= x
  <2>1. (e + 1)..(n + 1) \subseteq Nat /\ n + 1 \in (e + 1)..(n + 1)
    BY <1>2
  <2>2. T \subseteq Nat /\ n + 1 \in T
    BY <2>1, Zenon
  <2> HIDE DEF T
  <2> QED BY <2>2, SmallestNumber
<1>11. /\ z \in (e + 1)..(n + 1) /\ (z = n + 1 \/ ~isBlank(l, z))
       /\ \A x \in (e + 1)..(n + 1) : x < z => isBlank(l, x)
  <2>1. z \in (e + 1)..(n + 1) /\ (z = n + 1 \/ ~isBlank(l, z))
    BY <1>10, Zenon
  <2>2. ASSUME NEW x \in (e + 1)..(n + 1), x < z PROVE isBlank(l, x)
    <3>1. x \notin T
      <4>1. ~(z <= x)
        BY <1>2, <2>1, <2>2
      <4> HIDE DEF T
      <4> QED BY <1>10, <4>1
    <3> QED BY <3>1, Zenon
  <2> QED BY <2>1, <2>2
<1> HIDE DEF T
<1>12. e \in Nat /\ s <= e /\ e <= n /\ z \in Nat /\ e + 1 <= z /\ z <= n + 1
  <2>1. z \in (e + 1)..(n + 1)
    BY <1>11
  <2> QED BY <1>2, <2>1
<1>13. z # n + 1 => /\ z \in s..n /\ e + 1 \in s..(z - 1) /\ e + 1 \in s..n /\ ~isBlank(l, z)
  <2>1. z # n + 1 => ~isBlank(l, z) /\ z # e + 1
    BY <1>8, <1>11
  <2> QED BY <1>2, <1>12, <2>1
<1>14. ASSUME NEW r \in s..(z - 1) PROVE isBlank(l, r) \/ r \in s..e
  <2>1. r \in s..e \/ (r \in (e + 1)..(n + 1) /\ r < z)
    BY <1>2, <1>12
  <2> QED BY <1>11, <2>1
<1>15. z \in s..(n + 1) /\ Q(z)
  <2>1. z \in s..(n + 1)
    BY <1>2, <1>12
  <2>2. Char(input, z) = "0" \/ (~free(z) /\ \E r \in s..(z - 1) : free(r))
    <3>1. CASE z = n + 1
      BY <1>4, <3>1
    <3>2. CASE z # n + 1
      <4>1. z \in s..n /\ e + 1 \in s..(z - 1) /\ e + 1 \in s..n /\ ~isBlank(l, z)
        BY <1>13, <3>2
      <4>2. ~free(z) /\ free(e + 1)
        BY <1>7, <1>8, <4>1
      <4> QED BY <4>1, <4>2
    <3> QED BY <3>1, <3>2
  <2>3. ASSUME NEW r \in s..(z - 1) PROVE free(r) \/ \A x \in s..r : ~free(x)
    <3>1. CASE isBlank(l, r)
      <4>1. r \in s..n
        BY <1>2, <1>12
      <4> QED BY <1>7, <3>1, <4>1
    <3>2. CASE r \in s..e
      <4>1. \A x \in s..r : x \in s..e
        BY <1>12, <3>2
      <4> QED BY <1>9, <4>1
    <3> QED BY <1>14, <3>1, <3>2
  <2> QED BY <2>1, <2>2, <2>3
<1>16. ASSUME NEW p \in s..(n + 1), NEW q \in s..(n + 1), Q(p), Q(q), p < q PROVE FALSE
  <2>1. p \in s..n /\ p \in s..(q - 1)
    BY <1>2, <1>16
  <2>2. Char(input, p) # "0"
    BY <1>7, <2>1
  <2>3. ~free(p) /\ \E r \in s..(p - 1) : free(r)
    BY <1>16, <2>2
  <2>4. PICK r \in s..(p - 1) : free(r)
    BY <2>3
  <2>5. r \in s..p
    BY <1>2, <2>1
  <2>6. free(p) \/ \A x \in s..p : ~free(x)
    BY <1>16, <2>1
  <2> QED BY <2>3, <2>4, <2>5, <2>6
<1>17. next = z
  <2>1. \A p, q \in s..(n + 1) : Q(p) /\ Q(q) => p = q
    <3> HIDE DEF Q
    <3>1. \A p, q \in s..(n + 1) : ~(p < q) /\ ~(q < p) => p = q
      BY <1>2
    <3> QED BY <1>16, <3>1
  <2>2. next = CHOOSE q \in s..(n + 1) : Q(q)
    BY <1>4
  <2> HIDE DEF Q, next
  <2> QED BY <1>15, <2>1, <2>2
<1>18. strtok(s, "SP").next = z /\ strtok(s, "SP").cut = cut
  <2>1. strtok(s, "SP").next = next /\ strtok(s, "SP").cut = cut
    <3> HIDE DEF next, cut
    <3> QED BY <1>5
  <2> QED BY <1>17, <2>1
<1> HIDE DEF next, Q
<1>19. cut = Cut(l, a, z)
  <2>1. cut = [p \in 1..n |-> IF p \in s..(z - 1) /\ free(p) THEN "0" ELSE input[p]]
    BY <1>4, <1>17, Zenon
  <2>2. Cut(l, a, z) = [p \in 1..n |-> IF p \in a..(z - 1) /\ l[p] = "SP" THEN "0" ELSE l[p]]
    BY Zenon DEF Cut, n
  <2>3. ASSUME NEW p \in 1..n
        PROVE  (IF p \in s..(z - 1) /\ free(p) THEN "0" ELSE input[p])
                 = (IF p \in a..(z - 1) /\ l[p] = "SP" THEN "0" ELSE l[p])
    <3>0. input[p] = (IF p \in a..(s - 1) /\ isBlank(l, p) THEN "0" ELSE l[p])
          /\ (isBlank(l, p) <=> l[p] = "SP")
      BY <1>3, Zenon DEF IsCut, n
    <3>1. CASE p < s
      <4>1. p \notin s..(z - 1) /\ (p \in a..(z - 1) <=> p \in a..(s - 1))
        BY <1>2, <1>12, <3>1
      <4> QED BY <3>0, <4>1, Zenon
    <3>2. CASE ~(p < s)
      <4>1. p \in s..n /\ p \notin a..(s - 1) /\ (p \in a..(z - 1) <=> p \in s..(z - 1))
        BY <1>2, <1>12, <3>2
      <4>2. free(p) <=> isBlank(l, p)
        BY <1>7, <4>1
      <4> QED BY <3>0, <4>1, <4>2, Zenon
    <3> QED BY <3>1, <3>2
  <2> HIDE DEF cut
  <2> QED BY <2>1, <2>2, <2>3, Zenon
<1> HIDE DEF cut
<1>20. z \in (s + 1)..(n + 1) /\ EndsBefore(l, s, z)
  <2>1. z \in (s + 1)..(n + 1)
    BY <1>2, <1>12
  <2>2. z # n + 1 => \E r \in s..(z - 1) : isBlank(l, r)
    BY <1>8, <1>13
  <2> QED BY <2>1, <2>2 DEF EndsBefore, n
<1>21. z # n + 1 => z \in Begins(l)
  <2> SUFFICES ASSUME z # n + 1 PROVE z \in Begins(l)
    OBVIOUS
  <2>1. z \in 1..n /\ z - 1 \in (e + 1)..(n + 1) /\ z - 1 < z
    BY <1>2, <1>12, <1>13
  <2>2. ~isBlank(l, z) /\ isBlank(l, z - 1)
    BY <1>11, <1>13, <2>1
  <2> QED BY <1>1, <2>1, <2>2, Zenon
<1>22. ASSUME NEW x \in Begins(l) PROVE x <= s \/ x >= z
  <2>1. x \in 1..n /\ ~isBlank(l, x) /\ isBlank(l, x - 1)
    BY <1>1, Zenon
  <2>2. ~(x <= s) /\ ~(x >= z) => FALSE
    <3> SUFFICES ASSUME ~(x <= s), ~(x >= z) PROVE FALSE
      OBVIOUS
    <3>1. x \in s..(z - 1) /\ x - 1 \in s..n
      <4>1. x \in 1..n
        BY <2>1
      <4> QED BY <1>2, <1>12, <4>1
    <3>2. x \in s..e
      BY <1>14, <2>1, <3>1
    <3>3. x - 1 \in s..e
      BY <1>12, <3>1, <3>2
    <3> QED BY <1>8, <2>1, <3>3
  <2> QED BY <2>2
<1>23. Char(cut, z) = "0" <=> z = n + 1
  <2>1. IsCut(cut, l, a, z)
    BY <1>2, <1>12, <1>19, CutLaws
  <2>2. z = n + 1 => Char(cut, z) = "0"
    BY <2>1 DEF IsCut, n
  <2>3. z # n + 1 => Char(cut, z) # "0"
    <3>1. z # n + 1 => z \in 1..n /\ z \notin a..(z - 1)
      BY <1>2, <1>12
    <3> QED BY <2>1, <3>1, Zenon DEF IsCut, n
  <2> QED BY <2>2, <2>3
<1> QED BY <1>18, <1>19, <1>20, <1>21, <1>22, <1>23, Zenon DEF n

\* If there is no word, it finds nothing.
LEMMA NoNextWord ==
  ASSUME LineAssumption, NEW l \in Seq(LineKeys), input = l
  PROVE  LET s == Len(l) + 1
         IN  /\ strtok(s, "SP").next = s /\ strtok(s, "SP").cut = l
             /\ Char(l, s) = "0" /\ String(l, s) = << >>
<1> DEFINE n == Len(l)
           s == n + 1
           free(r) == Char(input, r) = "SP"
           Q(q) == /\ Char(input, q) = "0" \/ (~free(q) /\ \E r \in s..(q - 1) : free(r))
                   /\ \A r \in s..(q - 1) : free(r) \/ \A x \in s..r : ~free(x)
           next == CHOOSE q \in s..(Len(input) + 1) : Q(q)
           cut == [p \in DOMAIN input |->
                     IF p \in s..(next - 1) /\ free(p) THEN "0" ELSE input[p]]
<1>1. n \in Nat /\ DOMAIN l = 1..n /\ l = [p \in 1..n |-> l[p]]
  OBVIOUS
<1>2. strtok(s, "SP") = [next |-> next, cut |-> cut]
  BY Zenon DEF strtok
<1>3. Char(l, s) = "0" /\ String(l, s) = << >>
  <2>1. Cut(l, s, s) = l /\ s \in Nat
    BY <1>1, NotYetCut
  <2>2. IsCut(l, l, s, s)
    BY <2>1, CutLaws
  <2>3. String(l, s) = << >>
    BY <2>1, NoString
  <2> QED BY <2>2, <2>3, Zenon DEF IsCut
<1> HIDE DEF n
<1>4. s..(s - 1) = {} /\ \A q : q \in s..(n + 1) <=> q = s
  BY <1>1
<1>5. Q(s)
  BY <1>3, <1>4, Zenon
<1>6. Len(input) = n /\ DOMAIN input = 1..n
  BY <1>1 DEF n
<1>7. next = s
  <2>1. next = CHOOSE q \in s..(n + 1) : Q(q)
    BY <1>6
  <2> HIDE DEF Q, next, s
  <2> QED BY <1>4, <1>5, <2>1
<1>8. cut = l
  <2>1. cut = [p \in 1..n |-> IF p \in s..(s - 1) /\ free(p) THEN "0" ELSE l[p]]
    BY <1>6, <1>7, Zenon
  <2> HIDE DEF cut, s, free
  <2> QED BY <1>1, <1>4, <2>1, Zenon
<1> HIDE DEF next, cut
<1>9. strtok(s, "SP").next = s /\ strtok(s, "SP").cut = l
  <2>1. strtok(s, "SP").next = next /\ strtok(s, "SP").cut = cut
    BY <1>2
  <2> QED BY <1>7, <1>8, <2>1
<1> QED BY <1>3, <1>9 DEF n

-----------------------------------------------------------------------------
(* Command line: the inductive invariant.                                  *)

\* q is the place of the last "|" among the first m words, but the first of all.
BarsTo(l, m) == {x \in 2..m : Words(l)[x] = <<"BAR">>}
LastBar(q, l, m) ==
  IF BarsTo(l, m) = {} THEN q = -1
  ELSE q + 1 \in BarsTo(l, m) /\ \A x \in BarsTo(l, m) : x <= q + 1

\* The tokens are the first words of l, and the blanks between them are overwritten.
Tokens(l, m) ==
  /\ Len(tokens) >= m
  /\ \A k \in 1..m : tokens[k] \in Begins(l) /\ Rank(l, tokens[k]) = k
  /\ \A x \in Begins(l) : x >= tokens[1]

Splitting(l) ==
  /\ tokens \in Seq(Nat) /\ Len(tokens) \in 1..(MAX_ARGS - 1)
  /\ IF Begins(l) = {} THEN Len(tokens) = 1 /\ tokens[1] = Len(l) + 1 /\ input = l
     ELSE Tokens(l, Len(tokens)) /\ input = Cut(l, tokens[1], tokens[Len(tokens)])
  /\ pipe \in Int /\ LastBar(pipe, l, Len(tokens) - 1)
  /\ ampersand = -1 /\ end = -1

LineInv ==
  /\ typed \in Seq(LineKeys)
  /\ parsing \in {"read", "line", "split", "done"}
  /\ parsing = "read" => ~full
  /\ parsing \in {"read", "line"} => pipe = -1 /\ end = -1 /\ ampersand = -1
  /\ ~full /\ parsing \in {"read", "line"} => input = Line(typed)
  /\ ~full /\ parsing = "split" => Splitting(Line(typed))
  /\ ParsedAsTyped

LEMMA LineBegun == ASSUME LineInit PROVE LineInv
<1>1. << >> \in Seq(LineKeys)
  OBVIOUS
<1>2. Line(<< >>) = << >>
  BY LineLaws
<1> QED BY <1>1, <1>2 DEF LineInit, LineInv, ParsedAsTyped

LEMMA KeyKeeps == ASSUME LineInv, getChar PROVE LineInv'
<1>1. /\ parsing = "read" /\ typed \in Seq(LineKeys) /\ ~full /\ input = Line(typed)
      /\ pipe = -1 /\ end = -1 /\ ampersand = -1
  BY DEF LineInv, getChar
<1>2. PICK c \in LineKeys :
        /\ typed' = Append(typed, c)
        /\ input' = CASE Len(input) = LINE_SIZE - 1 -> input
                      [] c = "BS" -> IF input = << >> THEN input ELSE Front(input)
                      [] OTHER -> Append(input, c)
  BY Zenon DEF getChar, LineKeys
<1>3. /\ full' = (Len(input) = LINE_SIZE - 1)
      /\ parsing' = IF full' THEN "line" ELSE "read"
      /\ UNCHANGED <<tokens, pipe, end, ampersand>>
  BY DEF getChar, parse
<1>4. typed' \in Seq(LineKeys)
  BY <1>1, <1>2
<1>5. ~full' => input' = Line(typed')
  <2>1. Line(typed') = Corrected(Line(typed), c)
    BY <1>1, <1>2, LineLaws
  <2> SUFFICES ASSUME ~full' PROVE input' = Corrected(input, c)
    BY <1>1, <2>1
  <2>2. Len(input) # LINE_SIZE - 1
    BY <1>3
  <2>3. input' = IF c = "BS" THEN IF input = << >> THEN input ELSE Front(input)
                 ELSE Append(input, c)
    <3>1. CASE c = "BS"
      BY <1>2, <2>2, <3>1
    <3>2. CASE c # "BS"
      BY <1>2, <2>2, <3>2
    <3> QED BY <3>1, <3>2
  <2> QED BY <2>3, Zenon DEF Corrected
<1> QED BY <1>1, <1>3, <1>4, <1>5 DEF LineInv, ParsedAsTyped

LEMMA EnterKeeps == ASSUME LineInv, enter PROVE LineInv'
<1>1. /\ parsing = "read" /\ parsing' = "line"
      /\ UNCHANGED <<input, tokens, pipe, end, ampersand, typed, full>>
  BY DEF enter, parse, keys
<1> QED BY <1>1 DEF LineInv, ParsedAsTyped

LEMMA InputKeeps == ASSUME LineAssumption, LineInv, processInput PROVE LineInv'
<1> DEFINE l == Line(typed)
           s == strstrip(1, "SP")
<1>1. /\ parsing = "line" /\ parsing' = "split" /\ tokens' = <<s>>
      /\ UNCHANGED <<input, pipe, end, ampersand, typed, full>>
  BY DEF processInput, keys
<1>2. l \in Seq(LineKeys) /\ typed \in Seq(LineKeys)
  BY LineLaws DEF LineInv
<1>3. pipe = -1 /\ end = -1 /\ ampersand = -1
  BY <1>1 DEF LineInv
<1>4. ASSUME ~full PROVE Splitting(l)'
  <2>1. input = l
    BY <1>1, <1>4 DEF LineInv
  <2> HIDE DEF l, s
  <2>2. /\ s \in 1..(Len(l) + 1)
        /\ IF Begins(l) = {} THEN s = Len(l) + 1
           ELSE s \in Begins(l) /\ \A x \in Begins(l) : x >= s
    BY <1>2, <2>1, FirstWord DEF s
  <2>3. Len(l) \in Nat
    BY <1>2
  <2>4. s \in Nat
    BY <2>2, <2>3
  <2>5. tokens' \in Seq(Nat) /\ Len(tokens') = 1 /\ tokens'[1] = s
    BY <1>1, <2>4
  <2>6. MAX_ARGS \in Nat /\ 1 \in 1..(MAX_ARGS - 1)
    BY DEF LineAssumption
  <2>7. Begins(l) # {} => /\ s \in Begins(l) /\ Rank(l, s) = 1
                          /\ input' = Cut(l, s, s) /\ \A x \in Begins(l) : x >= s
    <3>1. Cut(l, s, s) = l
      BY <1>2, <2>4, NotYetCut
    <3>2. Begins(l) # {} => Rank(l, s) = 1
      BY <1>2, <2>2, Ranks
    <3> QED BY <1>1, <2>1, <2>2, <3>1, <3>2
  <2>8. BarsTo(l, 0) = {}
    BY DEF BarsTo
  <2>9. \A k \in 1..1 : k = 1
    OBVIOUS
  <2>10. l' = l
    BY <1>1 DEF l
  <2>11. IF Begins(l) = {} THEN Len(tokens') = 1 /\ tokens'[1] = Len(l) + 1 /\ input' = l
         ELSE Tokens(l, Len(tokens))' /\ input' = Cut(l, tokens[1], tokens[Len(tokens)])'
    <3>1. CASE Begins(l) = {}
      BY <1>1, <2>1, <2>2, <2>5, <3>1
    <3>2. CASE Begins(l) # {}
      <4>1. Tokens(l, Len(tokens))'
        BY <2>5, <2>7, <2>9, <2>10, <3>2 DEF Tokens
      <4>2. input' = Cut(l, tokens[1], tokens[Len(tokens)])'
        BY <2>5, <2>7, <2>10, <3>2
      <4> QED BY <3>2, <4>1, <4>2
    <3> QED BY <3>1, <3>2
  <2>12. LastBar(pipe, l, Len(tokens) - 1)'
    <3>1. Len(tokens') - 1 = 0
      BY <2>5
    <3> QED BY <1>1, <1>3, <2>8, <2>10, <3>1 DEF LastBar
  <2> QED BY <1>1, <1>3, <2>5, <2>6, <2>10, <2>11, <2>12 DEF Splitting
<1>5. l' = l
  BY <1>1
<1> HIDE DEF l
<1>6. ~full' /\ parsing' = "split" => Splitting(Line(typed))'
  BY <1>1, <1>4, <1>5 DEF l
<1> QED BY <1>1, <1>2, <1>6 DEF LineInv, ParsedAsTyped

-----------------------------------------------------------------------------
(* Command line: a word is cut off.                                        *)

LEMMA LastBarMoves ==
  ASSUME NEW l, NEW m \in Nat \ {0}, NEW q \in Int, LastBar(q, l, m - 1),
         NEW r, r = IF m > 1 /\ Words(l)[m] = <<"BAR">> THEN m - 1 ELSE q
  PROVE  r \in Int /\ LastBar(r, l, m)
<1>1. r \in Int
  OBVIOUS
<1> DEFINE bar(x) == Words(l)[x] = <<"BAR">>
<1>2. /\ BarsTo(l, m) = {x \in 2..m : bar(x)}
      /\ BarsTo(l, m - 1) = {x \in 2..(m - 1) : bar(x)}
  BY DEF BarsTo
<1>3. r = IF m > 1 /\ bar(m) THEN m - 1 ELSE q
  OBVIOUS
<1> HIDE DEF bar
<1>4. CASE m > 1 /\ bar(m)
  <2>1. m \in BarsTo(l, m) /\ \A x \in BarsTo(l, m) : x <= m
    BY <1>2, <1>4
  <2>2. r + 1 = m
    BY <1>3, <1>4
  <2> QED BY <1>1, <2>1, <2>2 DEF LastBar
<1>5. CASE ~(m > 1 /\ bar(m))
  <2>1. BarsTo(l, m) = BarsTo(l, m - 1)
    <3>1. \A x \in 2..m : bar(x) => x \in 2..(m - 1)
      BY <1>5
    <3>2. 2..(m - 1) \subseteq 2..m
      OBVIOUS
    <3> QED BY <1>2, <3>1, <3>2
  <2> QED BY <1>1, <1>3, <1>5, <2>1 DEF LastBar
<1> QED BY <1>4, <1>5

LEMMA LastBarChosen ==
  ASSUME NEW l \in Seq(LineKeys), NEW q \in Int, LastBar(q, l, Len(Words(l)))
  PROVE  LET bars == Positions(Words(l), "BAR")
         IN  q = IF bars = {} THEN -1
                 ELSE (CHOOSE m \in bars : \A x \in bars : x <= m) - 1
<1> DEFINE bars == Positions(Words(l), "BAR")
<1>1. bars = BarsTo(l, Len(Words(l)))
  BY DEF Positions, BarsTo
<1>2. bars \subseteq Int
  BY DEF Positions
<1> HIDE DEF bars
<1>3. ASSUME bars # {} PROVE q = (CHOOSE m \in bars : \A x \in bars : x <= m) - 1
  <2>1. q + 1 \in bars /\ \A x \in bars : x <= q + 1
    BY <1>1, <1>3 DEF LastBar
  <2> DEFINE m == CHOOSE k \in bars : \A x \in bars : x <= k
  <2>2. m \in bars /\ \A x \in bars : x <= m
    BY <2>1
  <2> HIDE DEF m
  <2>3. m = q + 1
    BY <1>2, <2>1, <2>2
  <2>4. q = m - 1
    BY <2>3
  <2> QED BY <2>4, Zenon DEF m
<1>4. bars = {} => q = -1
  BY <1>1 DEF LastBar
<1> QED BY <1>3, <1>4 DEF bars

\* TakenFor, of values for the variables.
Taken(b, t, p, e, a, words) ==
  LET amp == words # << >> /\ Len(words) \in Positions(words, "AMP")
      args == IF amp THEN Front(words) ELSE words
      bars == Positions(words, "BAR")
  IN  /\ (a # -1) = amp
      /\ e = IF words = << >> THEN 1 ELSE Len(args)
      /\ words # << >> => \A m \in 1..e : String(b, t[m]) = args[m]
      /\ words = << >> => String(b, t[1]) = << >>
      /\ p = IF bars = {} THEN -1 ELSE (CHOOSE m \in bars : \A x \in bars : x <= m) - 1

LEMMA AllTaken ==
  ASSUME LineAssumption, NEW l \in Seq(LineKeys), Begins(l) # {}, NEW b, NEW t, NEW p \in Int,
         NEW e, NEW a,
         \A k \in 1..Len(Words(l)) : t[k] \in Begins(l) /\ Rank(l, t[k]) = k,
         \A x \in Begins(l) : x >= t[1],
         b = Cut(l, t[1], Len(l) + 1),
         LastBar(p, l, Len(Words(l))),
         a = IF Len(Words(l)) > 1 /\ Words(l)[Len(Words(l))] = <<"AMP">>
             THEN Len(Words(l)) - 1 ELSE -1,
         e = IF a = -1 THEN Len(Words(l)) ELSE Len(Words(l)) - 1
  PROVE  Taken(b, t, p, e, a, Words(l))
<1> DEFINE w == Words(l)
           c == Len(w)
           amp == w # << >> /\ c \in Positions(w, "AMP")
           args == IF amp THEN Front(w) ELSE w
<1>1. /\ w \in Seq(Seq(LineKeys)) /\ c = Cardinality(Begins(l))
      /\ \A k \in Begins(l) : w[Rank(l, k)] = WordAt(l, k)
  BY WordsLaws
<1>2. c \in Nat /\ c > 0 /\ w # << >>
  <2>1. PICK k \in Begins(l) : TRUE
    OBVIOUS
  <2>2. Rank(l, k) \in 1..Cardinality(Begins(l)) /\ Cardinality(Begins(l)) \in Nat
    BY Ranks
  <2>3. c \in Nat /\ c > 0
    BY <1>1, <2>2
  <2> QED BY <1>1, <2>3
<1>3. \A k \in 1..c : String(b, t[k]) = w[k]
  <2> SUFFICES ASSUME NEW k \in 1..c PROVE String(b, t[k]) = w[k]
    OBVIOUS
  <2>1. t[k] \in Begins(l) /\ Rank(l, t[k]) = k /\ t[1] <= t[k]
    OBVIOUS
  <2>2. Begins(l) \subseteq 1..Len(l) /\ Len(l) \in Nat
    BY Blanks
  <2>3. 1 \in 1..c
    BY <1>2
  <2>4. t[1] \in Begins(l)
    BY <2>3
  <2>5. t[1] \in 1..t[k] /\ Len(l) + 1 \in (t[k] + 1)..(Len(l) + 1)
    BY <2>1, <2>2, <2>4
  <2>6. EndsBefore(l, t[k], Len(l) + 1)
    BY DEF EndsBefore
  <2>7. String(Cut(l, t[1], Len(l) + 1), t[k]) = WordAt(l, t[k])
    BY <2>1, <2>5, <2>6, StringLaws
  <2> QED BY <1>1, <2>1, <2>7
<1>4. (c \in Positions(w, "AMP")) <=> (c > 1 /\ w[c] = <<"AMP">>)
  BY <1>2 DEF Positions
<1> HIDE DEF c
<1>5. (a # -1) = amp /\ e = IF amp THEN c - 1 ELSE c
  BY <1>2, <1>4 DEF c
<1>6. /\ Len(args) = e /\ e \in 0..c
      /\ \A k \in 1..e : args[k] = w[k]
  <2>1. amp => Front(w) = [k \in 1..(c - 1) |-> w[k]] /\ Len(Front(w)) = c - 1
    BY <1>1, <1>2 DEF Front, c
  <2>2. w \in Seq(Seq(LineKeys)) /\ Len(w) = c /\ c \in Nat /\ c > 0
    BY <1>1, <1>2 DEF c
  <2> HIDE DEF w
  <2>3. c \in Nat /\ c > 0
    BY <2>2
  <2>4. CASE amp
    <3>1. e = c - 1
      BY <1>5, <2>4
    <3>2. args = [k \in 1..(c - 1) |-> w[k]] /\ Len(args) = c - 1
      <4>1. args = Front(w)
        BY <2>4
      <4> HIDE DEF args
      <4> QED BY <2>1, <2>4, <4>1
    <3> HIDE DEF args, amp
    <3>3. Len(args) = e
      BY <3>1, <3>2
    <3>4. e \in 0..c
      BY <2>3, <3>1
    <3>5. ASSUME NEW k \in 1..e PROVE args[k] = w[k]
      <4>1. k \in 1..(c - 1)
        BY <3>1
      <4> QED BY <3>2, <4>1, Zenon
    <3> QED BY <3>3, <3>4, <3>5
  <2>5. CASE ~amp
    <3>1. args = w /\ e = c
      BY <1>5, <2>5
    <3> HIDE DEF args, amp
    <3>2. Len(args) = e /\ \A k \in 1..e : args[k] = w[k]
      BY <2>2, <3>1, Zenon
    <3>3. e \in 0..c
      BY <2>3, <3>1
    <3> QED BY <3>2, <3>3
  <2> QED BY <2>4, <2>5
<1>7. 1..e \subseteq 1..c
  BY <1>2, <1>6
<1>8. p = IF Positions(w, "BAR") = {} THEN -1
          ELSE (CHOOSE m \in Positions(w, "BAR") : \A x \in Positions(w, "BAR") : x <= m) - 1
  BY LastBarChosen
<1>9. \A m \in 1..e : String(b, t[m]) = args[m]
  BY <1>3, <1>6, <1>7
<1> HIDE DEF w
<1> QED BY <1>2, <1>5, <1>6, <1>8, <1>9 DEF Taken, c, w

LEMMA TakenIs == \A words : TakenFor(words) <=> Taken(input, tokens, pipe, end, ampersand, words)
BY DEF TakenFor, Taken

\* A line without a word.
LEMMA NothingToSplit ==
  ASSUME LineAssumption, LineInv, split, ~full, Begins(Line(typed)) = {}
  PROVE  /\ parsing' = "done"
         /\ Taken(input', tokens', pipe', end', ampersand', Words(Line(typed)))
<1> DEFINE l == Line(typed)
           s == Len(l) + 1
           token == strtok(s, "SP")
<1>1. parsing = "split" /\ typed \in Seq(LineKeys) /\ Splitting(l)
  BY DEF split, LineInv
<1>2. l \in Seq(LineKeys) /\ Words(l) \in Seq(Seq(LineKeys))
      /\ Len(Words(l)) = Cardinality(Begins(l))
  BY <1>1, LineLaws, WordsLaws
<1> HIDE DEF l
<1>3. Begins(l) = {}
  BY DEF l
<1>4. /\ Len(tokens) = 1 /\ tokens[1] = s /\ input = l /\ tokens \in Seq(Nat)
      /\ ampersand = -1 /\ pipe \in Int /\ LastBar(pipe, l, 0)
  <2>1. /\ tokens \in Seq(Nat) /\ Len(tokens) = 1 /\ tokens[1] = s /\ input = l
        /\ ampersand = -1 /\ pipe \in Int /\ LastBar(pipe, l, Len(tokens) - 1)
    BY <1>1, <1>3 DEF Splitting
  <2>2. Len(tokens) - 1 = 0
    BY <2>1
  <2> QED BY <2>1, <2>2
<1>5. token.next = s /\ token.cut = l /\ Char(l, s) = "0" /\ String(l, s) = << >>
  BY <1>2, <1>4, NoNextWord
<1>6. Words(l) = << >>
  <2>1. Cardinality(Begins(l)) = 0
    BY <1>3, FS_EmptySet
  <2> QED BY <1>2, <2>1
<1> DEFINE spl(m, tok) ==
      LET word == String(tok.cut, tokens[m])
          last == Char(tok.cut, tok.next) = "0"
      IN  /\ input' = tok.cut
          /\ tokens' = Append(tokens, tok.next)
          /\ pipe' = IF m > 1 /\ word = <<"BAR">> THEN m - 1 ELSE pipe
          /\ ampersand' = IF last /\ m > 1 /\ word = <<"AMP">> THEN m - 1 ELSE ampersand
          /\ end' = IF last THEN (IF ampersand' = -1 THEN m ELSE m - 1) ELSE end
          /\ parsing' = IF last \/ m + 1 = MAX_ARGS THEN "done" ELSE parsing
<1>7. spl(1, token)
  <2>1. spl(Len(tokens), strtok(tokens[Len(tokens)], "SP"))
    BY DEF split
  <2> HIDE DEF spl
  <2> QED BY <1>4, <2>1
<1> HIDE DEF token, s
<1>8. /\ input' = l /\ tokens' = Append(tokens, s) /\ pipe' = pipe /\ ampersand' = -1
      /\ end' = 1 /\ parsing' = "done"
  BY <1>4, <1>5, <1>7
<1>9. tokens'[1] = s
  BY <1>4, <1>8
<1>10. pipe = -1
  <2>1. BarsTo(l, 0) = {}
    BY DEF BarsTo
  <2> QED BY <1>4, <2>1 DEF LastBar
<1>11. Positions(Words(l), "BAR") = {}
  BY <1>6 DEF Positions
<1>12. Taken(input', tokens', pipe', end', ampersand', Words(l))
  BY <1>5, <1>6, <1>8, <1>9, <1>10, <1>11 DEF Taken
<1> QED BY <1>8, <1>12 DEF l

\* A line with words.  m of them have begun, and the last of these ends here.
LEMMA WordIsSplit ==
  ASSUME LineAssumption, LineInv, split, ~full, Begins(Line(typed)) # {}
  PROVE  LET l == Line(typed)
             m == Len(tokens)
             c == Len(Words(l))
         IN  /\ m \in Nat \ {0} /\ m <= c /\ m < MAX_ARGS
             /\ tokens' \in Seq(Nat) /\ Len(tokens') = m + 1 /\ Len(tokens) = m
             /\ pipe' \in Int /\ LastBar(pipe', l, m)
             /\ \A x \in Begins(l) : x >= tokens'[1]
             /\ \A k \in 1..m : tokens'[k] \in Begins(l) /\ Rank(l, tokens'[k]) = k
             /\ input' = Cut(l, tokens'[1], tokens'[m + 1])
             /\ m < c => /\ tokens'[m + 1] \in Begins(l) /\ Rank(l, tokens'[m + 1]) = m + 1
                         /\ ampersand' = -1 /\ end' = -1
                         /\ parsing' = IF m + 1 = MAX_ARGS THEN "done" ELSE "split"
             /\ m = c => /\ tokens'[m + 1] = Len(l) + 1 /\ parsing' = "done"
                         /\ ampersand' = IF m > 1 /\ Words(l)[m] = <<"AMP">> THEN m - 1 ELSE -1
                         /\ end' = IF ampersand' = -1 THEN m ELSE m - 1
<1> DEFINE l == Line(typed)
           m == Len(tokens)
           c == Len(Words(l))
           a == tokens[1]
           s == tokens[m]
           token == strtok(s, "SP")
           z == token.next
<1>1. parsing = "split" /\ typed \in Seq(LineKeys) /\ Splitting(l)
  BY DEF split, LineInv
<1>2. /\ l \in Seq(LineKeys) /\ Len(l) \in Nat /\ Begins(l) \subseteq 1..Len(l)
      /\ c = Cardinality(Begins(l)) /\ c \in Nat
      /\ \A k \in Begins(l) : Rank(l, k) \in 1..c /\ Words(l)[Rank(l, k)] = WordAt(l, k)
  <2>1. l \in Seq(LineKeys)
    BY <1>1, LineLaws
  <2> HIDE DEF l
  <2>2. Len(l) \in Nat /\ Begins(l) \subseteq 1..Len(l)
    BY <2>1, Blanks
  <2>3. Cardinality(Begins(l)) \in Nat /\ \A k \in Begins(l) : Rank(l, k) \in 1..Cardinality(Begins(l))
    BY <2>1, Ranks
  <2>4. /\ Len(Words(l)) = Cardinality(Begins(l))
        /\ \A k \in Begins(l) : Words(l)[Rank(l, k)] = WordAt(l, k)
    BY <2>1, WordsLaws
  <2> QED BY <2>1, <2>2, <2>3, <2>4
<1>3. Begins(l) # {}
  OBVIOUS
<1> HIDE DEF l, c
<1>4. /\ tokens \in Seq(Nat) /\ m \in 1..(MAX_ARGS - 1)
      /\ Tokens(l, m) /\ input = Cut(l, a, s)
      /\ ampersand = -1 /\ end = -1 /\ pipe \in Int /\ LastBar(pipe, l, m - 1)
  BY <1>1, <1>3 DEF Splitting
<1>5. m \in Nat \ {0} /\ m < MAX_ARGS /\ m \in 1..m /\ 1 \in 1..m
  BY <1>4 DEF LineAssumption
<1>6. /\ \A k \in 1..m : tokens[k] \in Begins(l) /\ Rank(l, tokens[k]) = k
      /\ \A x \in Begins(l) : x >= a
  BY <1>4, <1>5 DEF Tokens
<1>7. s \in Begins(l) /\ Rank(l, s) = m /\ a \in Begins(l) /\ a <= s
  BY <1>5, <1>6
<1>8. a \in 1..s /\ s \in 1..Len(l)
  BY <1>2, <1>7
<1> HIDE DEF m, a, s
<1>9. /\ z \in (s + 1)..(Len(l) + 1) /\ EndsBefore(l, s, z)
      /\ z = Len(l) + 1 \/ z \in Begins(l)
      /\ \A x \in Begins(l) : x <= s \/ x >= z
      /\ token.cut = Cut(l, a, z)
      /\ Char(token.cut, z) = "0" <=> z = Len(l) + 1
  BY <1>2, <1>4, <1>7, <1>8, NextWord
<1>10. String(token.cut, s) = Words(l)[m]
  <2>1. String(Cut(l, a, z), s) = WordAt(l, s)
    BY <1>2, <1>7, <1>8, <1>9, StringLaws
  <2> QED BY <1>2, <1>7, <1>9, <2>1
<1>11. m <= c
  BY <1>2, <1>5, <1>7
<1>12. z = Len(l) + 1 => m = c
  <2> SUFFICES ASSUME z = Len(l) + 1 PROVE m = c
    OBVIOUS
  <2>1. \A x \in Begins(l) : x <= s
    BY <1>2, <1>9
  <2> QED BY <1>2, <1>7, <2>1, Ranks
<1>13. z # Len(l) + 1 => z \in Begins(l) /\ Rank(l, z) = m + 1 /\ m < c
  <2> SUFFICES ASSUME z # Len(l) + 1 PROVE z \in Begins(l) /\ Rank(l, z) = m + 1 /\ m < c
    OBVIOUS
  <2>1. z \in Begins(l) /\ s < z
    BY <1>8, <1>9
  <2>2. Rank(l, z) = m + 1
    BY <1>2, <1>7, <1>9, <2>1, Ranks
  <2> QED BY <1>2, <1>5, <2>1, <2>2
<1>14. z \in Nat
  BY <1>2, <1>8, <1>9
<1> DEFINE spl(tok) ==
      LET word == String(tok.cut, s)
          last == Char(tok.cut, tok.next) = "0"
      IN  /\ input' = tok.cut
          /\ tokens' = Append(tokens, tok.next)
          /\ pipe' = IF m > 1 /\ word = <<"BAR">> THEN m - 1 ELSE pipe
          /\ ampersand' = IF last /\ m > 1 /\ word = <<"AMP">> THEN m - 1 ELSE ampersand
          /\ end' = IF last THEN (IF ampersand' = -1 THEN m ELSE m - 1) ELSE end
          /\ parsing' = IF last \/ m + 1 = MAX_ARGS THEN "done" ELSE parsing
<1>15. spl(token)
  BY DEF split, m, s
<1>16. /\ input' = Cut(l, a, z) /\ tokens' = Append(tokens, z)
       /\ pipe' = IF m > 1 /\ Words(l)[m] = <<"BAR">> THEN m - 1 ELSE pipe
       /\ ampersand' = IF z = Len(l) + 1 /\ m > 1 /\ Words(l)[m] = <<"AMP">> THEN m - 1 ELSE -1
       /\ end' = IF z = Len(l) + 1 THEN (IF ampersand' = -1 THEN m ELSE m - 1) ELSE -1
       /\ parsing' = IF z = Len(l) + 1 \/ m + 1 = MAX_ARGS THEN "done" ELSE "split"
  <2> HIDE DEF token
  <2> QED BY <1>1, <1>4, <1>9, <1>10, <1>15
<1> HIDE DEF z, token
<1>17. /\ tokens' \in Seq(Nat) /\ Len(tokens') = m + 1 /\ tokens'[m + 1] = z
       /\ \A k \in 1..m : tokens'[k] = tokens[k]
  BY <1>4, <1>5, <1>14, <1>16 DEF m
<1>18. tokens'[1] = a
  BY <1>5, <1>17 DEF a
<1>19. pipe' \in Int /\ LastBar(pipe', l, m)
  BY <1>4, <1>5, <1>16, LastBarMoves
<1>20. m < c => z # Len(l) + 1
  BY <1>2, <1>5, <1>12
<1>21. m = c => z = Len(l) + 1
  BY <1>2, <1>5, <1>13
<1>22. /\ m \in Nat \ {0} /\ m <= c /\ m < MAX_ARGS
       /\ tokens' \in Seq(Nat) /\ Len(tokens') = m + 1
       /\ pipe' \in Int /\ LastBar(pipe', l, m)
       /\ \A x \in Begins(l) : x >= tokens'[1]
       /\ \A k \in 1..m : tokens'[k] \in Begins(l) /\ Rank(l, tokens'[k]) = k
       /\ input' = Cut(l, tokens'[1], tokens'[m + 1])
  BY <1>5, <1>6, <1>11, <1>16, <1>17, <1>18, <1>19
<1>23. m < c => /\ tokens'[m + 1] \in Begins(l) /\ Rank(l, tokens'[m + 1]) = m + 1
                /\ ampersand' = -1 /\ end' = -1
                /\ parsing' = IF m + 1 = MAX_ARGS THEN "done" ELSE "split"
  BY <1>13, <1>16, <1>17, <1>20
<1>24. m = c => /\ tokens'[m + 1] = Len(l) + 1 /\ parsing' = "done"
                /\ ampersand' = IF m > 1 /\ Words(l)[m] = <<"AMP">> THEN m - 1 ELSE -1
                /\ end' = IF ampersand' = -1 THEN m ELSE m - 1
  BY <1>16, <1>17, <1>21
<1> QED BY <1>22, <1>23, <1>24 DEF m, c, l

LEMMA SplitKeeps == ASSUME LineAssumption, LineInv, split PROVE LineInv'
<1> DEFINE l == Line(typed)
           m == Len(tokens)
           c == Len(Words(l))
<1>1. parsing = "split" /\ typed \in Seq(LineKeys) /\ typed' = typed /\ full' = full
      /\ parsing' \in {"split", "done"}
  BY DEF split, LineInv, keys
<1>2. l' = l /\ l \in Seq(LineKeys)
  BY <1>1, LineLaws
<1>3. LineAssumption
  OBVIOUS
<1>4. ASSUME ~full, parsing' = "split" PROVE Splitting(l)'
  <2>1. Begins(l) # {}
    BY <1>4, NothingToSplit
  <2>2. /\ m \in Nat \ {0} /\ m <= c /\ m < MAX_ARGS
        /\ tokens' \in Seq(Nat) /\ Len(tokens') = m + 1
        /\ pipe' \in Int /\ LastBar(pipe', l, m)
        /\ \A x \in Begins(l) : x >= tokens'[1]
        /\ \A k \in 1..m : tokens'[k] \in Begins(l) /\ Rank(l, tokens'[k]) = k
        /\ input' = Cut(l, tokens'[1], tokens'[m + 1])
        /\ m < c => /\ tokens'[m + 1] \in Begins(l) /\ Rank(l, tokens'[m + 1]) = m + 1
                    /\ ampersand' = -1 /\ end' = -1
                    /\ parsing' = IF m + 1 = MAX_ARGS THEN "done" ELSE "split"
        /\ m = c => parsing' = "done"
    BY <1>4, <2>1, WordIsSplit
  <2>3. c \in Nat
    BY <1>2, WordsLaws
  <2> HIDE DEF l, m, c
  <2>4. m < c
    BY <1>4, <2>2, <2>3
  <2>5. m + 1 < MAX_ARGS
    BY <1>3, <1>4, <2>2, <2>4 DEF LineAssumption
  <2>6. Tokens(l, Len(tokens))'
    BY <1>2, <2>2, <2>4 DEF Tokens
  <2>7. input' = Cut(l, tokens[1], tokens[Len(tokens)])'
    BY <1>2, <2>2
  <2>8. LastBar(pipe, l, Len(tokens) - 1)'
    <3>1. Len(tokens') - 1 = m
      BY <2>2
    <3> QED BY <1>2, <2>2, <3>1
  <2>9. Len(tokens') \in 1..(MAX_ARGS - 1)
    BY <1>3, <2>2, <2>5 DEF LineAssumption
  <2>10. ampersand' = -1 /\ end' = -1 /\ tokens' \in Seq(Nat) /\ pipe' \in Int
    BY <2>2, <2>4
  <2> QED BY <1>2, <2>1, <2>6, <2>7, <2>8, <2>9, <2>10 DEF Splitting
<1>5. ASSUME ~full, parsing' = "done", c < MAX_ARGS
      PROVE  Taken(input', tokens', pipe', end', ampersand', Words(l))
  <2>1. CASE Begins(l) = {}
    BY <1>5, <2>1, NothingToSplit
  <2>2. CASE Begins(l) # {}
    <3>1. /\ m \in Nat \ {0} /\ m <= c /\ m < MAX_ARGS
          /\ pipe' \in Int /\ LastBar(pipe', l, m)
          /\ \A x \in Begins(l) : x >= tokens'[1]
          /\ \A k \in 1..m : tokens'[k] \in Begins(l) /\ Rank(l, tokens'[k]) = k
          /\ input' = Cut(l, tokens'[1], tokens'[m + 1])
          /\ m < c => parsing' = IF m + 1 = MAX_ARGS THEN "done" ELSE "split"
          /\ m = c => /\ tokens'[m + 1] = Len(l) + 1
                      /\ ampersand' = IF m > 1 /\ Words(l)[m] = <<"AMP">> THEN m - 1 ELSE -1
                      /\ end' = IF ampersand' = -1 THEN m ELSE m - 1
      BY <1>5, <2>2, WordIsSplit
    <3>2. c \in Nat
      BY <1>2, WordsLaws
    <3> HIDE DEF l, m, c
    <3>3. m = c
      <4> SUFFICES ASSUME m < c PROVE FALSE
        BY <3>1, <3>2
      <4>1. m + 1 = MAX_ARGS
        BY <1>5, <3>1
      <4> QED BY <1>3, <1>5, <3>1, <3>2, <4>1 DEF LineAssumption
    <3>4. /\ \A k \in 1..c : tokens'[k] \in Begins(l) /\ Rank(l, tokens'[k]) = k
          /\ \A x \in Begins(l) : x >= tokens'[1]
          /\ input' = Cut(l, tokens'[1], Len(l) + 1)
          /\ LastBar(pipe', l, c) /\ pipe' \in Int
          /\ ampersand' = IF c > 1 /\ Words(l)[c] = <<"AMP">> THEN c - 1 ELSE -1
          /\ end' = IF ampersand' = -1 THEN c ELSE c - 1
      BY <3>1, <3>3
    <3> QED BY <1>2, <1>3, <2>2, <3>4, AllTaken DEF c
  <2> QED BY <2>1, <2>2
<1>6. ParsedAsTyped'
  <2> SUFFICES ASSUME parsing' = "done", ~full, c < MAX_ARGS
               PROVE  TakenFor(Words(l))'
    BY <1>1, <1>2 DEF ParsedAsTyped
  <2>1. Taken(input', tokens', pipe', end', ampersand', Words(l))
    BY <1>5
  <2>2. Words(l)' = Words(l)
    BY <1>2
  <2> HIDE DEF l
  <2> QED BY <2>1, <2>2 DEF TakenFor, Taken
<1> HIDE DEF l
<1>7. ~full' /\ parsing' = "split" => Splitting(Line(typed))'
  BY <1>1, <1>4 DEF l
<1> QED BY <1>1, <1>6, <1>7 DEF LineInv

\* Whatever was erased and however many blanks there are, scanfNoPrint() and
\* processInput() of shell.c find in a line, by strstrip() and strtok() of libc.c,
\* the words that were typed, the place of the last "|" and a final "&": for every
\* size of the buffer, every MAX_ARGS and every number of keys.
THEOREM LinesAreParsed == ASSUME LineAssumption PROVE LineSpec => []ParsedAsTyped
<1>1. LineInit => LineInv
  BY LineBegun
<1>2. LineInv /\ [LineNext]_lineVars => LineInv'
  <2> SUFFICES ASSUME LineInv, [LineNext]_lineVars PROVE LineInv'
    OBVIOUS
  <2>1. CASE getChar
    BY <2>1, KeyKeeps
  <2>2. CASE enter
    BY <2>2, EnterKeeps
  <2>3. CASE processInput
    BY <2>3, InputKeeps
  <2>4. CASE split
    BY <2>4, SplitKeeps
  <2>5. CASE UNCHANGED lineVars
    <3>1. UNCHANGED <<input, tokens, pipe, end, ampersand, parsing, typed, full>>
      BY <2>5 DEF lineVars
    <3> QED BY <3>1 DEF LineInv, ParsedAsTyped, TakenFor, Splitting, Tokens
  <2> QED BY <2>1, <2>2, <2>3, <2>4, <2>5 DEF LineNext
<1>3. LineInv => ParsedAsTyped
  BY DEF LineInv
<1> QED BY <1>1, <1>2, <1>3, PTL DEF LineSpec
=============================================================================
