--------------------------- MODULE AllocatorProofs ---------------------------
(***************************************************************************)
(* Proofs about the two memory managers.                                   *)
(*                                                                         *)
(* Heap4, for every size of the heap and of a header, every alignment and  *)
(* every set of requests that Heap4Assumption allows: the blocks always    *)
(* tile the heap with none of the free ones side by side, no refusal is    *)
(* false, and the manager implements Allocator.                            *)
(*                                                                         *)
(* Buddy, for every depth of the tree, size of a page and set of requests  *)
(* that BuddyAssumption allows: the marks in the tree agree with the       *)
(* blocks in use, no request is refused that there is room for, and this   *)
(* manager implements Allocator too.                                       *)
(***************************************************************************)
EXTENDS Heap4, Buddy, SequenceTheorems, FiniteSetTheorems, WellFoundedInduction, TLAPS

-----------------------------------------------------------------------------
(* Inserting a block into a list of free blocks.                           *)

\* A nonempty set of natural numbers has a smallest element.
LEMMA SmallestNumber ==
  ASSUME NEW T, T \subseteq Nat, T # {}
  PROVE  \E x \in T : \A y \in T : x <= y
<1>1. PICK x \in T : \A y \in T : ~(<<y, x>> \in OpToRel(<, Nat))
  BY NatLessThanWellFounded, WFMin
<1>2. \A y \in T : <<y, x>> \in OpToRel(<, Nat) <=> y < x
  BY DEF OpToRel
<1>3. \A y \in T : ~(y < x)
  BY <1>1, <1>2
<1>4. \A y \in T : x \in Nat /\ y \in Nat
  OBVIOUS
<1>5. \A y \in T : x <= y
  BY <1>3, <1>4
<1> QED BY <1>5

Entries(list) == {list[i] : i \in 1..Len(list)}

\* In the order of the addresses, with something between any two entries.
Gapped(list, size) ==
  \A i, j \in 1..Len(list) : i < j => list[i] + size[list[i]] < list[j]

\* A list of free blocks of these sizes, and a block that overlaps none of them.
Insertable(list, size, block) ==
  /\ list \in Seq(Address) /\ size \in [Address -> 0..HeapEnd] /\ block \in Address
  /\ Gapped(list, size)
  /\ size[block] > 0 /\ block + size[block] <= HeapEnd
  /\ \A i \in 1..Len(list) :
       /\ size[list[i]] > 0 /\ list[i] + size[list[i]] <= HeapEnd
       /\ list[i] + size[list[i]] <= block \/ block + size[block] <= list[i]

\* The loop over pxIterator stops between the entries below the block and those
\* above it.
LEMMA IteratorFacts ==
  ASSUME NEW list, NEW size, NEW block, Insertable(list, size, block)
  PROVE  LET k == Iterator(list, block)
         IN  /\ k \in 0..Len(list)
             /\ \A i \in 1..k : list[i] + size[list[i]] <= block
             /\ \A i \in (k + 1)..Len(list) : block + size[block] <= list[i]
<1> DEFINE n == Len(list)
           T == {i \in 1..(n + 1) : i = n + 1 \/ list[i] >= block}
<1>1. /\ n \in Nat /\ block \in Int
      /\ \A i \in 1..n : list[i] \in Address /\ list[i] \in Int /\ size[list[i]] \in Nat
  <2>1. /\ list \in Seq(Address) /\ size \in [Address -> 0..HeapEnd] /\ block \in Address
        /\ HeapEnd \in Nat /\ Address \subseteq Int
    BY Heap4Assumption DEF Insertable, Address
  <2>2. \A i \in 1..n : list[i] \in Address
    BY <2>1
  <2>3. \A b \in Address : size[b] \in Nat
    BY <2>1
  <2> QED BY <2>1, <2>2, <2>3
<1>2. PICK x \in T : \A y \in T : x <= y
  <2>1. T \subseteq Nat /\ n + 1 \in T
    BY <1>1
  <2> HIDE DEF T
  <2> QED BY <2>1, SmallestNumber
<1>3. \A i, j \in 1..n : i < j => list[i] < list[j]
  <2> SUFFICES ASSUME NEW i \in 1..n, NEW j \in 1..n, i < j PROVE list[i] < list[j]
    OBVIOUS
  <2>1. list[i] + size[list[i]] < list[j]
    BY DEF Insertable, Gapped
  <2> QED BY <1>1, <2>1
<1>4. IteratorStops(list, block, x - 1)
  <2>1. x - 1 \in 0..n
    BY <1>1, <1>2
  <2>2. \A i \in 1..(x - 1) : list[i] < block
    <3> SUFFICES ASSUME NEW i \in 1..(x - 1), ~(list[i] < block) PROVE FALSE
      OBVIOUS
    <3>1. i \in T
      BY <1>1, <2>1
    <3> QED BY <1>1, <1>2, <3>1
  <2>3. x - 1 < n => list[(x - 1) + 1] >= block
    BY <1>1, <1>2
  <2> QED BY <2>1, <2>2, <2>3 DEF IteratorStops
<1> DEFINE k == Iterator(list, block)
<1>5. k \in 0..n /\ IteratorStops(list, block, k)
  <2>1. x - 1 \in 0..n
    BY <1>1, <1>2
  <2> QED BY <1>4, <2>1 DEF Iterator
<1> HIDE DEF k
<1>6. \A i \in 1..k : list[i] + size[list[i]] <= block
  <2> SUFFICES ASSUME NEW i \in 1..k PROVE list[i] + size[list[i]] <= block
    OBVIOUS
  <2>1. i \in 1..n /\ list[i] < block
    BY <1>1, <1>5 DEF IteratorStops
  <2>2. /\ list[i] + size[list[i]] <= block \/ block + size[block] <= list[i]
        /\ size[block] \in Nat
    BY <2>1 DEF Insertable
  <2> QED BY <1>1, <2>1, <2>2
<1>7. \A i \in (k + 1)..n : block + size[block] <= list[i]
  <2> SUFFICES ASSUME NEW i \in (k + 1)..n PROVE block + size[block] <= list[i]
    OBVIOUS
  <2>1. k + 1 \in 1..n /\ i \in 1..n /\ list[k + 1] >= block
    BY <1>1, <1>5 DEF IteratorStops
  <2>2. list[i] >= block
    BY <1>1, <1>3, <2>1
  <2>3. /\ list[i] + size[list[i]] <= block \/ block + size[block] <= list[i]
        /\ size[block] \in Nat /\ size[list[i]] > 0
    BY <2>1 DEF Insertable
  <2> QED BY <1>1, <2>1, <2>2, <2>3
<1> QED BY <1>5, <1>6, <1>7 DEF k

\* prvInsertBlockIntoFreeList makes one free block out of the inserted one and of
\* the entries it touches, from a to e, and leaves the others as they are.
Inserts(list, size, block, a, e) ==
  LET list2 == InsertedList(list, size, block)
      size2 == InsertedSizes(list, size, block)
      end == block + size[block]
  IN  /\ a \in Address /\ e \in 1..HeapEnd /\ a <= block /\ end <= e
      /\ a = block \/ (a \in Entries(list) /\ a + size[a] = block)
      /\ e = end \/ (end \in Entries(list) /\ e = end + size[end])
      /\ size2 = [size EXCEPT ![a] = e - a]
      /\ list2 \in Seq(Address)
      /\ Entries(list2) = {x \in Entries(list) : x < a \/ e <= x} \union {a}
      /\ Gapped(list2, size2)

LEMMA InsertFacts ==
  ASSUME NEW list, NEW size, NEW block, Insertable(list, size, block)
  PROVE  \E a, e \in Int : Inserts(list, size, block, a, e)
<1> DEFINE n == Len(list)
           k == Iterator(list, block)
           end == block + size[block]
           P == JoinsPrevious(list, size, block, k)
           N == JoinsNext(list, size, block, k)
           list2 == InsertedList(list, size, block)
           size2 == InsertedSizes(list, size, block)
<1>1. /\ n \in Nat /\ list \in Seq(Address) /\ size \in [Address -> 0..HeapEnd]
      /\ block \in Address /\ block \in Int /\ size[block] \in Nat /\ size[block] > 0
      /\ end <= HeapEnd /\ HeapEnd \in Nat /\ block >= 0
      /\ \A i \in 1..n : /\ list[i] \in Address /\ list[i] \in Int /\ list[i] >= 0
                         /\ size[list[i]] \in Nat
                         /\ size[list[i]] > 0 /\ list[i] + size[list[i]] <= HeapEnd
      /\ \A i, j \in 1..n : i < j => list[i] + size[list[i]] < list[j]
  <2>1. /\ list \in Seq(Address) /\ size \in [Address -> 0..HeapEnd] /\ block \in Address
        /\ HeapEnd \in Nat /\ Address \subseteq Nat
    BY Heap4Assumption DEF Insertable, Address
  <2>2. \A i \in 1..n : list[i] \in Address
    BY <2>1
  <2>3. \A b \in Address : size[b] \in Nat
    BY <2>1
  <2>4. \A i \in 1..n : size[list[i]] > 0 /\ list[i] + size[list[i]] <= HeapEnd
    BY DEF Insertable
  <2>5. /\ size[block] > 0 /\ end <= HeapEnd
        /\ \A i, j \in 1..n : i < j => list[i] + size[list[i]] < list[j]
    BY DEF Insertable, Gapped
  <2>6. /\ n \in Nat /\ block \in Int /\ size[block] \in Nat /\ block >= 0
    BY <2>1, <2>3
  <2>7. ASSUME NEW i \in 1..n
        PROVE  /\ list[i] \in Address /\ list[i] \in Int /\ list[i] >= 0
               /\ size[list[i]] \in Nat
               /\ size[list[i]] > 0 /\ list[i] + size[list[i]] <= HeapEnd
    <3>1. list[i] \in Address
      BY <2>2
    <3>2. list[i] \in Nat /\ size[list[i]] \in Nat
      BY <2>1, <2>3, <3>1
    <3> HIDE DEF n
    <3> QED BY <2>4, <3>1, <3>2
  <2> HIDE DEF n, end, k, P, N, list2, size2
  <2> QED BY <2>1, <2>5, <2>6, <2>7
<1>2. /\ k \in 0..n
      /\ \A i \in 1..k : list[i] + size[list[i]] <= block
      /\ \A i \in (k + 1)..n : end <= list[i]
  BY IteratorFacts
<1> HIDE DEF k
<1>3. P <=> k > 0 /\ list[k] + size[list[k]] = block
  BY DEF JoinsPrevious
<1>4. N <=> k < n /\ end = list[k + 1]
  <2>1. Merged(list, size, block, k) + MergedSize(list, size, block, k) = end
    <3>1. CASE P
      BY <1>1, <1>2, <1>3, <3>1 DEF Merged, MergedSize
    <3>2. CASE ~P
      BY <3>2 DEF Merged, MergedSize
    <3> QED BY <3>1, <3>2
  <2> QED BY <2>1 DEF JoinsNext
<1> DEFINE a == IF P THEN list[k] ELSE block
           e == IF N THEN list[k + 1] + size[list[k + 1]] ELSE end
<1>5. size2 = [size EXCEPT ![a] = e - a]
  <2>1. Merged(list, size, block, k) = a
    BY DEF Merged
  <2>2. MergedSize(list, size, block, k) = end - a
    <3>1. CASE P
      BY <1>1, <1>2, <1>3, <3>1 DEF MergedSize
    <3>2. CASE ~P
      BY <1>1, <3>2 DEF MergedSize
    <3> QED BY <3>1, <3>2
  <2>3. a \in Int
    BY <1>1, <1>2, <1>3
  <2>4. (end - a) + (IF N THEN size[list[k + 1]] ELSE 0) = e - a
    <3>1. CASE N
      <4>1. k + 1 \in 1..n /\ list[k + 1] = end
        BY <1>1, <1>2, <1>4, <3>1
      <4>2. size[list[k + 1]] \in Nat /\ end \in Int
        BY <1>1, <4>1
      <4> QED BY <2>3, <3>1, <4>1, <4>2
    <3>2. CASE ~N
      <4>1. end \in Int
        BY <1>1
      <4> QED BY <2>3, <3>2, <4>1
    <3> QED BY <3>1, <3>2
  <2>5. size2 = [size EXCEPT ![Merged(list, size, block, k)] =
                   MergedSize(list, size, block, k) + (IF N THEN size[list[k + 1]] ELSE 0)]
    BY DEF InsertedSizes, k
  <2> QED BY <2>1, <2>2, <2>4, <2>5
<1>6. list2 = CASE ~P /\ ~N -> [i \in 1..(n + 1) |-> IF i <= k THEN list[i]
                                     ELSE IF i = k + 1 THEN block ELSE list[i - 1]]
                [] P /\ ~N -> list
                [] ~P /\ N -> [list EXCEPT ![k + 1] = block]
                [] P /\ N -> [i \in 1..(n - 1) |-> IF i <= k THEN list[i] ELSE list[i + 1]]
  BY DEF InsertedList, k
<1> HIDE DEF P, N, size2, list2
<1>7. /\ a \in Address /\ a \in Int /\ a <= block /\ e \in 1..HeapEnd /\ end <= e
      /\ a = block \/ (a \in Entries(list) /\ a + size[a] = block)
      /\ e = end \/ (end \in Entries(list) /\ e = end + size[end])
  <2>1. a \in Address /\ a \in Int /\ a <= block
    BY <1>1, <1>2, <1>3
  <2>2. a = block \/ (a \in Entries(list) /\ a + size[a] = block)
    BY <1>1, <1>2, <1>3 DEF Entries
  <2>3. CASE N
    <3>1. k + 1 \in 1..n /\ list[k + 1] = end
      BY <1>1, <1>2, <1>4, <2>3
    <3>2. end \in Entries(list)
      BY <3>1 DEF Entries
    <3>3. e = end + size[end]
      BY <2>3, <3>1
    <3>4. e \in Int /\ end <= e /\ e <= HeapEnd /\ 1 <= e
      BY <1>1, <3>1, <3>3
    <3> QED BY <1>1, <2>1, <2>2, <3>2, <3>3, <3>4
  <2>4. CASE ~N
    <3>1. e = end /\ e \in 1..HeapEnd /\ end <= e
      BY <1>1, <2>4
    <3> QED BY <2>1, <2>2, <3>1
  <2> QED BY <2>3, <2>4
\* The entries 1..lo are below the new one, and those after hi above it.
<1> DEFINE lo == IF P THEN k - 1 ELSE k
           hi == IF N THEN k + 1 ELSE k
<1>8. /\ lo \in 0..n /\ hi \in 0..n /\ lo <= hi
      /\ \A i \in 1..lo : list[i] + size[list[i]] < a
      /\ \A i \in (hi + 1)..n : e < list[i]
      /\ \A i \in (lo + 1)..hi : a <= list[i] /\ list[i] < e
  <2>1. lo \in 0..n /\ hi \in 0..n /\ lo <= hi
    BY <1>1, <1>2, <1>3, <1>4
  <2>2. ASSUME NEW i \in 1..lo PROVE list[i] + size[list[i]] < a
    <3>1. CASE P
      BY <1>1, <1>2, <1>3, <3>1
    <3>2. CASE ~P /\ i < k
      <4>0. i \in 1..n /\ k \in 1..n /\ k \in 1..k
        BY <1>1, <1>2, <3>2
      <4>1. list[i] + size[list[i]] < list[k] /\ list[k] + size[list[k]] <= block
        BY <1>1, <1>2, <3>2, <4>0
      <4>2. /\ i \in 1..n /\ k \in 1..n /\ a = block
            /\ list[i] \in Int /\ size[list[i]] \in Int /\ list[k] \in Int /\ size[list[k]] \in Nat
        BY <1>1, <1>2, <3>2
      <4> QED BY <1>1, <4>1, <4>2
    <3>3. CASE ~P /\ i = k
      BY <1>1, <1>2, <1>3, <3>3
    <3> QED BY <1>2, <3>1, <3>2, <3>3
  <2>3. ASSUME NEW i \in (hi + 1)..n PROVE e < list[i]
    <3>1. CASE N
      <4>1. k + 1 \in 1..n /\ i \in 1..n /\ k + 1 < i
        BY <1>1, <1>2, <1>4, <3>1
      <4> QED BY <1>1, <3>1, <4>1
    <3>2. CASE ~N /\ i > k + 1
      <4>0. k + 1 \in 1..n /\ k + 1 \in (k + 1)..n /\ i \in 1..n
        BY <1>1, <1>2, <3>2
      <4>1. list[k + 1] + size[list[k + 1]] < list[i] /\ end <= list[k + 1]
        BY <1>1, <1>2, <3>2, <4>0
      <4>2. list[k + 1] < list[i]
        <5>1. /\ list[k + 1] \in Int /\ list[i] \in Int
              /\ size[list[k + 1]] \in Nat /\ size[list[k + 1]] > 0
          BY <1>1, <4>0
        <5> QED BY <4>1, <5>1
      <4>3. e = end /\ end \in Int /\ list[k + 1] \in Int /\ list[i] \in Int
        BY <1>1, <3>2, <4>0
      <4> QED BY <4>1, <4>2, <4>3
    <3>3. CASE ~N /\ i = k + 1
      <4>1. k + 1 \in (k + 1)..n /\ k < n /\ k + 1 \in 1..n
        BY <1>1, <1>2, <3>3
      <4>2. end <= list[k + 1] /\ end # list[k + 1]
        BY <1>2, <1>4, <3>3, <4>1
      <4>3. end \in Int /\ list[k + 1] \in Int /\ e = end
        BY <1>1, <3>3, <4>1
      <4>4. end < list[k + 1]
        BY <4>2, <4>3
      <4> QED BY <3>3, <4>3, <4>4
    <3> QED BY <1>2, <3>1, <3>2, <3>3
  <2>4. ASSUME NEW i \in (lo + 1)..hi PROVE a <= list[i] /\ list[i] < e
    <3>1. i \in {k, k + 1} /\ i \in 1..n /\ (i = k => P) /\ (i = k + 1 => N)
      BY <1>1, <1>2, <1>3, <1>4
    <3>2. CASE i = k
      BY <1>1, <1>2, <1>3, <1>7, <3>1, <3>2
    <3>3. CASE i = k + 1
      <4>1. N /\ i \in 1..n /\ list[i] = end /\ e = end + size[end]
        BY <1>4, <3>1, <3>3
      <4>2. end \in Int /\ size[end] \in Int /\ size[end] > 0 /\ block < end /\ block \in Int
        BY <1>1, <4>1
      <4>3. a <= block /\ a \in Int
        BY <1>7
      <4> HIDE DEF a, e
      <4> QED BY <4>1, <4>2, <4>3
    <3> QED BY <3>1, <3>2, <3>3
  <2> QED BY <2>1, <2>2, <2>3, <2>4
<1> DEFINE m == (lo + 1) + (n - hi)
<1>9. /\ list2 \in Seq(Address) /\ Len(list2) = m
      /\ \A j \in 1..m : list2[j] = IF j <= lo THEN list[j]
                                    ELSE IF j = lo + 1 THEN a ELSE list[(j - (lo + 1)) + hi]
  <2>1. CASE ~P /\ ~N
    <3>1. list2 = [i \in 1..(n + 1) |-> IF i <= k THEN list[i]
                                        ELSE IF i = k + 1 THEN block ELSE list[i - 1]]
      BY <1>6, <2>1
    <3>2. \A i \in 1..(n + 1) : list2[i] \in Address
      BY <1>1, <1>2, <3>1
    <3>3. list2 \in Seq(Address) /\ Len(list2) = n + 1
      BY <1>1, <3>1, <3>2
    <3>4. m = n + 1 /\ lo = k /\ hi = k /\ a = block
      BY <1>1, <1>2, <2>1
    <3>5. \A j \in 1..m : j > k + 1 => (j - (k + 1)) + k = j - 1
      BY <1>1, <1>2
    <3> QED BY <1>1, <1>2, <3>1, <3>3, <3>4, <3>5
  <2>2. CASE P /\ ~N
    <3>1. list2 = list
      BY <1>6, <2>2
    <3>2. m = n /\ lo = k - 1 /\ hi = k /\ a = list[k] /\ k \in 1..n
      BY <1>1, <1>2, <1>3, <2>2
    <3>3. \A j \in 1..m : (j - (lo + 1)) + hi = j
      BY <1>1, <3>2
    <3> QED BY <1>1, <3>1, <3>2, <3>3
  <2>3. CASE ~P /\ N
    <3>1. list2 = [list EXCEPT ![k + 1] = block]
      BY <1>6, <2>3
    <3>2. m = n /\ lo = k /\ hi = k + 1 /\ a = block /\ k + 1 \in 1..n
      BY <1>1, <1>2, <1>4, <2>3
    <3>3. /\ list2 \in Seq(Address) /\ Len(list2) = n
          /\ \A j \in 1..n : list2[j] = IF j = k + 1 THEN block ELSE list[j]
      BY <1>1, <3>1, <3>2
    <3>4. \A j \in 1..m : (j - (lo + 1)) + hi = j
      BY <1>1, <1>2, <3>2
    <3>5. ASSUME NEW j \in 1..m
          PROVE  list2[j] = IF j <= lo THEN list[j]
                            ELSE IF j = lo + 1 THEN a ELSE list[(j - (lo + 1)) + hi]
      <4>1. (j - (lo + 1)) + hi = j /\ j \in 1..n
        BY <3>2, <3>4
      <4>2. list2[j] = IF j = lo + 1 THEN a ELSE list[j]
        BY <3>2, <3>3, <4>1
      <4>3. ~(j <= lo /\ j = lo + 1)
        BY <1>2, <3>2
      <4> QED BY <4>1, <4>2, <4>3
    <3> QED BY <3>2, <3>3, <3>5
  <2>4. CASE P /\ N
    <3>1. list2 = [i \in 1..(n - 1) |-> IF i <= k THEN list[i] ELSE list[i + 1]]
      BY <1>6, <2>4
    <3>2. m = n - 1 /\ lo = k - 1 /\ hi = k + 1 /\ a = list[k] /\ k \in 1..n /\ k + 1 \in 1..n
      BY <1>1, <1>2, <1>3, <1>4, <2>4
    <3>3. \A i \in 1..(n - 1) : list2[i] \in Address
      BY <1>1, <1>2, <3>1
    <3>4. list2 \in Seq(Address) /\ Len(list2) = n - 1
      BY <1>1, <3>1, <3>2, <3>3
    <3>5. \A j \in 1..m : (j - (lo + 1)) + hi = j + 1
      BY <1>1, <1>2, <3>2
    <3>6. ASSUME NEW j \in 1..m
          PROVE  list2[j] = IF j <= lo THEN list[j]
                            ELSE IF j = lo + 1 THEN a ELSE list[(j - (lo + 1)) + hi]
      <4>1. (j - (lo + 1)) + hi = j + 1 /\ j \in 1..(n - 1)
        BY <3>2, <3>5
      <4>2. list2[j] = IF j <= k THEN list[j] ELSE list[j + 1]
        BY <3>1, <4>1
      <4>3. j <= k <=> j <= lo \/ j = lo + 1
        BY <1>2, <3>2
      <4>4. j = lo + 1 => list[j] = a
        BY <1>2, <3>2
      <4> QED BY <4>1, <4>2, <4>3, <4>4
    <3> HIDE DEF a, lo, hi, m
    <3> QED BY <3>2, <3>4, <3>6
  <2> QED BY <2>1, <2>2, <2>3, <2>4
<1> HIDE DEF a, e, lo, hi
<1>10. Entries(list2) = {x \in Entries(list) : x < a \/ e <= x} \union {a}
  <2>1. ASSUME NEW j \in 1..m
        PROVE  list2[j] \in {x \in Entries(list) : x < a \/ e <= x} \union {a}
    <3>1. CASE j <= lo
      <4>1. j \in 1..n /\ j \in 1..lo /\ list2[j] = list[j]
        BY <1>1, <1>8, <1>9, <3>1
      <4>2. list[j] < a
        <5>1. list[j] \in Int /\ size[list[j]] \in Int /\ size[list[j]] > 0
          BY <1>1, <4>1
        <5>2. list[j] + size[list[j]] < a /\ a \in Int
          BY <1>7, <1>8, <4>1
        <5> QED BY <5>1, <5>2
      <4> QED BY <4>1, <4>2 DEF Entries
    <3>2. CASE j = lo + 1
      BY <1>8, <1>9, <3>2
    <3>3. CASE j > lo + 1
      <4>0. lo \in Int /\ hi \in Nat /\ lo >= 0 /\ j \in Int /\ j <= m /\ ~(j <= lo) /\ j # lo + 1
        BY <1>1, <1>8, <1>9, <3>3
      <4>1. (j - (lo + 1)) + hi \in (hi + 1)..n /\ (j - (lo + 1)) + hi \in 1..n
        BY <1>1, <4>0, <3>3
      <4>2. list2[j] = list[(j - (lo + 1)) + hi]
        BY <1>9, <4>0
      <4> DEFINE i == (j - (lo + 1)) + hi
      <4>3. i \in 1..n /\ e < list[i]
        BY <1>8, <4>1
      <4> HIDE DEF i
      <4>4. e <= list[i] /\ list[i] \in Entries(list)
        BY <1>1, <1>7, <4>3 DEF Entries
      <4> QED BY <4>2, <4>4 DEF i
    <3> QED BY <1>8, <3>1, <3>2, <3>3
  <2>2. a \in Entries(list2)
    <3>1. lo + 1 \in 1..m /\ ~(lo + 1 <= lo)
      BY <1>1, <1>8
    <3>2. list2[lo + 1] = a
      BY <1>9, <3>1
    <3> QED BY <1>9, <3>1, <3>2 DEF Entries
  <2>3. ASSUME NEW i \in 1..n, list[i] < a \/ e <= list[i] PROVE list[i] \in Entries(list2)
    <3>1. i <= lo \/ i > hi
      BY <1>1, <1>7, <1>8, <2>3
    <3>2. CASE i <= lo
      <4>1. i \in 1..m /\ list2[i] = list[i]
        BY <1>1, <1>8, <1>9, <3>2
      <4> QED BY <1>9, <4>1 DEF Entries
    <3>3. CASE i > hi
      <4> DEFINE j == (i - hi) + (lo + 1)
      <4>1. j \in 1..m /\ j > lo + 1 /\ (j - (lo + 1)) + hi = i
        BY <1>1, <1>8, <3>3
      <4>2. list2[j] = list[i]
        BY <1>8, <1>9, <4>1
      <4> QED BY <1>9, <4>1, <4>2 DEF Entries
    <3> QED BY <3>1, <3>2, <3>3
  <2> QED BY <1>9, <2>1, <2>2, <2>3 DEF Entries
<1>11. Gapped(list2, size2)
  <2> SUFFICES ASSUME NEW i \in 1..m, NEW j \in 1..m, i < j
               PROVE  list2[i] + size2[list2[i]] < list2[j]
    BY <1>9 DEF Gapped
  <2>1. size2[a] = e - a /\ \A x \in Address \ {a} : size2[x] = size[x]
    BY <1>1, <1>5, <1>7
  <2>2. CASE i <= lo
    <3>0. i \in 1..n /\ i \in 1..lo /\ list2[i] = list[i]
      BY <1>1, <1>8, <1>9, <2>2
    <3>1. i \in 1..n /\ list2[i] = list[i] /\ list[i] + size[list[i]] < a /\ list[i] # a
      <4>1. list[i] + size[list[i]] < a
        BY <1>8, <3>0
      <4>2. list[i] \in Int /\ size[list[i]] \in Nat /\ size[list[i]] > 0 /\ a \in Int
        BY <1>1, <1>7, <3>0
      <4> QED BY <3>0, <4>1, <4>2
    <3>2. list2[i] + size2[list2[i]] = list[i] + size[list[i]]
      BY <1>1, <2>1, <3>1
    <3>3. CASE j <= lo
      BY <1>1, <1>8, <1>9, <3>1, <3>2, <3>3
    <3>4. CASE j = lo + 1
      BY <1>8, <1>9, <3>1, <3>2, <3>4
    <3>5. CASE j > lo + 1
      <4>1. /\ (j - (lo + 1)) + hi \in (hi + 1)..n /\ (j - (lo + 1)) + hi \in 1..n
            /\ list2[j] = list[(j - (lo + 1)) + hi]
        BY <1>1, <1>8, <1>9, <3>5
      <4>2. i < (j - (lo + 1)) + hi
        BY <1>1, <1>8, <2>2, <4>1
      <4> QED BY <1>1, <3>1, <3>2, <4>1, <4>2
    <3> QED BY <1>8, <3>3, <3>4, <3>5
  <2>3. CASE i = lo + 1
    <3>1. list2[i] = a /\ a + (e - a) = e
      <4>1. ~(i <= lo)
        BY <1>8, <2>3
      <4> QED BY <1>7, <1>9, <2>3, <4>1
    <3>2. /\ (j - (lo + 1)) + hi \in (hi + 1)..n
          /\ list2[j] = list[(j - (lo + 1)) + hi]
      BY <1>1, <1>8, <1>9, <2>3
    <3> QED BY <1>8, <2>1, <3>1, <3>2
  <2>4. CASE i > lo + 1
    <3>1. /\ (i - (lo + 1)) + hi \in (hi + 1)..n /\ (i - (lo + 1)) + hi \in 1..n
          /\ list2[i] = list[(i - (lo + 1)) + hi]
          /\ (j - (lo + 1)) + hi \in 1..n
          /\ list2[j] = list[(j - (lo + 1)) + hi]
          /\ (i - (lo + 1)) + hi < (j - (lo + 1)) + hi
      <4>1. i \in 1..m /\ j \in 1..m /\ i < j /\ j > lo + 1 /\ ~(i <= lo) /\ ~(j <= lo)
        BY <1>1, <1>8, <2>4
      <4>2. /\ list2[i] = list[(i - (lo + 1)) + hi] /\ list2[j] = list[(j - (lo + 1)) + hi]
        BY <1>8, <1>9, <2>4, <4>1
      <4> QED BY <1>1, <1>8, <2>4, <4>1, <4>2
    <3>2. list2[i] # a
      <4>1. e < list2[i] /\ a < e
        <5>1. e < list[(i - (lo + 1)) + hi]
          BY <1>8, <3>1
        <5> QED BY <1>1, <1>7, <3>1, <5>1
      <4> QED BY <1>1, <1>7, <3>1, <4>1
    <3>3. list2[i] + size2[list2[i]] = list2[i] + size[list2[i]]
      BY <1>1, <2>1, <3>1, <3>2
    <3> QED BY <1>1, <3>1, <3>3
  <2> QED BY <1>8, <2>2, <2>3, <2>4
<1>12. Inserts(list, size, block, a, e)
  BY <1>5, <1>7, <1>9, <1>10, <1>11 DEF Inserts, list2, size2
<1> QED BY <1>7, <1>12

-----------------------------------------------------------------------------
(* Blocks that tile the heap.                                              *)

\* BlocksTile, of any blocks and sizes.
Tiles(B, size) ==
  /\ B \subseteq Address /\ size \in [Address -> 0..HeapEnd] /\ 0 \in B
  /\ \A b \in B : size[b] >= xHeapStructSize
  /\ \A b \in B : b + size[b] = HeapEnd \/ b + size[b] \in B
  /\ \A b, c \in B : b < c => b + size[b] <= c

\* The facts about a block that arithmetic needs.
LEMMA TileFacts ==
  ASSUME NEW B, NEW size, Tiles(B, size), NEW b \in B
  PROVE  /\ b \in Address /\ b \in Int /\ 0 <= b /\ b < HeapEnd /\ HeapEnd \in Int
         /\ size[b] \in Int /\ xHeapStructSize \in Int /\ 0 < xHeapStructSize
         /\ xHeapStructSize <= size[b] /\ b + size[b] <= HeapEnd
<1>1. b \in Address /\ size[b] \in 0..HeapEnd /\ xHeapStructSize <= size[b]
  BY DEF Tiles
<1>2. b + size[b] = HeapEnd \/ b + size[b] \in Address
  BY DEF Tiles
<1> QED BY Heap4Assumption, <1>1, <1>2 DEF Address

\* Blocks from a to the next boundary e may be made one.
LEMMA JoinTiles ==
  ASSUME NEW B, NEW size, Tiles(B, size),
         NEW a \in B, NEW e \in Int, a < e, e = HeapEnd \/ e \in B
  PROVE  Tiles({x \in B : x < a \/ e <= x} \union {a}, [size EXCEPT ![a] = e - a])
<1> DEFINE B2 == {x \in B : x < a \/ e <= x} \union {a}
           size2 == [size EXCEPT ![a] = e - a]
<1>1. \A b \in B : /\ b \in Address /\ b \in Int /\ 0 <= b /\ b < HeapEnd /\ HeapEnd \in Int
                   /\ size[b] \in Int /\ xHeapStructSize \in Int /\ 0 < xHeapStructSize
                   /\ xHeapStructSize <= size[b] /\ b + size[b] <= HeapEnd
  BY TileFacts
<1>2. a + size[a] <= e /\ e <= HeapEnd
  BY <1>1 DEF Tiles
<1>3. /\ size2 \in [Address -> 0..HeapEnd] /\ size2[a] = e - a
      /\ \A b \in B2 \ {a} : size2[b] = size[b]
  BY <1>1, <1>2 DEF Tiles
<1>4. B2 \subseteq B /\ a \in B2 /\ \A b \in B2 \ {a} : b < a \/ e <= b
  OBVIOUS
<1>5. 0 \in B2
  BY <1>1 DEF Tiles
<1>6. ASSUME NEW b \in B2 PROVE size2[b] >= xHeapStructSize
  BY <1>1, <1>2, <1>3, <1>4
<1>7. ASSUME NEW b \in B2 PROVE b + size2[b] = HeapEnd \/ b + size2[b] \in B2
  <2>1. CASE b = a
    <3>1. b + size2[b] = e
      BY <1>1, <1>3, <2>1
    <3> QED BY <1>1, <3>1
  <2>2. CASE b < a
    <3>1. b + size2[b] = b + size[b] /\ b + size[b] <= a
      BY <1>1, <1>3, <1>4, <2>2 DEF Tiles
    <3>2. b + size[b] \in B
      BY <1>1, <1>4, <3>1 DEF Tiles
    <3> QED BY <1>1, <3>1, <3>2
  <2>3. CASE b # a /\ e <= b
    <3>1. b + size2[b] = b + size[b] /\ e <= b + size[b]
      BY <1>1, <1>3, <1>4, <2>3
    <3>2. b + size[b] = HeapEnd \/ b + size[b] \in B
      BY <1>4 DEF Tiles
    <3> QED BY <3>1, <3>2
  <2> QED BY <1>4, <2>1, <2>2, <2>3
<1>8. ASSUME NEW b \in B2, NEW c \in B2, b < c PROVE b + size2[b] <= c
  <2>1. CASE b = a
    BY <1>1, <1>3, <1>4, <1>8, <2>1
  <2>2. CASE b # a
    <3>1. b + size[b] <= c
      BY <1>4, <1>8 DEF Tiles
    <3> QED BY <1>3, <2>2, <3>1
  <2> QED BY <2>1, <2>2
<1> HIDE DEF B2, size2
<1>9. B2 \subseteq Address
  BY <1>1, <1>4
<1>10. Tiles(B2, size2)
  BY <1>3, <1>5, <1>6, <1>7, <1>8, <1>9 DEF Tiles
<1> QED BY <1>10 DEF B2, size2

\* A block may be cut in two, if each part has room for a header.
LEMMA SplitTiles ==
  ASSUME NEW B, NEW size, Tiles(B, size),
         NEW b \in B, NEW w \in Int, w >= xHeapStructSize, size[b] - w >= xHeapStructSize
  PROVE  /\ Tiles(B \union {b + w}, [size EXCEPT ![b + w] = size[b] - w, ![b] = w])
         /\ b + w \in Address /\ b + w \notin B
<1> DEFINE n == b + w
           B2 == B \union {n}
           size2 == [size EXCEPT ![n] = size[b] - w, ![b] = w]
<1>1. \A c \in B : /\ c \in Address /\ c \in Int /\ 0 <= c /\ c < HeapEnd /\ HeapEnd \in Int
                   /\ size[c] \in Int /\ xHeapStructSize \in Int /\ 0 < xHeapStructSize
                   /\ xHeapStructSize <= size[c] /\ c + size[c] <= HeapEnd
  BY TileFacts
<1>2. n \in Address /\ n \in Int /\ b < n /\ n < b + size[b]
  BY <1>1 DEF Address
<1>3. \A c \in B : c < b => c + size[c] <= b
  BY DEF Tiles
<1>4. \A c \in B : b < c => b + size[b] <= c
  BY DEF Tiles
<1>5. n \notin B
  <2> SUFFICES ASSUME n \in B PROVE FALSE
    OBVIOUS
  <2> QED BY <1>1, <1>2, <1>4
<1>6. /\ size2 \in [Address -> 0..HeapEnd] /\ size2[b] = w /\ size2[n] = size[b] - w
      /\ \A c \in B \ {b} : size2[c] = size[c]
  BY <1>1, <1>2, <1>5 DEF Tiles
<1>7. b + size2[b] = n /\ n + size2[n] = b + size[b]
  BY <1>1, <1>2, <1>6
<1> HIDE DEF size2, n
<1>8. ASSUME NEW c \in B2 PROVE size2[c] >= xHeapStructSize
  BY <1>1, <1>6
<1>9. ASSUME NEW c \in B2 PROVE c + size2[c] = HeapEnd \/ c + size2[c] \in B2
  BY <1>6, <1>7 DEF Tiles
<1>10. ASSUME NEW c \in B2, NEW d \in B2, c < d PROVE c + size2[c] <= d
  <2>1. CASE c = b
    <3>1. d = n \/ d \in B
      OBVIOUS
    <3> QED BY <1>1, <1>2, <1>4, <1>7, <1>10, <2>1, <3>1
  <2>2. CASE c = n
    <3>1. d \in B /\ b < d
      BY <1>1, <1>2, <1>10, <2>2
    <3> QED BY <1>1, <1>2, <1>4, <1>7, <2>2, <3>1
  <2>3. CASE c \in B \ {b} /\ d = n
    <3>1. c < b
      <4> SUFFICES ASSUME b < c PROVE FALSE
        BY <1>1, <2>3
      <4> QED BY <1>1, <1>2, <1>4, <1>10, <2>3
    <3> QED BY <1>1, <1>2, <1>3, <1>6, <2>3, <3>1
  <2>4. CASE c \in B \ {b} /\ d \in B
    BY <1>6, <1>10, <2>4 DEF Tiles
  <2> QED BY <2>1, <2>2, <2>3, <2>4
<1>11. B2 \subseteq Address /\ 0 \in B2
  BY <1>1, <1>2 DEF Tiles
<1> HIDE DEF B2
<1>12. Tiles(B2, size2)
  BY <1>6, <1>8, <1>9, <1>10, <1>11 DEF Tiles
<1> QED BY <1>2, <1>5, <1>12 DEF B2, size2, n

\* Available, of any allocated blocks and sizes.
Unclaimed(A, size) == {x \in Address : \A b \in A : ~(b <= x /\ x < b + size[b])}

\* The allocated blocks are A, of sizes size; b is another block, of which some
\* bytes are allocated when the sizes are size2.
Claims(B, size, A, b, size2) ==
  /\ Tiles(B, size) /\ A \subseteq B /\ b \in B \ A
  /\ size2[b] \in 1..size[b] /\ \A c \in A : size2[c] = size[c]

\* Allocating bytes of a free block takes as many from those available.
LEMMA ClaimedBytes ==
  ASSUME NEW B, NEW size, NEW A, NEW b, NEW size2,
         Claims(B, size, A, b, size2)
  PROVE  /\ Cardinality(Unclaimed(A, size)) \in 0..HeapEnd
         /\ Cardinality(Unclaimed(A \union {b}, size2)) \in 0..HeapEnd
         /\ Cardinality(Unclaimed(A \union {b}, size2)) = Cardinality(Unclaimed(A, size)) - size2[b]
<1> DEFINE w == size2[b]
           U == Unclaimed(A, size)
           U2 == Unclaimed(A \union {b}, size2)
           C == b..(b + w - 1)
<1>0. /\ Tiles(B, size) /\ A \subseteq B /\ b \in B \ A
      /\ w \in 1..size[b] /\ \A c \in A : size2[c] = size[c]
  BY DEF Claims
<1> USE <1>0
<1>1. \A c \in B : /\ c \in Address /\ c \in Int /\ 0 <= c /\ c < HeapEnd /\ HeapEnd \in Int
                   /\ size[c] \in Int /\ xHeapStructSize \in Int /\ 0 < xHeapStructSize
                   /\ xHeapStructSize <= size[c] /\ c + size[c] <= HeapEnd
  BY TileFacts
<1>2. C \subseteq U
  <2> SUFFICES ASSUME NEW x \in C, NEW c \in A, c <= x, x < c + size[c] PROVE FALSE
    BY <1>1 DEF Unclaimed, Address
  <2>1. x \in Int /\ c \in B /\ c # b
    BY <1>1
  <2>2. c < b => c + size[c] <= b
    BY <2>1 DEF Tiles
  <2>3. b < c => b + size[b] <= c
    BY <2>1 DEF Tiles
  <2> QED BY <1>1, <2>1, <2>2, <2>3
<1>3. U2 = U \ C
  <2>1. \A x \in Address : x \in Int
    BY DEF Address
  <2>2. ASSUME NEW x \in Address
        PROVE  x \in C <=> b <= x /\ x < b + size2[b]
    BY <1>1, <2>1
  <2>3. ASSUME NEW x \in Address
        PROVE  (\A c \in A \union {b} : ~(c <= x /\ x < c + size2[c]))
                 <=> (\A c \in A : ~(c <= x /\ x < c + size[c])) /\ ~(b <= x /\ x < b + size2[b])
    OBVIOUS
  <2> HIDE DEF C
  <2> QED BY <2>2, <2>3 DEF Unclaimed
<1>4. IsFiniteSet(Address) /\ Cardinality(Address) = HeapEnd
  <2>1. HeapEnd \in Int /\ 0 < HeapEnd
    BY Heap4Assumption
  <2>2. IsFiniteSet(0..(HeapEnd - 1)) /\ Cardinality(0..(HeapEnd - 1)) = IF 0 > HeapEnd - 1 THEN 0 ELSE (HeapEnd - 1) - 0 + 1
    BY <2>1, FS_Interval
  <2> QED BY <2>1, <2>2 DEF Address
<1>5. Cardinality(C) = w
  <2>1. Cardinality(b..(b + w - 1)) = IF b > b + w - 1 THEN 0 ELSE (b + w - 1) - b + 1
    <3>1. b \in Int /\ b + w - 1 \in Int
      BY <1>1
    <3> QED BY <3>1, FS_Interval
  <2> QED BY <1>1, <2>1
<1> HIDE DEF C
<1>6. U \in SUBSET Address /\ U2 \in SUBSET Address
  BY DEF Unclaimed
<1> HIDE DEF U, U2
<1>7. /\ IsFiniteSet(U) /\ Cardinality(U) <= HeapEnd
      /\ IsFiniteSet(U2) /\ Cardinality(U2) <= HeapEnd
  BY <1>4, <1>6, FS_Subset
<1>8. Cardinality(U) \in Nat /\ Cardinality(U2) \in Nat
  BY <1>7, FS_CardinalityType
<1>9. Cardinality(U2) = Cardinality(U) - Cardinality(U \cap C)
  BY <1>3, <1>7, FS_Difference
<1>10. U \cap C = C
  BY <1>2
<1>11. Cardinality(U2) = Cardinality(U) - w /\ HeapEnd \in Int
  BY <1>1, <1>5, <1>9, <1>10
<1>12. Cardinality(U) \in 0..HeapEnd /\ Cardinality(U2) \in 0..HeapEnd
  BY <1>7, <1>8, <1>11
<1> QED BY <1>11, <1>12 DEF U, U2

-----------------------------------------------------------------------------
(* The inductive invariant: the free list is ordered by address with a gap *)
(* between any two entries, not only between neighbours, the blocks tile   *)
(* the heap, and the headers tell which of them are allocated.             *)

HeapInv ==
  /\ TypeOK
  /\ Gapped(freeList, xBlockSize)
  /\ Free \intersect allocated = {}
  /\ Tiles(Blocks, xBlockSize)
  /\ FreeBytesCounted
  /\ HeadersTell

LEMMA HeapInvGives == ASSUME HeapInv PROVE HeapConsistent
<1>1. BlocksTile
  BY DEF HeapInv, Tiles, BlocksTile, EndOf
<1>2. FreeListCoalesced
  <2>1. Len(freeList) \in Nat
    BY DEF HeapInv, TypeOK
  <2>2. \A i \in 1..(Len(freeList) - 1) : i \in 1..Len(freeList) /\ i + 1 \in 1..Len(freeList) /\ i < i + 1
    BY <2>1
  <2> QED BY <2>2 DEF HeapInv, Gapped, FreeListCoalesced, EndOf
<1> QED BY <1>1, <1>2 DEF HeapInv, HeapConsistent

LEMMA HeapStarts == ASSUME Init PROVE HeapInv
<1>1. HeapEnd \in Nat /\ HeapEnd > 0 /\ 0 \in Address
  BY Heap4Assumption DEF Address
<1>2. Len(freeList) = 1 /\ freeList[1] = 0 /\ freeList \in Seq(Address)
  BY <1>1 DEF Init
<1>3. Free = {0} /\ Blocks = {0}
  BY <1>2 DEF Free, Blocks, Init
<1>4. TypeOK /\ HeadersTell
  BY <1>1, <1>2 DEF Init, TypeOK, Headers, HeadersTell
<1>5. Gapped(freeList, xBlockSize)
  BY <1>2 DEF Gapped
<1>6. Cardinality(Available) = HeapEnd
  <2>1. Available = 0..(HeapEnd - 1)
    BY DEF Available, Address, Init
  <2>2. Cardinality(0..(HeapEnd - 1)) = IF 0 > HeapEnd - 1 THEN 0 ELSE (HeapEnd - 1) - 0 + 1
    BY <1>1, FS_Interval
  <2> QED BY <1>1, <2>1, <2>2
<1>7. xHeapStructSize <= HeapEnd
  BY Heap4Assumption
<1>8. Tiles(Blocks, xBlockSize)
  BY <1>1, <1>3, <1>4, <1>7 DEF Tiles, Init, TypeOK
<1> QED BY <1>3, <1>4, <1>5, <1>6, <1>8 DEF HeapInv, FreeBytesCounted, Init

\* vPortFree: the block becomes one with the free blocks it touches.
LEMMA HeapFree ==
  ASSUME HeapInv, NEW block \in Address, vPortFree(block)
  PROVE  /\ HeapInv'
         /\ Blocks' \subseteq Blocks
         /\ \A b \in allocated \ {block} : xBlockSize'[b] = xBlockSize[b]
<1> DEFINE size == xBlockSize
           end == block + size[block]
<1>1. /\ block \in allocated /\ block \in Blocks /\ block \notin Free
      /\ freeList \in Seq(Address) /\ size \in [Address -> 0..HeapEnd]
      /\ Free \subseteq Blocks /\ allocated \subseteq Blocks
      /\ Free = Entries(freeList) /\ Tiles(Blocks, size)
  BY DEF vPortFree, HeapInv, HeadersTell, TypeOK, Blocks, Free, Entries
<1>2. \A b \in Blocks : /\ b \in Address /\ b \in Int /\ 0 <= b /\ b < HeapEnd /\ HeapEnd \in Int
                        /\ size[b] \in Int /\ xHeapStructSize \in Int /\ 0 < xHeapStructSize
                        /\ xHeapStructSize <= size[b] /\ b + size[b] <= HeapEnd
  BY <1>1, TileFacts
<1>3. \A b, c \in Blocks : b < c => b + size[b] <= c
  BY <1>1 DEF Tiles
<1>4. Insertable(freeList, size, block)
  <2>1. ASSUME NEW i \in 1..Len(freeList)
        PROVE  /\ size[freeList[i]] > 0 /\ freeList[i] + size[freeList[i]] <= HeapEnd
               /\ freeList[i] + size[freeList[i]] <= block \/ end <= freeList[i]
    <3>1. freeList[i] \in Blocks /\ freeList[i] # block
      BY <1>1 DEF Entries
    <3>2. freeList[i] < block \/ block < freeList[i]
      BY <1>1, <1>2, <3>1
    <3> QED BY <1>1, <1>2, <1>3, <3>1, <3>2
  <2>2. block \in Address /\ size[block] > 0 /\ end <= HeapEnd
    BY <1>1, <1>2
  <2> QED BY <1>1, <2>1, <2>2 DEF Insertable, HeapInv
<1>5. PICK a \in Int, e \in Int : Inserts(freeList, size, block, a, e)
  BY <1>4, InsertFacts
<1>6. /\ a \in Address /\ e \in 1..HeapEnd /\ a <= block /\ end <= e
      /\ a = block \/ (a \in Free /\ a + size[a] = block)
      /\ e = end \/ (end \in Free /\ e = end + size[end])
      /\ xBlockSize' = [size EXCEPT ![a] = e - a]
      /\ freeList' \in Seq(Address)
      /\ Free' = {x \in Free : x < a \/ e <= x} \union {a}
      /\ Gapped(freeList', xBlockSize')
      /\ allocated' = allocated \ {block}
  <2>1. /\ freeList' = InsertedList(freeList, size, block)
        /\ xBlockSize' = InsertedSizes(freeList, size, block)
        /\ allocated' = allocated \ {block}
    BY DEF vPortFree
  <2>2. Free' = Entries(freeList')
    BY DEF Free, Entries
  <2> QED BY <1>1, <1>5, <2>1, <2>2 DEF Inserts
<1>7. a \in Blocks /\ a < e /\ (e = HeapEnd \/ e \in Blocks)
  <2>1. a < e
    BY <1>1, <1>2, <1>6
  <2>2. \A b \in Blocks : b + size[b] = HeapEnd \/ b + size[b] \in Blocks
    BY <1>1 DEF Tiles
  <2> QED BY <1>1, <1>6, <2>1, <2>2
\* Only a, block and end can lie between a and e.
<1>8. ASSUME NEW x \in Blocks, ~(x < a \/ e <= x) PROVE x = block \/ x \in Free
  <2>1. x \in Int /\ a <= x /\ x < e
    BY <1>2, <1>6, <1>8
  <2>2. CASE x < block
    <3>1. a # block /\ a \in Free /\ a + size[a] = block
      BY <1>2, <1>6, <2>1, <2>2
    <3>2. ~(a < x)
      BY <1>1, <1>2, <1>3, <2>1, <2>2, <3>1
    <3> QED BY <1>6, <2>1, <3>1, <3>2
  <2>3. CASE block < x
    <3>1. end <= x
      BY <1>1, <1>3, <2>3
    <3>2. end \in Free /\ e = end + size[end] /\ end \in Blocks
      BY <1>1, <1>2, <1>6, <2>1, <3>1
    <3>3. ~(end < x)
      BY <1>1, <1>2, <1>3, <2>1, <3>2
    <3>4. end \in Int
      BY <1>2, <3>2
    <3>5. x = end
      BY <2>1, <3>1, <3>3, <3>4
    <3> QED BY <3>2, <3>5
  <2> QED BY <1>1, <1>2, <2>1, <2>2, <2>3
<1>9. /\ Blocks' = {x \in Blocks : x < a \/ e <= x} \union {a}
      /\ Free' \intersect allocated' = {}
  <2>1. \A x \in allocated' : x \in Blocks /\ x # block /\ x \notin Free
    BY <1>1, <1>6 DEF HeapInv
  <2>2. \A x \in allocated' : (x < a \/ e <= x) /\ x # a
    BY <1>6, <1>8, <2>1
  <2>3. ASSUME NEW x \in Blocks, x < a \/ e <= x PROVE x \in Blocks'
    <3>1. x # block
      BY <1>1, <1>2, <1>6, <2>3
    <3> QED BY <1>6, <2>3, <3>1 DEF Blocks
  <2> QED BY <1>1, <1>6, <2>1, <2>2, <2>3 DEF Blocks
<1>10. Tiles(Blocks', xBlockSize')
  BY <1>1, <1>6, <1>7, <1>9, JoinTiles
<1>11. /\ xFreeBytesRemaining' = Cardinality(Available')
       /\ xFreeBytesRemaining' \in 0..HeapEnd
  <2> DEFINE A == allocated \ {block}
  <2>1. A \subseteq Blocks /\ block \in Blocks \ A /\ size[block] \in 1..size[block]
        /\ A \union {block} = allocated
    BY <1>1, <1>2
  <2> HIDE DEF A
  <2>2. /\ Cardinality(Unclaimed(A, size)) \in 0..HeapEnd
        /\ Cardinality(Unclaimed(A \union {block}, size)) \in 0..HeapEnd
        /\ Cardinality(Unclaimed(A \union {block}, size))
             = Cardinality(Unclaimed(A, size)) - size[block]
    <3>1. Claims(Blocks, size, A, block, size)
      BY <1>1, <2>1 DEF Claims
    <3> QED BY <3>1, ClaimedBytes
  <2>3. Available = Unclaimed(A \union {block}, size)
    BY <2>1 DEF Available, Unclaimed, EndOf
  <2>4. \A x \in A : xBlockSize'[x] = size[x]
    BY <1>1, <1>6 DEF A, HeapInv, TypeOK
  <2>5. Available' = Unclaimed(A, size)
    BY <1>6, <2>4 DEF Available, Unclaimed, EndOf, A
  <2>6. /\ xFreeBytesRemaining' = xFreeBytesRemaining + size[block]
        /\ xFreeBytesRemaining = Cardinality(Available)
    BY DEF vPortFree, HeapInv, FreeBytesCounted
  <2> QED BY <1>1, <1>2, <2>2, <2>3, <2>5, <2>6
<1>12. TypeOK'
  <2>1. /\ xBlockSize' \in [Address -> 0..HeapEnd] /\ allocated' \subseteq Address
    BY <1>6, <1>10 DEF Tiles, HeapInv, TypeOK
  <2>2. asked' \in [Address -> Requests \union {0}]
    BY DEF vPortFree, HeapInv, TypeOK
  <2>3. xMinimumEverFreeBytesRemaining' \in 0..HeapEnd
    BY DEF vPortFree, HeapInv, TypeOK
  <2>4. header' \in [Address -> Headers]
    BY DEF vPortFree, HeapInv, TypeOK, Headers
  <2> QED BY <1>6, <1>11, <2>1, <2>2, <2>3, <2>4 DEF TypeOK
<1>13. \A b \in allocated \ {block} : xBlockSize'[b] = size[b]
  BY <1>1, <1>6 DEF HeapInv, TypeOK
<1>14. Blocks' \subseteq Blocks
  BY <1>7, <1>9
<1>15. HeadersTell'
  <2>1. header' = [header EXCEPT ![block] = "free"] /\ allocated' = allocated \ {block}
    BY DEF vPortFree
  <2> QED BY <2>1 DEF HeapInv, HeadersTell, TypeOK
<1> QED BY <1>6, <1>9, <1>10, <1>11, <1>12, <1>13, <1>14, <1>15 DEF HeapInv, FreeBytesCounted

\* A request is rounded up, and there is always room for a header.
LEMMA WantedFacts ==
  ASSUME NEW request \in Nat, request > 0
  PROVE  Wanted(request) \in Nat /\ Wanted(request) > xHeapStructSize
<1> DEFINE bytes == request + xHeapStructSize
           over == bytes % portBYTE_ALIGNMENT
<1>1. bytes \in Nat /\ bytes > xHeapStructSize /\ portBYTE_ALIGNMENT \in Nat \ {0}
  BY Heap4Assumption
<1>2. over \in 0..(portBYTE_ALIGNMENT - 1)
  <2> HIDE DEF bytes
  <2> QED BY <1>1
<1>3. Wanted(request) = IF over = 0 THEN bytes ELSE bytes + (portBYTE_ALIGNMENT - over)
  BY DEF Wanted
<1> HIDE DEF over, bytes
<1> QED BY Heap4Assumption, <1>1, <1>2, <1>3

\* The search stops at the first entry that is large enough, if there is one.
LEMMA FirstFitFacts ==
  ASSUME freeList \in Seq(Address), NEW needed, Adequate(needed) # {}
  PROVE  /\ FirstFit(needed) \in 1..Len(freeList)
         /\ xBlockSize[freeList[FirstFit(needed)]] >= needed
<1>1. Adequate(needed) \subseteq Nat
  BY DEF Adequate
<1>2. \E i \in Adequate(needed) : \A j \in Adequate(needed) : i <= j
  BY <1>1, SmallestNumber
<1>3. FirstFit(needed) \in Adequate(needed)
  BY <1>2 DEF FirstFit
<1> QED BY <1>3 DEF Adequate

\* Unlinking an entry of the list.
LEMMA UnlinkedFacts ==
  ASSUME NEW list \in Seq(Address), NEW size \in [Address -> 0..HeapEnd],
         Gapped(list, size), NEW i \in 1..Len(list)
  PROVE  /\ Unlinked(list, i) \in Seq(Address)
         /\ Entries(Unlinked(list, i)) = Entries(list) \ {list[i]}
         /\ Gapped(Unlinked(list, i), size)
<1> DEFINE n == Len(list)
           rest == Unlinked(list, i)
<1>1. /\ n \in Nat
      /\ \A k \in 1..n : list[k] \in Address /\ list[k] \in Int /\ size[list[k]] \in Nat
  <2>1. \A x \in Address : x \in Int /\ size[x] \in 0..HeapEnd
    BY DEF Address
  <2>2. \A k \in 1..n : list[k] \in Address
    OBVIOUS
  <2>3. \A x \in 0..HeapEnd : x \in Nat
    OBVIOUS
  <2> QED BY <2>1, <2>2, <2>3
<1>2. rest = [j \in 1..(n - 1) |-> IF j < i THEN list[j] ELSE list[j + 1]]
  BY DEF Unlinked
<1>3. \A j \in 1..(n - 1) : rest[j] = IF j < i THEN list[j] ELSE list[j + 1]
  BY <1>2
<1>4. rest \in Seq(Address) /\ Len(rest) = n - 1
  <2>1. ASSUME NEW j \in 1..(n - 1) PROVE rest[j] \in Address
    <3>1. j \in 1..n /\ j + 1 \in 1..n
      BY <1>1
    <3> QED BY <1>1, <1>3, <3>1
  <2> QED BY <1>1, <1>2, <2>1
<1> HIDE DEF rest
<1>5. \A j, k \in 1..n : j < k => list[j] + size[list[j]] < list[k] /\ list[j] # list[k]
  BY <1>1 DEF Gapped
<1>6. ASSUME NEW j \in 1..(n - 1)
      PROVE  \E k \in 1..n : k # i /\ rest[j] = list[k] /\ k = IF j < i THEN j ELSE j + 1
  <2>1. CASE j < i
    BY <1>1, <1>3, <2>1
  <2>2. CASE ~(j < i)
    BY <1>1, <1>3, <2>2
  <2> QED BY <2>1, <2>2
<1>7. Entries(rest) = Entries(list) \ {list[i]}
  <2>1. ASSUME NEW j \in 1..(n - 1) PROVE rest[j] \in Entries(list) /\ rest[j] # list[i]
    <3>1. PICK k \in 1..n : k # i /\ rest[j] = list[k]
      BY <1>6
    <3>2. k < i \/ i < k
      BY <1>1, <3>1
    <3> QED BY <1>5, <3>1, <3>2 DEF Entries
  <2>2. ASSUME NEW k \in 1..n, k # i PROVE \E j \in 1..(n - 1) : rest[j] = list[k]
    <3>1. CASE k < i
      <4>1. k \in 1..(n - 1) /\ rest[k] = list[k]
        BY <1>1, <1>3, <3>1
      <4> QED BY <4>1
    <3>2. CASE k > i
      <4>1. k - 1 \in 1..(n - 1) /\ ~(k - 1 < i) /\ (k - 1) + 1 = k
        BY <1>1, <3>2
      <4>2. rest[k - 1] = list[k]
        BY <1>3, <4>1
      <4> QED BY <4>1, <4>2
    <3> QED BY <1>1, <2>2, <3>1, <3>2
  <2>3. ASSUME NEW x \in Entries(list) \ {list[i]} PROVE x \in Entries(rest)
    <3>1. PICK k \in 1..n : x = list[k] /\ k # i
      BY DEF Entries
    <3>2. PICK j \in 1..(n - 1) : rest[j] = list[k]
      BY <2>2, <3>1
    <3> QED BY <1>4, <3>1, <3>2 DEF Entries
  <2>4. ASSUME NEW x \in Entries(rest) PROVE x \in Entries(list) \ {list[i]}
    <3>1. PICK j \in 1..(n - 1) : rest[j] = x
      BY <1>4 DEF Entries
    <3> QED BY <2>1, <3>1
  <2> QED BY <2>3, <2>4
<1>8. Gapped(rest, size)
  <2> SUFFICES ASSUME NEW j \in 1..(n - 1), NEW k \in 1..(n - 1), j < k
               PROVE  rest[j] + size[rest[j]] < rest[k]
    BY <1>4 DEF Gapped
  <2>1. PICK p \in 1..n : rest[j] = list[p] /\ p = IF j < i THEN j ELSE j + 1
    BY <1>6
  <2>2. PICK q \in 1..n : rest[k] = list[q] /\ q = IF k < i THEN k ELSE k + 1
    BY <1>6
  <2>3. p < q
    BY <2>1, <2>2
  <2> QED BY <1>5, <2>1, <2>2, <2>3
<1> QED BY <1>4, <1>7, <1>8 DEF rest

\* pvPortMalloc cuts needed bytes off the block that it found at place i.
Splitting(i, block, needed, new, sizes) ==
  /\ i \in 1..Len(freeList) /\ block = freeList[i]
  /\ needed \in Nat /\ needed > xHeapStructSize
  /\ xBlockSize[block] - needed >= xHeapStructSize
  /\ new = block + needed
  /\ sizes = [xBlockSize EXCEPT ![new] = xBlockSize[block] - needed, ![block] = needed]

\* The second part takes its place in the list and merges with nothing.
ListKept(i, block, needed, new, sizes) ==
  LET rest == Unlinked(freeList, i)
  IN  /\ InsertedSizes(rest, sizes, new) = sizes
      /\ InsertedList(rest, sizes, new) \in Seq(Address)
      /\ Entries(InsertedList(rest, sizes, new)) = (Free \ {block}) \union {new}
      /\ Gapped(InsertedList(rest, sizes, new), sizes)
      /\ Tiles(Blocks \union {new}, sizes) /\ new \notin Blocks
      /\ sizes[block] = needed /\ \A b \in Blocks \ {block} : sizes[b] = xBlockSize[b]

\* For the entries around the block do not touch it.
LEMMA SplitKeepsList ==
  ASSUME HeapInv, NEW i, NEW block, NEW needed, NEW new, NEW sizes,
         Splitting(i, block, needed, new, sizes)
  PROVE  ListKept(i, block, needed, new, sizes)
<1> DEFINE size == xBlockSize
           rest == Unlinked(freeList, i)
           end == block + size[block]
<1>0. /\ i \in 1..Len(freeList) /\ block = freeList[i]
      /\ needed \in Nat /\ needed > xHeapStructSize
      /\ size[block] - needed >= xHeapStructSize
      /\ new = block + needed
      /\ sizes = [size EXCEPT ![new] = size[block] - needed, ![block] = needed]
  BY DEF Splitting
<1>1. /\ freeList \in Seq(Address) /\ size \in [Address -> 0..HeapEnd]
      /\ Free = Entries(freeList) /\ block \in Free /\ Free \subseteq Blocks
      /\ Tiles(Blocks, size) /\ Gapped(freeList, size)
  BY <1>0 DEF HeapInv, TypeOK, Blocks, Free, Entries
<1>2. \A b \in Blocks : /\ b \in Address /\ b \in Int /\ 0 <= b /\ b < HeapEnd /\ HeapEnd \in Int
                        /\ size[b] \in Int /\ xHeapStructSize \in Int /\ 0 < xHeapStructSize
                        /\ xHeapStructSize <= size[b] /\ b + size[b] <= HeapEnd
  BY <1>0, <1>1, TileFacts
<1>3. \A b, c \in Blocks : b < c => b + size[b] <= c
  BY <1>0, <1>1 DEF Tiles
<1>4. /\ rest \in Seq(Address) /\ Entries(rest) = Free \ {block} /\ Gapped(rest, size)
  BY <1>0, <1>1, UnlinkedFacts
<1>5. Tiles(Blocks \union {new}, sizes) /\ new \in Address /\ new \notin Blocks
  <2>1. block \in Blocks /\ needed \in Int /\ needed >= xHeapStructSize
    BY <1>0, <1>1, <1>2
  <2> QED BY <1>0, <1>1, <2>1, SplitTiles
<1>6. /\ sizes \in [Address -> 0..HeapEnd]
      /\ sizes[new] = size[block] - needed /\ sizes[block] = needed
      /\ \A b \in Address \ {new, block} : sizes[b] = size[b]
  <2>1. sizes \in [Address -> 0..HeapEnd]
    BY <1>0, <1>5 DEF Tiles
  <2>2. new # block
    BY <1>0, <1>1, <1>5
  <2> QED BY <1>0, <1>1, <1>2, <1>5, <2>1, <2>2
<1>7. \A b \in Blocks \ {block} : sizes[b] = size[b]
  BY <1>0, <1>2, <1>5, <1>6
<1>8. /\ new \in Int /\ block < new /\ new < end /\ end <= HeapEnd /\ new + sizes[new] = end
      /\ end \in Int /\ sizes[new] > 0 /\ block \in Int
  <2>1. /\ block \in Int /\ size[block] \in Int /\ xHeapStructSize \in Int /\ xHeapStructSize > 0
        /\ block + size[block] <= HeapEnd
    BY <1>1, <1>2
  <2>2. /\ sizes[new] = size[block] - needed /\ new = block + needed
        /\ needed \in Nat /\ needed > xHeapStructSize
        /\ size[block] - needed >= xHeapStructSize
    BY <1>0, <1>6
  <2>3. HeapEnd \in Int
    BY <1>1, <1>2
  <2> QED BY <2>1, <2>2, <2>3
\* The other entries end before the block, or start behind a gap after it.
<1>9. ASSUME NEW x \in Free \ {block} PROVE x + size[x] < block \/ end < x
  <2>1. PICK j \in 1..Len(freeList) : x = freeList[j] /\ j # i
    BY <1>0, <1>1 DEF Entries
  <2>2. j < i \/ i < j
    BY <1>0, <1>1, <2>1
  <2> QED BY <1>0, <1>1, <2>1, <2>2 DEF Gapped
<1>10. \A j \in 1..Len(rest) : rest[j] \in Free \ {block} /\ sizes[rest[j]] = size[rest[j]]
  <2>1. \A j \in 1..Len(rest) : rest[j] \in Free \ {block}
    BY <1>4 DEF Entries
  <2> QED BY <1>1, <1>7, <2>1
<1> HIDE DEF rest
<1>11. Insertable(rest, sizes, new)
  <2>1. Gapped(rest, sizes)
    BY <1>4, <1>10 DEF Gapped
  <2>2. ASSUME NEW j \in 1..Len(rest)
        PROVE  /\ sizes[rest[j]] > 0 /\ rest[j] + sizes[rest[j]] <= HeapEnd
               /\ rest[j] + sizes[rest[j]] <= new \/ new + sizes[new] <= rest[j]
    <3>1. /\ rest[j] \in Blocks /\ sizes[rest[j]] = size[rest[j]]
          /\ rest[j] + size[rest[j]] < block \/ end < rest[j]
      BY <1>1, <1>9, <1>10
    <3>2. rest[j] \in Int /\ size[rest[j]] \in Int /\ size[rest[j]] > 0
          /\ rest[j] + size[rest[j]] <= HeapEnd
      BY <1>2, <3>1
    <3> QED BY <1>8, <3>1, <3>2
  <2> QED BY <1>4, <1>5, <1>6, <1>8, <2>1, <2>2 DEF Insertable
<1>12. PICK a \in Int, e \in Int : Inserts(rest, sizes, new, a, e)
  BY <1>11, InsertFacts
<1>13. a = new
  <2> SUFFICES ASSUME a # new PROVE FALSE
    OBVIOUS
  <2>1. a \in Entries(rest) /\ a + sizes[a] = new
    BY <1>12 DEF Inserts
  <2>2. a \in Blocks \ {block} /\ (a + size[a] < block \/ end < a)
    BY <1>1, <1>4, <1>9, <2>1
  <2> QED BY <1>2, <1>7, <1>8, <2>1, <2>2
<1>14. e = end
  <2> SUFFICES ASSUME e # end PROVE FALSE
    OBVIOUS
  <2>1. end \in Entries(rest)
    BY <1>8, <1>12 DEF Inserts
  <2>2. end \in Blocks /\ (end + size[end] < block \/ end < end)
    BY <1>1, <1>4, <1>9, <2>1
  <2> QED BY <1>2, <1>8, <2>2
<1>15. InsertedSizes(rest, sizes, new) = sizes
  <2>1. e - a = sizes[new]
    <3>1. sizes[new] \in Int
      <4>1. block \in Int /\ size[block] \in Int /\ needed \in Int
        BY <1>0, <1>1, <1>2
      <4> QED BY <1>6, <4>1
    <3>2. e - a = end - new /\ end \in Int /\ new \in Int
      BY <1>1, <1>2, <1>13, <1>14
    <3> QED BY <1>8, <3>1, <3>2
  <2>2. InsertedSizes(rest, sizes, new) = [sizes EXCEPT ![a] = e - a]
    BY <1>12 DEF Inserts
  <2> QED BY <1>6, <1>13, <2>1, <2>2
<1>16. Entries(InsertedList(rest, sizes, new)) = (Free \ {block}) \union {new}
  <2>1. ASSUME NEW x \in Free \ {block} PROVE x < new \/ end <= x
    <3>1. x + size[x] < block \/ end < x
      BY <1>9
    <3>2. x \in Blocks
      BY <1>1
    <3>3. x \in Int /\ size[x] \in Int /\ size[x] > 0
      BY <1>2, <3>2
    <3> QED BY <1>8, <3>1, <3>3
  <2>2. Entries(InsertedList(rest, sizes, new))
          = {x \in Free \ {block} : x < new \/ end <= x} \union {new}
    BY <1>4, <1>12, <1>13, <1>14 DEF Inserts
  <2> QED BY <2>1, <2>2
<1>17. /\ InsertedList(rest, sizes, new) \in Seq(Address)
       /\ Gapped(InsertedList(rest, sizes, new), sizes)
  BY <1>12, <1>15 DEF Inserts
<1> QED BY <1>5, <1>6, <1>7, <1>15, <1>16, <1>17 DEF ListKept, rest

\* The free block is handed out, with at least the bytes needed, and no other
\* allocated block changes its size.
HandsOut(block, request) ==
  /\ block \in Free /\ block \notin allocated /\ allocated' = allocated \union {block}
  /\ asked' = [asked EXCEPT ![block] = request]
  /\ xBlockSize'[block] >= Wanted(request)
  /\ \A b \in allocated : xBlockSize'[b] = xBlockSize[b]
  /\ Blocks' \subseteq Blocks \union {block + Wanted(request)}

LEMMA HeapMalloc ==
  ASSUME HeapInv, NEW request \in Requests, pvPortMalloc(request)
  PROVE  HeapInv' /\ \E block \in Free : HandsOut(block, request)
<1>1. /\ request \in Nat /\ request > 0 /\ Succeeds(request)
  BY Heap4Assumption DEF pvPortMalloc, Succeeds
<1>2. PICK needed \in Nat : needed = Wanted(request) /\ needed > xHeapStructSize
  BY <1>1, WantedFacts
<1>3. PICK i \in 1..Len(freeList) : i = FirstFit(needed) /\ xBlockSize[freeList[i]] >= needed
  BY <1>1, <1>2, FirstFitFacts DEF HeapInv, TypeOK, Succeeds
<1>4. PICK block \in Address : block = freeList[i]
  BY DEF HeapInv, TypeOK
<1> DEFINE size == xBlockSize
           rest == Unlinked(freeList, i)
           splits == size[block] - needed > heapMINIMUM_BLOCK_SIZE
           new == block + needed
           sizes == [size EXCEPT ![new] = size[block] - needed, ![block] = needed]
           taken == IF splits THEN needed ELSE size[block]
<1>5. /\ IF splits
         THEN /\ freeList' = InsertedList(rest, sizes, new)
              /\ xBlockSize' = InsertedSizes(rest, sizes, new)
         ELSE /\ freeList' = rest
              /\ xBlockSize' = size
      /\ xFreeBytesRemaining' = xFreeBytesRemaining - taken
      /\ xMinimumEverFreeBytesRemaining' \in {xFreeBytesRemaining', xMinimumEverFreeBytesRemaining}
      /\ allocated' = allocated \union {block}
      /\ asked' = [asked EXCEPT ![block] = request]
  BY <1>2, <1>3, <1>4 DEF pvPortMalloc
<1>6. /\ freeList \in Seq(Address) /\ size \in [Address -> 0..HeapEnd]
      /\ Free = Entries(freeList) /\ block \in Free /\ Free \subseteq Blocks
      /\ block \notin allocated /\ allocated \subseteq Blocks
      /\ Tiles(Blocks, size) /\ Gapped(freeList, size)
  BY <1>4 DEF HeapInv, TypeOK, Blocks, Free, Entries
<1>7. /\ block \in Int /\ size[block] \in Int /\ xHeapStructSize \in Int /\ xHeapStructSize > 0
      /\ size[block] >= needed /\ HeapEnd \in Int
  BY <1>3, <1>4, <1>6, TileFacts
<1>8. /\ freeList' \in Seq(Address) /\ Gapped(freeList, xBlockSize)'
      /\ Free' = (Free \ {block}) \union (IF splits THEN {new} ELSE {})
      /\ Tiles(Blocks', xBlockSize')
      /\ splits => new \notin Blocks
      /\ xBlockSize'[block] = taken /\ \A b \in allocated : xBlockSize'[b] = size[b]
  <2>1. Free' = Entries(freeList')
    BY DEF Free, Entries
  <2>2. CASE splits
    <3>1. size[block] - needed >= xHeapStructSize
      BY <1>7, <2>2 DEF heapMINIMUM_BLOCK_SIZE
    <3>2. /\ InsertedSizes(rest, sizes, new) = sizes
          /\ InsertedList(rest, sizes, new) \in Seq(Address)
          /\ Entries(InsertedList(rest, sizes, new)) = (Free \ {block}) \union {new}
          /\ Gapped(InsertedList(rest, sizes, new), sizes)
          /\ Tiles(Blocks \union {new}, sizes) /\ new \notin Blocks
          /\ sizes[block] = needed /\ \A b \in Blocks \ {block} : sizes[b] = xBlockSize[b]
      <4>1. Splitting(i, block, needed, new, sizes)
        BY <1>2, <1>4, <3>1 DEF Splitting
      <4> HIDE DEF new, sizes
      <4>2. ListKept(i, block, needed, new, sizes)
        BY <4>1, SplitKeepsList
      <4> QED BY <4>2 DEF ListKept
    <3>3. freeList' = InsertedList(rest, sizes, new) /\ xBlockSize' = sizes
      BY <1>5, <2>2, <3>2
    <3> HIDE DEF sizes, rest, new
    <3>4. Blocks' = Blocks \union {new}
      BY <1>5, <1>6, <2>1, <2>2, <3>2, <3>3 DEF Blocks
    <3> QED BY <1>6, <2>1, <2>2, <3>2, <3>3, <3>4
  <2>3. CASE ~splits
    <3>1. rest \in Seq(Address) /\ Entries(rest) = Free \ {block} /\ Gapped(rest, size)
      BY <1>4, <1>6, UnlinkedFacts
    <3>2. freeList' = rest /\ xBlockSize' = size
      BY <1>5, <2>3
    <3> HIDE DEF rest
    <3>3. Blocks' = Blocks
      BY <1>5, <1>6, <2>1, <3>1, <3>2 DEF Blocks
    <3> QED BY <1>6, <2>1, <2>3, <3>1, <3>2, <3>3
  <2> QED BY <2>2, <2>3
<1>14. header' = [a \in Address |->
                    IF a = block THEN "allocated"
                    ELSE IF block < a /\ a < block + taken THEN "written"
                    ELSE IF splits /\ a = new THEN "free" ELSE header[a]]
  BY <1>2, <1>3, <1>4, <1>8 DEF pvPortMalloc
<1>9. Free' \intersect allocated' = {}
  BY <1>5, <1>6, <1>7, <1>8 DEF HeapInv
<1>10. /\ xFreeBytesRemaining' = Cardinality(Available')
       /\ xFreeBytesRemaining' \in 0..HeapEnd
  <2>1. Claims(Blocks, size, allocated, block, xBlockSize')
    BY <1>2, <1>6, <1>7, <1>8 DEF Claims
  <2>2. /\ Cardinality(Unclaimed(allocated \union {block}, xBlockSize')) \in 0..HeapEnd
        /\ Cardinality(Unclaimed(allocated \union {block}, xBlockSize'))
             = Cardinality(Unclaimed(allocated, size)) - taken
    BY <1>8, <2>1, ClaimedBytes
  <2>3. Available = Unclaimed(allocated, size)
    BY DEF Available, Unclaimed, EndOf
  <2>4. Available' = Unclaimed(allocated \union {block}, xBlockSize')
    BY <1>5 DEF Available, Unclaimed, EndOf
  <2> QED BY <1>5, <2>2, <2>3, <2>4 DEF HeapInv, FreeBytesCounted
<1>11. TypeOK'
  <2>1. xBlockSize' \in [Address -> 0..HeapEnd] /\ allocated' \subseteq Address
    BY <1>5, <1>8 DEF Tiles, HeapInv, TypeOK
  <2>2. asked' \in [Address -> Requests \union {0}]
    BY <1>5 DEF HeapInv, TypeOK
  <2>3. xMinimumEverFreeBytesRemaining' \in 0..HeapEnd
    BY <1>5, <1>10 DEF HeapInv, TypeOK
  <2>4. header' \in [Address -> Headers]
    BY <1>14 DEF HeapInv, TypeOK, Headers
  <2> QED BY <1>8, <1>10, <2>1, <2>2, <2>3, <2>4 DEF TypeOK
<1>15. HeadersTell'
  <2> SUFFICES ASSUME NEW a \in Address
               PROVE  header'[a] = "allocated" <=> a \in allocated \union {block}
    BY <1>5 DEF HeadersTell
  <2>1. header[a] = "allocated" <=> a \in allocated
    BY DEF HeapInv, HeadersTell
  <2>2. header'[a] = IF a = block THEN "allocated"
                     ELSE IF block < a /\ a < block + taken THEN "written"
                     ELSE IF splits /\ a = new THEN "free" ELSE header[a]
    BY <1>14
  <2> HIDE DEF splits, new, taken
  <2>3. ASSUME a # block, block < a, a < block + taken PROVE a \notin allocated
    <3> SUFFICES ASSUME a \in allocated PROVE FALSE
      OBVIOUS
    <3>1. block + size[block] <= a /\ taken <= size[block]
      BY <1>6, <1>7, <2>3 DEF Tiles, taken
    <3>2. a \in Int /\ block \in Int /\ taken \in Int /\ size[block] \in Int
      BY <1>2, <1>7 DEF Address, taken
    <3> QED BY <2>3, <3>1, <3>2
  <2>4. splits /\ a = new => a \notin allocated
    BY <1>6, <1>8
  <2> QED BY <2>1, <2>2, <2>3, <2>4
<1>12. HeapInv'
  BY <1>8, <1>9, <1>10, <1>11, <1>15 DEF HeapInv, FreeBytesCounted
<1>13. HandsOut(block, request)
  <2>1. Blocks' \subseteq Blocks \union {new}
    BY <1>5, <1>6, <1>8 DEF Blocks
  <2>2. xBlockSize'[block] >= needed
    BY <1>7, <1>8
  <2> QED BY <1>2, <1>5, <1>6, <1>8, <2>1, <2>2 DEF HandsOut
<1> QED BY <1>6, <1>12, <1>13

LEMMA HeapNext == ASSUME HeapInv, [Next]_vars PROVE HeapInv'
<1>1. ASSUME NEW request \in Requests, pvPortMalloc(request) PROVE HeapInv'
  BY <1>1, HeapMalloc
<1>2. ASSUME NEW block \in Address, vPortFree(block) PROVE HeapInv'
  BY <1>2, HeapFree
<1>3. CASE UNCHANGED vars
  BY <1>3 DEF vars, HeapInv, TypeOK, Gapped, Tiles, Blocks, Free, FreeBytesCounted, Available, EndOf,
              HeadersTell
<1> QED BY <1>1, <1>2, <1>3 DEF Next

\* The default memory manager (pvPortMalloc, vPortFree and
\* prvInsertBlockIntoFreeList of memManagerFRT4.c) neither loses a byte nor hands
\* one out twice: its blocks tile the heap, the free list is sorted and merged,
\* xFreeBytesRemaining counts the free bytes, and the headers tell what is in use.
THEOREM HeapIsConsistent == Spec => []HeapConsistent
<1>1. Init => HeapInv
  BY HeapStarts
<1>2. HeapInv /\ [Next]_vars => HeapInv'
  BY HeapNext
<1>3. HeapInv => HeapConsistent
  BY HeapInvGives
<1> QED BY <1>1, <1>2, <1>3, PTL DEF Spec

-----------------------------------------------------------------------------
(* No request is refused that there is room for.                           *)

\* The free bytes a..(a + w - 1) lie in one free block: the last block that starts
\* at or before a holds them all, or the block after it would be free as well.
LEMMA RoomInOneBlock ==
  ASSUME HeapInv, NEW a \in Address, NEW w \in Nat, w > 0,
         a + w <= HeapEnd, a..(a + w - 1) \subseteq Available
  PROVE  Adequate(w) # {}
<1> DEFINE size == xBlockSize
           T == {HeapEnd - b : b \in {c \in Blocks : c <= a}}
<1>1. Tiles(Blocks, size) /\ Gapped(freeList, size) /\ freeList \in Seq(Address)
  BY DEF HeapInv, TypeOK
<1>2. \A b \in Blocks : /\ b \in Address /\ b \in Int /\ 0 <= b /\ b < HeapEnd /\ HeapEnd \in Int
                        /\ size[b] \in Int /\ xHeapStructSize \in Int /\ 0 < xHeapStructSize
                        /\ xHeapStructSize <= size[b] /\ b + size[b] <= HeapEnd
  BY <1>1, TileFacts
<1>3. a \in Int /\ 0 <= a /\ HeapEnd \in Int /\ 0 \in Blocks
  BY Heap4Assumption, <1>1 DEF Address, Tiles
<1>4. PICK b \in Blocks : b <= a /\ \A c \in Blocks : c <= a => c <= b
  <2>1. T \subseteq Nat /\ T # {}
    BY <1>2, <1>3
  <2>2. PICK x \in T : \A y \in T : x <= y
    BY <2>1, SmallestNumber
  <2>3. PICK b \in Blocks : b <= a /\ x = HeapEnd - b
    BY <2>2
  <2>4. \A c \in Blocks : c <= a => HeapEnd - b <= HeapEnd - c
    BY <2>2, <2>3
  <2>5. \A c \in Blocks : c <= a => c <= b
    BY <1>2, <1>3, <2>3, <2>4
  <2> QED BY <2>3, <2>5
<1> DEFINE end == b + size[b]
<1>5. end \in Int /\ b < end /\ end <= HeapEnd /\ (end = HeapEnd \/ end \in Blocks)
  BY <1>1, <1>2 DEF Tiles
<1>6. a < end
  <2> SUFFICES ASSUME end <= a PROVE FALSE
    BY <1>3, <1>5
  <2>1. a < HeapEnd
    BY <1>3 DEF Address
  <2>2. end \in Blocks
    BY <1>3, <1>5, <2>1
  <2>3. end <= b
    BY <1>4, <2>2
  <2> QED BY <1>2, <1>5, <2>3
<1>7. b \in Free
  <2>1. a \in Available
    BY <1>3
  <2>2. b \notin allocated
    BY <1>4, <1>6, <2>1 DEF Available, EndOf
  <2> QED BY <2>2 DEF Blocks
<1>8. a + w <= end
  <2> SUFFICES ASSUME end < a + w PROVE FALSE
    BY <1>3, <1>5
  <2>1. end \in Blocks /\ end \in Available
    BY <1>3, <1>5, <1>6
  <2>2. end \notin allocated
    BY <1>2, <1>5, <2>1 DEF Available, EndOf
  <2>3. end \in Free
    BY <2>1, <2>2 DEF Blocks
  <2>4. PICK i \in 1..Len(freeList), j \in 1..Len(freeList) : freeList[i] = b /\ freeList[j] = end
    BY <1>7, <2>3 DEF Free
  <2>5. i < j \/ j < i
    BY <1>1, <1>5, <2>4
  <2>6. CASE i < j
    BY <1>1, <1>5, <2>4, <2>6 DEF Gapped
  <2>7. CASE j < i
    <3>1. end + size[end] < b
      BY <1>1, <2>4, <2>7 DEF Gapped
    <3>2. end \in Int /\ size[end] \in Int /\ size[end] > 0 /\ b \in Int /\ b <= end
      BY <1>2, <1>5, <2>1
    <3> QED BY <3>1, <3>2
  <2> QED BY <2>5, <2>6, <2>7
<1>9. size[b] >= w
  BY <1>2, <1>3, <1>4, <1>8
<1> QED BY <1>7, <1>9 DEF Free, Adequate

LEMMA NoRefusal == ASSUME HeapInv PROVE NoFalseFailure
<1> SUFFICES ASSUME NEW request \in Requests \ {0}, NEW a \in Address,
                    a + Wanted(request) <= HeapEnd,
                    a..(a + Wanted(request) - 1) \subseteq Available
             PROVE  Succeeds(request)
  BY DEF NoFalseFailure
<1>1. PICK w \in Nat : w = Wanted(request) /\ w > 0 /\ request > 0
  BY Heap4Assumption, WantedFacts
<1>2. Adequate(w) # {}
  BY <1>1, RoomInOneBlock
<1>3. w <= Cardinality(Available)
  <2>1. a \in Int /\ HeapEnd \in Int
    BY Heap4Assumption DEF Address
  <2>2. Cardinality(a..(a + w - 1)) = w
    <3>1. a + w - 1 \in Int
      BY <1>1, <2>1
    <3>2. Cardinality(a..(a + w - 1)) = IF a > a + w - 1 THEN 0 ELSE (a + w - 1) - a + 1
      BY <2>1, <3>1, FS_Interval
    <3> QED BY <1>1, <2>1, <3>2
  <2>3. IsFiniteSet(Available)
    <3>1. IsFiniteSet(0..(HeapEnd - 1))
      BY <2>1, FS_Interval
    <3>2. Available \in SUBSET (0..(HeapEnd - 1))
      BY DEF Available, Address
    <3> QED BY <3>1, <3>2, FS_Subset
  <2>4. a..(a + w - 1) \in SUBSET Available
    BY <1>1
  <2>5. Cardinality(a..(a + w - 1)) <= Cardinality(Available)
    BY <2>3, <2>4, FS_Subset
  <2> QED BY <2>2, <2>5
<1> QED BY <1>1, <1>2, <1>3 DEF Succeeds, HeapInv, FreeBytesCounted

\* pvPortMalloc refuses no request that fits in a run of free bytes: because the
\* free list is kept merged, the run lies in one entry, and because
\* xFreeBytesRemaining is exact, its test lets the request through.
THEOREM NothingRefused == Spec => []NoFalseFailure
<1>1. Init => HeapInv
  BY HeapStarts
<1>2. HeapInv /\ [Next]_vars => HeapInv'
  BY HeapNext
<1>3. HeapInv => NoFalseFailure
  BY NoRefusal
<1> QED BY <1>1, <1>2, <1>3, PTL DEF Spec

-----------------------------------------------------------------------------
(* The manager implements Allocator.                                       *)

\* Alignment, which the tiling does not give: every block starts at a multiple of
\* portBYTE_ALIGNMENT, and each answers a request that fits after its header.
PromiseInv ==
  /\ HeapInv
  /\ \A b \in Blocks : b % portBYTE_ALIGNMENT = 0

\* What leaves no remainder is a multiple; the sum of two multiples is one.
LEMMA Multiple ==
  ASSUME NEW n \in Nat \ {0}, NEW x \in Nat, x % n = 0
  PROVE  \E p \in Int : x = p * n
OBVIOUS

LEMMA SumAligned ==
  ASSUME NEW n \in Nat \ {0}, NEW x \in Nat, NEW y \in Nat, x % n = 0, y % n = 0
  PROVE  (x + y) % n = 0
<1>1. PICK p \in Int : x = p * n
  BY Multiple
<1>2. PICK q \in Int : y = q * n
  BY Multiple
<1>3. x + y = (p + q) * n /\ p + q \in Int
  BY <1>1, <1>2
<1>4. \A k \in Int : (k * n) % n = 0
  OBVIOUS
<1> QED BY <1>3, <1>4

\* Wanted rounds up to a multiple of the alignment.
LEMMA WantedAligned ==
  ASSUME NEW request \in Nat
  PROVE  /\ Wanted(request) % portBYTE_ALIGNMENT = 0
         /\ Wanted(request) \in Nat /\ Wanted(request) >= request + xHeapStructSize
<1> DEFINE n == portBYTE_ALIGNMENT
           bytes == request + xHeapStructSize
           over == bytes % n
<1>1. bytes \in Nat /\ n \in Nat \ {0}
  BY Heap4Assumption
<1>2. Wanted(request) = IF over = 0 THEN bytes ELSE bytes + (n - over)
  BY DEF Wanted
<1> HIDE DEF bytes, n
<1>3. over \in 0..(n - 1) /\ bytes \div n \in Int /\ bytes = (bytes \div n) * n + over
  BY <1>1
<1>4. over # 0 => bytes + (n - over) = (bytes \div n + 1) * n
  BY <1>1, <1>3
<1>5. \A k \in Int : (k * n) % n = 0
  BY <1>1
<1>6. over # 0 => (bytes + (n - over)) % n = 0
  BY <1>3, <1>4, <1>5
<1>7. (IF over = 0 THEN bytes ELSE bytes + (n - over)) % n = 0
  BY <1>6
<1>8. (IF over = 0 THEN bytes ELSE bytes + (n - over)) >= bytes
  BY <1>1, <1>3
<1>9. (IF over = 0 THEN bytes ELSE bytes + (n - over)) \in Nat
  BY <1>1, <1>3
<1> HIDE DEF over
<1> QED BY <1>2, <1>7, <1>8, <1>9 DEF n, bytes

LEMMA PromiseStarts == ASSUME Init PROVE PromiseInv /\ Promise!Init
<1>1. Blocks = {0}
  BY DEF Init, Blocks, Free
<1>2. 0 % portBYTE_ALIGNMENT = 0
  BY Heap4Assumption
<1>3. Promise!Init
  BY DEF Init, Promise!Init
<1> QED BY <1>1, <1>2, <1>3, HeapStarts DEF PromiseInv

\* The memory after the headers lies in the heap, and that of two blocks does not
\* overlap.
LEMMA TilesApart ==
  ASSUME NEW B, NEW size, Tiles(B, size)
  PROVE  /\ \A b \in B : b + xHeapStructSize \in 0..HeapEnd /\ b + size[b] \in 0..HeapEnd
         /\ \A b, c \in B : b # c =>
              /\ b + xHeapStructSize # c + xHeapStructSize
              /\ b + size[b] <= c + xHeapStructSize \/ c + size[c] <= b + xHeapStructSize
<1>1. \A b \in B : /\ b \in Address /\ b \in Int /\ 0 <= b /\ b < HeapEnd /\ HeapEnd \in Int
                   /\ size[b] \in Int /\ xHeapStructSize \in Int /\ 0 < xHeapStructSize
                   /\ xHeapStructSize <= size[b] /\ b + size[b] <= HeapEnd
  BY TileFacts
<1>2. ASSUME NEW b \in B PROVE b + xHeapStructSize \in 0..HeapEnd /\ b + size[b] \in 0..HeapEnd
  BY <1>1
<1>3. ASSUME NEW b \in B, NEW c \in B, b < c
      PROVE  /\ b + xHeapStructSize # c + xHeapStructSize
             /\ b + size[b] <= c + xHeapStructSize
  <2>1. b + size[b] <= c
    BY <1>3 DEF Tiles
  <2> QED BY <1>1, <1>3, <2>1
<1>4. \A b, c \in B : b # c => b < c \/ c < b
  BY <1>1
<1> QED BY <1>2, <1>3, <1>4

LEMMA PromiseMalloc ==
  ASSUME PromiseInv, NEW request \in Requests, pvPortMalloc(request)
  PROVE  PromiseInv' /\ Promise!malloc(request)
<1>1. HeapInv /\ HeapInv' /\ request \in Nat
  BY Heap4Assumption, HeapMalloc DEF PromiseInv
<1>2. PICK block \in Free : HandsOut(block, request)
  BY <1>1, HeapMalloc
<1>3. /\ Wanted(request) % portBYTE_ALIGNMENT = 0 /\ Wanted(request) \in Nat
      /\ Wanted(request) >= request + xHeapStructSize
      /\ portBYTE_ALIGNMENT \in Nat \ {0} /\ xHeapStructSize \in Nat
      /\ xHeapStructSize % portBYTE_ALIGNMENT = 0
  BY Heap4Assumption, <1>1, WantedAligned
<1>4. /\ block \in Nat /\ block % portBYTE_ALIGNMENT = 0 /\ block \in Address
      /\ block \notin allocated /\ allocated' = allocated \union {block}
      /\ allocated' \subseteq Blocks' /\ allocated' \subseteq Address
  BY <1>1, <1>2 DEF HandsOut, PromiseInv, HeapInv, TypeOK, Blocks, Tiles, Address
<1>5. (block + Wanted(request)) % portBYTE_ALIGNMENT = 0
  BY <1>3, <1>4, SumAligned
<1>6. PromiseInv'
  BY <1>1, <1>2, <1>5 DEF PromiseInv, HandsOut
<1> DEFINE g == [start |-> block + xHeapStructSize, end |-> block + xBlockSize'[block],
                 size |-> request]
<1>7. /\ asked'[block] = request /\ \A b \in allocated : asked'[b] = asked[b]
  BY <1>1, <1>2, <1>4 DEF HandsOut, HeapInv, TypeOK
<1>8. /\ \A b \in allocated : Grant(b)' = Grant(b)
      /\ \A b \in {block} : Grant(b)' = g
  BY <1>2, <1>7 DEF HandsOut, Grant, EndOf
<1>9. /\ \A b \in Blocks' : b + xHeapStructSize \in 0..HeapEnd
                            /\ b + xBlockSize'[b] \in 0..HeapEnd
      /\ \A b, c \in Blocks' : b # c =>
           \/ b + xBlockSize'[b] <= c + xHeapStructSize
           \/ c + xBlockSize'[c] <= b + xHeapStructSize
  BY <1>1, TilesApart DEF HeapInv
<1>10. g.start \in 0..HeapEnd /\ g.end \in 0..HeapEnd /\ g.size = request
  BY <1>4, <1>9
<1>11. g \in Promise!Grants
  BY <1>10 DEF Promise!Grants
<1>12. g.start % portBYTE_ALIGNMENT = 0
  BY <1>3, <1>4, SumAligned
<1>13. g.end >= g.start + request
  <2>1. xBlockSize'[block] >= Wanted(request) /\ xBlockSize'[block] \in Int
    BY <1>1, <1>2, <1>4 DEF HandsOut, HeapInv, TypeOK
  <2> QED BY <1>1, <1>3, <1>4, <2>1
<1>14. ASSUME NEW b \in allocated PROVE Promise!Disjoint(Grant(b), g)
  <2>1. b \in Blocks' /\ block \in Blocks' /\ b # block
    BY <1>4, <1>14
  <2>2. /\ Grant(b).start = b + xHeapStructSize
        /\ Grant(b).end = b + xBlockSize'[b]
    BY <1>2, <1>14 DEF Grant, EndOf, HandsOut
  <2> QED BY <1>9, <2>1, <2>2 DEF Promise!Disjoint
<1>15. {Grant(b) : b \in allocated}' = {Grant(b) : b \in allocated} \union {g}
  BY <1>4, <1>8
<1> HIDE DEF g
<1>16. \A h \in {Grant(b) : b \in allocated} : Promise!Disjoint(g, h)
  BY <1>14 DEF Promise!Disjoint
<1>17. g \in {Grant(b) : b \in allocated}'
  BY <1>15
<1>18. g.size = request
  BY <1>10
<1>19. Promise!malloc(request)
  BY <1>11, <1>12, <1>13, <1>15, <1>16, <1>17, <1>18 DEF Promise!malloc
<1> QED BY <1>6, <1>19

LEMMA PromiseFree ==
  ASSUME PromiseInv, NEW block \in Address, vPortFree(block)
  PROVE  PromiseInv' /\ \E g \in {Grant(b) : b \in allocated} : Promise!free(g)
<1>1. /\ HeapInv /\ HeapInv' /\ Blocks' \subseteq Blocks
      /\ \A b \in allocated \ {block} : xBlockSize'[b] = xBlockSize[b]
  BY HeapFree DEF PromiseInv
<1>2. PromiseInv'
  BY <1>1 DEF PromiseInv
<1>3. /\ block \in allocated /\ allocated' = allocated \ {block} /\ allocated \subseteq Blocks
      /\ allocated \subseteq Address
      /\ asked' = [asked EXCEPT ![block] = 0]
  BY <1>1 DEF vPortFree, Blocks, HeapInv, HeadersTell, TypeOK
<1>4. \A b \in allocated \ {block} : asked'[b] = asked[b]
  BY <1>1, <1>3 DEF HeapInv, TypeOK
<1>5. \A b \in allocated \ {block} : Grant(b)' = Grant(b)
  BY <1>1, <1>4 DEF Grant, EndOf
<1>6. \A b \in allocated \ {block} : Grant(b) # Grant(block)
  <2> SUFFICES ASSUME NEW b \in allocated \ {block} PROVE Grant(b).start # Grant(block).start
    OBVIOUS
  <2>1. b + xHeapStructSize # block + xHeapStructSize
    BY <1>1, <1>3, TilesApart DEF HeapInv
  <2> QED BY <2>1 DEF Grant
<1>7. {Grant(b) : b \in allocated}' = {Grant(b) : b \in allocated} \ {Grant(block)}
  BY <1>3, <1>5, <1>6
<1>8. Promise!free(Grant(block))
  BY <1>3, <1>7 DEF Promise!free
<1> QED BY <1>2, <1>3, <1>8

\* Every behaviour of the default memory manager is one of Allocator: what
\* pvPortMalloc returns is aligned, large enough and disjoint from all that is in
\* use, and no other call moves, grows or shrinks it.
THEOREM HeapKeepsPromise == Spec => KeepsPromise
<1>1. Init => PromiseInv /\ Promise!Init
  BY PromiseStarts
<1>2. PromiseInv /\ [Next]_vars
        => PromiseInv' /\ [Promise!Next]_{Grant(b) : b \in allocated}
  <2> SUFFICES ASSUME PromiseInv, [Next]_vars
               PROVE  PromiseInv' /\ [Promise!Next]_{Grant(b) : b \in allocated}
    OBVIOUS
  <2>1. ASSUME NEW request \in Requests, pvPortMalloc(request)
        PROVE  PromiseInv' /\ Promise!Next
    BY <2>1, PromiseMalloc DEF Promise!Next
  <2>2. ASSUME NEW block \in Address, vPortFree(block)
        PROVE  PromiseInv' /\ Promise!Next
    BY <2>2, PromiseFree DEF Promise!Next
  <2>3. CASE UNCHANGED vars
    <3>1. HeapInv'
      BY <2>3, HeapNext DEF PromiseInv
    <3>2. Blocks' = Blocks /\ {Grant(b) : b \in allocated}' = {Grant(b) : b \in allocated}
      BY <2>3 DEF vars, Blocks, Free, Grant, EndOf
    <3> QED BY <3>1, <3>2 DEF PromiseInv
  <2> QED BY <2>1, <2>2, <2>3 DEF Next
<1> QED BY <1>1, <1>2, PTL DEF Spec, KeepsPromise, Promise!Spec

-----------------------------------------------------------------------------
(* Powers of two.                                                          *)

\* A nonempty set of natural numbers up to k has a largest element.
LEMMA LargestNumber ==
  ASSUME NEW k \in Nat, NEW T, T \subseteq 0..k, T # {}
  PROVE  \E x \in T : \A y \in T : x >= y
<1> DEFINE S == {k - y : y \in T}
<1>1. S \subseteq Nat /\ S # {}
  <2>1. \A y \in T : y \in 0..k /\ k - y \in Nat
    OBVIOUS
  <2>2. PICK y \in T : TRUE
    OBVIOUS
  <2>3. k - y \in S
    BY <2>2
  <2> QED BY <2>1, <2>3
<1> HIDE DEF S
<1>2. PICK s \in S : \A y \in S : s <= y
  BY <1>1, SmallestNumber
<1>3. PICK x \in T : s = k - x
  BY DEF S
<1>4. \A y \in T : k - x <= k - y
  BY <1>2, <1>3 DEF S
<1> QED BY <1>4

\* The first powers, up to the k-th.
Powers(g, k) ==
  /\ g[0] = 1
  /\ \A i \in 1..k : g[i] = 2 * g[i - 1]
  /\ \A i \in 0..k : g[i] \in Nat /\ g[i] > 0

LEMMA PowersExist ==
  ASSUME NEW k \in Nat
  PROVE  \E g : Powers(g, k)
<1> DEFINE T == {n \in Nat : ~\E g : Powers(g, n)}
<1> SUFFICES ASSUME T # {} PROVE FALSE
  OBVIOUS
<1>1. PICK n \in T : \A m \in T : n <= m
  <2>1. T \subseteq Nat
    OBVIOUS
  <2> HIDE DEF T
  <2> QED BY <2>1, SmallestNumber
<1>2. CASE n = 0
  <2>1. Powers([i \in {0} |-> 1], 0)
    BY DEF Powers
  <2> QED BY <1>1, <1>2, <2>1
<1>3. CASE n # 0
  <2>1. n - 1 \in Nat /\ n - 1 \notin T
    BY <1>1, <1>3
  <2>2. PICK g : Powers(g, n - 1)
    BY <2>1
  <2> DEFINE h == [i \in 0..n |-> IF i = n THEN 2 * g[n - 1] ELSE g[i]]
  <2>3. Powers(h, n)
    <3>1. \A i \in 0..n : h[i] = IF i = n THEN 2 * g[n - 1] ELSE g[i]
      OBVIOUS
    <3>2. \A i \in 0..n : i = n \/ i \in 0..(n - 1)
      OBVIOUS
    <3>3. g[n - 1] \in Nat /\ g[n - 1] > 0 /\ g[0] = 1
      BY <2>1, <2>2 DEF Powers
    <3> HIDE DEF h
    <3>4. h[0] = 1
      BY <1>3, <3>1, <3>3
    <3>5. \A i \in 1..n : h[i] = 2 * h[i - 1]
      <4> SUFFICES ASSUME NEW i \in 1..n PROVE h[i] = 2 * h[i - 1]
        OBVIOUS
      <4>1. i - 1 \in 0..n /\ i - 1 # n /\ i \in 0..n
        BY <2>1
      <4>2. h[i - 1] = g[i - 1]
        BY <3>1, <4>1
      <4>3. CASE i = n
        BY <3>1, <4>1, <4>2, <4>3
      <4>4. CASE i # n
        <5>1. i \in 1..(n - 1)
          BY <2>1, <4>4
        <5> QED BY <2>2, <3>1, <4>1, <4>2, <4>4, <5>1 DEF Powers
      <4> QED BY <4>3, <4>4
    <3>6. \A i \in 0..n : h[i] \in Nat /\ h[i] > 0
      BY <2>2, <3>1, <3>2, <3>3 DEF Powers
    <3> QED BY <3>4, <3>5, <3>6 DEF Powers
  <2> QED BY <1>1, <2>3
<1> QED BY <1>2, <1>3

\* and there is only one for each.
LEMMA PowersAgree ==
  ASSUME NEW k \in Nat, NEW l \in Nat, NEW g, NEW h, Powers(g, k), Powers(h, l),
         NEW i \in 0..k, i <= l
  PROVE  g[i] = h[i]
<1> DEFINE T == {n \in Nat : n <= k /\ n <= l /\ g[n] # h[n]}
<1> SUFFICES ASSUME T # {} PROVE FALSE
  OBVIOUS
<1>1. PICK n \in T : \A m \in T : n <= m
  <2>1. T \subseteq Nat
    OBVIOUS
  <2> HIDE DEF T
  <2> QED BY <2>1, SmallestNumber
<1>2. n # 0
  BY <1>1 DEF Powers
<1>3. n - 1 \in Nat /\ n - 1 \notin T /\ n \in 1..k /\ n \in 1..l
  BY <1>1, <1>2
<1>4. g[n - 1] = h[n - 1]
  BY <1>3
<1>5. g[n] = 2 * g[n - 1] /\ h[n] = 2 * h[n - 1]
  BY <1>3 DEF Powers
<1> QED BY <1>1, <1>4, <1>5

LEMMA Pow2Laws ==
  /\ Pow2[0] = 1
  /\ \A l \in Nat : Pow2[l] \in Nat /\ Pow2[l] > 0 /\ Pow2[l + 1] = 2 * Pow2[l]
<1> DEFINE G(k) == CHOOSE g : Powers(g, k)
           f == [l \in Nat |-> G(l)[l]]
<1>1. ASSUME NEW k \in Nat PROVE Powers(G(k), k)
  BY PowersExist
<1>2. f[0] = 1
  BY <1>1 DEF Powers
<1>3. ASSUME NEW l \in Nat
      PROVE  f[l] \in Nat /\ f[l] > 0 /\ f[l + 1] = 2 * f[l]
  <2>1. l + 1 \in Nat /\ Powers(G(l), l) /\ Powers(G(l + 1), l + 1)
    BY <1>1
  <2> HIDE DEF G
  <2>2. G(l + 1)[l] = G(l)[l]
    BY <2>1, PowersAgree
  <2>3. G(l + 1)[l + 1] = 2 * G(l + 1)[(l + 1) - 1]
    BY <2>1 DEF Powers
  <2>4. (l + 1) - 1 = l
    OBVIOUS
  <2> QED BY <2>1, <2>2, <2>3, <2>4 DEF Powers
<1> HIDE DEF f
<1>4. f = [l \in Nat |-> IF l = 0 THEN 1 ELSE 2 * f[l - 1]]
  <2>1. \A l \in Nat : f[l] = IF l = 0 THEN 1 ELSE 2 * f[l - 1]
    <3> SUFFICES ASSUME NEW l \in Nat, l # 0 PROVE f[l] = 2 * f[l - 1]
      BY <1>2
    <3>1. l - 1 \in Nat /\ (l - 1) + 1 = l
      OBVIOUS
    <3> QED BY <1>3, <3>1
  <2>2. f = [l \in Nat |-> f[l]]
    BY DEF f
  <2> QED BY <2>1, <2>2
<1>5. Pow2 = [l \in Nat |-> IF l = 0 THEN 1 ELSE 2 * Pow2[l - 1]]
  BY <1>4 DEF Pow2
<1>6. \A l \in Nat : Pow2[l] = f[l]
  <2> DEFINE T == {l \in Nat : Pow2[l] # f[l]}
  <2> SUFFICES ASSUME T # {} PROVE FALSE
    OBVIOUS
  <2>1. PICK n \in T : \A m \in T : n <= m
    <3>1. T \subseteq Nat
      OBVIOUS
    <3> HIDE DEF T
    <3> QED BY <3>1, SmallestNumber
  <2>2. n \in Nat /\ Pow2[n] = IF n = 0 THEN 1 ELSE 2 * Pow2[n - 1]
    BY <1>5, <2>1
  <2>3. f[n] = IF n = 0 THEN 1 ELSE 2 * f[n - 1]
    BY <1>4, <2>1
  <2>4. n # 0
    BY <2>1, <2>2, <2>3
  <2>5. n - 1 \in Nat /\ n - 1 \notin T
    BY <2>1, <2>2, <2>4
  <2> QED BY <2>1, <2>2, <2>3, <2>5
<1> QED BY <1>2, <1>3, <1>6

LEMMA Pow2Grows ==
  ASSUME NEW a \in Nat, NEW b \in Nat, a < b
  PROVE  2 * Pow2[a] <= Pow2[b]
<1> DEFINE T == {n \in Nat : a < n /\ ~(2 * Pow2[a] <= Pow2[n])}
<1> SUFFICES ASSUME T # {} PROVE FALSE
  OBVIOUS
<1>1. PICK n \in T : \A m \in T : n <= m
  <2>1. T \subseteq Nat
    OBVIOUS
  <2> HIDE DEF T
  <2> QED BY <2>1, SmallestNumber
<1>2. n - 1 \in Nat /\ n - 1 \notin T /\ (n - 1) + 1 = n /\ a <= n - 1
  BY <1>1
<1>3. Pow2[n] = 2 * Pow2[n - 1] /\ Pow2[n - 1] \in Nat /\ Pow2[a] \in Nat /\ Pow2[n] \in Nat
  BY <1>1, <1>2, Pow2Laws
<1>4. CASE n - 1 = a
  BY <1>1, <1>3, <1>4
<1>5. CASE n - 1 # a
  <2>1. 2 * Pow2[a] <= Pow2[n - 1]
    BY <1>2, <1>5
  <2> QED BY <1>1, <1>3, <2>1
<1> QED BY <1>4, <1>5

-----------------------------------------------------------------------------
(* The shape of the tree.                                                  *)

LEMMA NodeIsNat ==
  /\ LEVEL \in Nat /\ PAGE_SIZE \in Nat /\ PAGE_SIZE > 0
  /\ Pow2[LEVEL] \in Nat /\ Pow2[LEVEL] > 0
  /\ Node \subseteq Nat /\ Root \in Node
<1>1. LEVEL \in Nat /\ PAGE_SIZE \in Nat /\ PAGE_SIZE > 0
  BY BuddyAssumption
<1>2. Pow2[LEVEL] \in Nat /\ Pow2[LEVEL] > 0
  BY <1>1, Pow2Laws
<1> QED BY <1>1, <1>2 DEF Node, Root

\* The level of a node is the number of nodes above it.
LEMMA LevelOf ==
  ASSUME NEW n \in Node
  PROVE  /\ Level[n] \in 0..LEVEL /\ Level[n] \in Nat
         /\ Pow2[Level[n]] <= n + 1 /\ n + 1 < 2 * Pow2[Level[n]]
<1> DEFINE T == {l \in Nat : n + 1 < 2 * Pow2[l]}
<1>1. LEVEL \in T
  BY NodeIsNat DEF Node
<1>2. PICK l \in T : \A k \in T : l <= k
  <2>1. T \subseteq Nat /\ T # {}
    BY <1>1
  <2> HIDE DEF T
  <2> QED BY <2>1, SmallestNumber
<1>3. l \in 0..LEVEL
  BY <1>1, <1>2, NodeIsNat
<1>4. Pow2[l] <= n + 1
  <2>1. CASE l = 0
    BY <2>1, Pow2Laws, NodeIsNat
  <2>2. CASE l # 0
    <3>1. l - 1 \in Nat /\ l - 1 \notin T /\ (l - 1) + 1 = l
      BY <1>2, <2>2
    <3>2. Pow2[l] = 2 * Pow2[l - 1] /\ Pow2[l - 1] \in Nat
      BY <3>1, Pow2Laws
    <3> QED BY <3>1, <3>2, NodeIsNat
  <2> QED BY <2>1, <2>2
<1> DEFINE P(k) == Pow2[k] <= n + 1 /\ n + 1 < 2 * Pow2[k]
<1>5. \E k \in 0..LEVEL : P(k)
  BY <1>2, <1>3, <1>4
<1>6. Level[n] = CHOOSE k \in 0..LEVEL : P(k)
  BY DEF Level
<1>7. Level[n] \in 0..LEVEL /\ P(Level[n])
  BY <1>5, <1>6
<1> QED BY <1>7, NodeIsNat

LEMMA LevelIs ==
  ASSUME NEW n \in Node, NEW l \in Nat, Pow2[l] <= n + 1, n + 1 < 2 * Pow2[l]
  PROVE  Level[n] = l
<1>1. /\ Level[n] \in Nat /\ Pow2[Level[n]] <= n + 1 /\ n + 1 < 2 * Pow2[Level[n]]
  BY LevelOf
<1>2. /\ Pow2[l] \in Nat /\ Pow2[Level[n]] \in Nat /\ n \in Nat
  BY <1>1, Pow2Laws, NodeIsNat
<1>3. CASE l < Level[n]
  <2>1. 2 * Pow2[l] <= Pow2[Level[n]]
    BY <1>1, <1>3, Pow2Grows
  <2> QED BY <1>1, <1>2, <2>1
<1>4. CASE Level[n] < l
  <2>1. 2 * Pow2[Level[n]] <= Pow2[l]
    BY <1>1, <1>4, Pow2Grows
  <2> QED BY <1>1, <1>2, <2>1
<1> QED BY <1>1, <1>3, <1>4

LEMMA RootLevel == Level[Root] = 0
BY LevelIs, NodeIsNat, Pow2Laws DEF Root

\* What is above a node, but the root.
LEMMA ParentOf ==
  ASSUME NEW n \in Node, n # Root
  PROVE  /\ Parent(n) \in Node /\ Parent(n) < n
         /\ Level[n] = Level[Parent(n)] + 1
         /\ Parent(n) = (n + 1) \div 2 - 1
         /\ n = 2 * Parent(n) + 1 \/ n = 2 * Parent(n) + 2
         /\ n \in Nat /\ Parent(n) \in Nat
<1> DEFINE p == (n + 1) \div 2 - 1
<1>1. n \in Nat /\ n > 0
  BY NodeIsNat DEF Root
<1>2. Pow2[1] = 2
  BY Pow2Laws
<1>3. Parent(n) = p
  BY <1>2 DEF Parent, Ancestor
<1>4. p \in Nat /\ p < n /\ (n = 2 * p + 1 \/ n = 2 * p + 2)
  BY <1>1
<1>5. p \in Node
  BY <1>4, NodeIsNat DEF Node
<1> HIDE DEF p
<1>6. Level[n] = Level[p] + 1
  <2> DEFINE l == Level[p]
  <2>1. l \in Nat /\ Pow2[l] <= p + 1 /\ p + 1 < 2 * Pow2[l]
    BY <1>5, LevelOf
  <2>2. l + 1 \in Nat /\ Pow2[l + 1] = 2 * Pow2[l] /\ Pow2[l] \in Nat
    BY <2>1, Pow2Laws
  <2> HIDE DEF l
  <2>3. Pow2[l + 1] <= n + 1 /\ n + 1 < 2 * Pow2[l + 1]
    BY <1>4, <2>1, <2>2
  <2>4. Level[n] = l + 1
    BY <2>2, <2>3, LevelIs
  <2> QED BY <2>4 DEF l
<1> QED BY <1>1, <1>3, <1>4, <1>5, <1>6 DEF p

LEMMA PathOf ==
  ASSUME NEW n \in Node
  PROVE  /\ Path[n] = {n} \union Above[n]
         /\ n = Root => Above[n] = {}
         /\ n # Root => Above[n] = Path[Parent(n)]
<1>1. Level[n] \in Nat /\ n \in Nat
  BY LevelOf, NodeIsNat
<1>2. /\ Path[n] = {Ancestor(n, d) : d \in 0..Level[n]}
      /\ Above[n] = {Ancestor(n, d) : d \in 1..Level[n]}
  BY DEF Path, Above
<1>3. Ancestor(n, 0) = n
  BY <1>1, Pow2Laws DEF Ancestor
<1>4. 0..Level[n] = {0} \union (1..Level[n])
  BY <1>1
<1>5. Path[n] = {n} \union Above[n]
  BY <1>2, <1>3, <1>4
<1>6. n = Root => Above[n] = {}
  BY <1>2, RootLevel
<1>7. ASSUME n # Root PROVE Above[n] = Path[Parent(n)]
  <2> DEFINE p == Parent(n)
  <2>1. p \in Node /\ Level[n] = Level[p] + 1 /\ p + 1 = (n + 1) \div 2
    BY <1>7, <1>1, ParentOf
  <2>2. Level[p] \in Nat /\ p \in Nat
    BY <2>1, LevelOf, NodeIsNat
  <2>3. ASSUME NEW e \in Nat PROVE Ancestor(n, e + 1) = Ancestor(p, e)
    <3>1. Pow2[e + 1] = 2 * Pow2[e] /\ Pow2[e] \in Nat /\ Pow2[e] > 0
      BY Pow2Laws
    <3>2. \A a \in Nat : a > 0 => (n + 1) \div (2 * a) = ((n + 1) \div 2) \div a
      BY <1>1
    <3>3. (n + 1) \div (2 * Pow2[e]) = ((n + 1) \div 2) \div Pow2[e]
      BY <3>1, <3>2
    <3> QED BY <2>1, <3>1, <3>3 DEF Ancestor
  <2>4. Path[p] = {Ancestor(p, d) : d \in 0..Level[p]}
    BY <2>1 DEF Path
  <2> HIDE DEF p
  <2>5. ASSUME NEW x \in Above[n] PROVE x \in Path[p]
    <3>1. PICK d \in 1..Level[n] : x = Ancestor(n, d)
      BY <1>2
    <3>2. d - 1 \in 0..Level[p] /\ d - 1 \in Nat /\ (d - 1) + 1 = d
      BY <2>1, <2>2
    <3>3. x = Ancestor(p, d - 1)
      BY <2>3, <3>1, <3>2
    <3> QED BY <2>4, <3>2, <3>3
  <2>6. ASSUME NEW x \in Path[p] PROVE x \in Above[n]
    <3>1. PICK d \in 0..Level[p] : x = Ancestor(p, d)
      BY <2>4
    <3>2. d + 1 \in 1..Level[n] /\ d \in Nat
      BY <2>1, <2>2
    <3>3. x = Ancestor(n, d + 1)
      BY <2>3, <3>1, <3>2
    <3> QED BY <1>2, <3>2, <3>3
  <2> QED BY <2>5, <2>6 DEF p
<1> QED BY <1>5, <1>6, <1>7

LEMMA PathUp ==
  ASSUME NEW n \in Node
  PROVE  /\ \A m \in Path[n] : m \in Node /\ m <= n
         /\ \A m \in Above[n] : m \in Node /\ m < n
         /\ Root \in Path[n]
<1> DEFINE P(k) == (\A m \in Path[k] : m \in Node /\ m <= k) /\ Root \in Path[k]
           T == {k \in Node : ~P(k)}
<1>1. ASSUME NEW k \in Node, k # Root, P(Parent(k))
      PROVE  \A m \in Above[k] : m \in Node /\ m < k
  <2>1. /\ Above[k] = Path[Parent(k)] /\ Parent(k) < k /\ Parent(k) \in Node
        /\ k \in Nat /\ Parent(k) \in Nat
    BY <1>1, ParentOf, PathOf
  <2> SUFFICES ASSUME NEW m \in Above[k] PROVE m \in Node /\ m < k
    OBVIOUS
  <2>2. m \in Node /\ m <= Parent(k)
    BY <1>1, <2>1
  <2>3. m \in Nat
    BY <2>2, NodeIsNat
  <2> HIDE DEF P
  <2> QED BY <2>1, <2>2, <2>3
<1>2. T = {}
  <2> SUFFICES ASSUME T # {} PROVE FALSE
    OBVIOUS
  <2>1. PICK k \in T : \A j \in T : k <= j
    <3>1. T \subseteq Nat
      BY NodeIsNat
    <3> HIDE DEF T
    <3> QED BY <3>1, SmallestNumber
  <2>2. k # Root
    BY <2>1, PathOf, NodeIsNat
  <2>3. Parent(k) \in Node /\ Parent(k) < k /\ Parent(k) \in Nat /\ k \in Nat
    BY <2>1, <2>2, ParentOf
  <2>4. P(Parent(k))
    <3>1. Parent(k) \notin T
      BY <2>1, <2>3
    <3> QED BY <2>3, <3>1
  <2>5. Path[k] = {k} \union Path[Parent(k)]
    BY <2>1, <2>2, PathOf
  <2>6. \A m \in Above[k] : m \in Node /\ m < k
    BY <1>1, <2>1, <2>2, <2>4
  <2>7. P(k)
    <3>1. Path[k] = {k} \union Above[k] /\ k \in Node
      BY <2>1, PathOf
    <3>2. \A m \in Path[k] : m \in Node /\ m <= k
      <4> SUFFICES ASSUME NEW m \in Path[k] PROVE m \in Node /\ m <= k
        OBVIOUS
      <4>1. CASE m = k
        BY <2>3, <3>1, <4>1
      <4>2. CASE m \in Above[k]
        <5>1. m \in Node /\ m < k /\ m \in Nat
          BY <2>6, <4>2, NodeIsNat
        <5> QED BY <2>3, <5>1
      <4> QED BY <3>1, <4>1, <4>2
    <3> QED BY <2>4, <2>5, <3>2
  <2> QED BY <2>1, <2>7
<1>3. n # Root => P(Parent(n))
  BY <1>2, ParentOf
<1> QED BY <1>1, <1>2, <1>3, PathOf

LEMMA PathTransitive ==
  ASSUME NEW n \in Node, NEW m \in Path[n]
  PROVE  Path[m] \subseteq Path[n] /\ Above[m] \subseteq Above[n]
<1> DEFINE T == {k \in Node : m \in Path[k] /\ ~(Path[m] \subseteq Path[k])}
<1>1. T = {}
  <2> SUFFICES ASSUME T # {} PROVE FALSE
    OBVIOUS
  <2>1. PICK k \in T : \A j \in T : k <= j
    <3>1. T \subseteq Nat
      BY NodeIsNat
    <3> HIDE DEF T
    <3> QED BY <3>1, SmallestNumber
  <2>2. k # m /\ Path[k] = {k} \union Above[k]
    BY <2>1, PathOf
  <2>3. k # Root
    BY <2>1, <2>2, PathOf
  <2>4. /\ Parent(k) \in Node /\ Parent(k) < k /\ Above[k] = Path[Parent(k)]
        /\ k \in Nat /\ Parent(k) \in Nat
    BY <2>1, <2>3, ParentOf, PathOf
  <2>5. Parent(k) \notin T
    BY <2>1, <2>4
  <2> QED BY <2>1, <2>2, <2>4, <2>5
<1>2. m \in Node
  BY PathUp
<1>3. Path[m] \subseteq Path[n]
  BY <1>1
<1>4. Path[n] = {n} \union Above[n] /\ Path[m] = {m} \union Above[m]
  BY <1>2, PathOf
<1>5. n \notin Above[m]
  BY <1>2, PathUp, NodeIsNat
<1> QED BY <1>3, <1>4, <1>5

LEMMA PathLinear ==
  ASSUME NEW n \in Node, NEW a \in Path[n], NEW b \in Path[n], a <= b
  PROVE  a \in Path[b]
<1> DEFINE T == {k \in Node : a \in Path[k] /\ b \in Path[k] /\ a \notin Path[b]}
<1>1. T = {}
  <2> SUFFICES ASSUME T # {} PROVE FALSE
    OBVIOUS
  <2>1. PICK k \in T : \A j \in T : k <= j
    <3>1. T \subseteq Nat
      BY NodeIsNat
    <3> HIDE DEF T
    <3> QED BY <3>1, SmallestNumber
  <2>2. k # b /\ Path[k] = {k} \union Above[k] /\ b \in Node /\ a \in Node
    BY <2>1, PathOf, PathUp
  <2>3. k # Root
    BY <2>1, <2>2, PathOf
  <2>4. /\ Parent(k) \in Node /\ Parent(k) < k /\ Above[k] = Path[Parent(k)]
        /\ k \in Nat /\ Parent(k) \in Nat
    BY <2>1, <2>3, ParentOf, PathOf
  <2>5. Parent(k) \notin T
    BY <2>1, <2>4
  <2>6. a # k
    BY <2>1, <2>2, PathUp, NodeIsNat
  <2> QED BY <2>1, <2>2, <2>4, <2>5, <2>6
<1> QED BY <1>1

\* A node above n has a child on the way to n.
LEMMA ChildOnPath ==
  ASSUME NEW n \in Node, NEW m \in Above[n]
  PROVE  \E c \in Path[n] : c # Root /\ Parent(c) = m
<1> DEFINE P(k) == \E c \in Path[k] : c # Root /\ Parent(c) = m
           T == {k \in Node : m \in Above[k] /\ ~P(k)}
<1>1. T = {}
  <2> SUFFICES ASSUME T # {} PROVE FALSE
    OBVIOUS
  <2>1. PICK k \in T : \A j \in T : k <= j
    <3>1. T \subseteq Nat
      BY NodeIsNat
    <3> HIDE DEF T
    <3> QED BY <3>1, SmallestNumber
  <2>2. k # Root
    BY <2>1, PathOf
  <2>3. /\ Parent(k) \in Node /\ Parent(k) < k /\ Above[k] = Path[Parent(k)]
        /\ k \in Nat /\ Parent(k) \in Nat
    BY <2>1, <2>2, ParentOf, PathOf
  <2>4. Path[k] = {k} \union Path[Parent(k)]
    BY <2>1, <2>3, PathOf
  <2>5. Parent(k) # m
    BY <2>1, <2>2, <2>4
  <2>6. m \in Above[Parent(k)]
    BY <2>1, <2>3, <2>5, PathOf
  <2>7. P(Parent(k))
    <3>1. Parent(k) \notin T
      BY <2>1, <2>3
    <3> QED BY <2>3, <2>6, <3>1
  <2>8. P(k)
    BY <2>4, <2>7
  <2> QED BY <2>1, <2>8
<1> QED BY <1>1

\* The size of a block is half that of the block above it.
LEMMA PagesLaws ==
  ASSUME NEW n \in Node
  PROVE  /\ Pages[n] \in Nat /\ Pages[n] > 0
         /\ n # Root => Pages[Parent(n)] = 2 * Pages[n] /\ Pages[Parent(n)] # 1
         /\ Pages[Root] = Pow2[LEVEL]
<1>1. LEVEL - Level[n] \in Nat /\ Pages[n] = Pow2[LEVEL - Level[n]]
  BY LevelOf, NodeIsNat DEF Pages
<1>2. Pages[n] \in Nat /\ Pages[n] > 0
  BY <1>1, Pow2Laws
<1>3. ASSUME n # Root PROVE Pages[Parent(n)] = 2 * Pages[n]
  <2>1. Parent(n) \in Node /\ Level[n] = Level[Parent(n)] + 1
    BY <1>3, ParentOf
  <2>2. Level[Parent(n)] \in Nat
    BY <2>1, LevelOf
  <2>3. LEVEL - Level[Parent(n)] = (LEVEL - Level[n]) + 1
    BY <2>1, <2>2, LevelOf, NodeIsNat
  <2> QED BY <1>1, <2>1, <2>3, Pow2Laws DEF Pages
<1>4. Pages[Root] = Pow2[LEVEL]
  <2>1. LEVEL - 0 = LEVEL
    BY NodeIsNat
  <2> QED BY <2>1, RootLevel, NodeIsNat DEF Pages
<1> QED BY <1>2, <1>3, <1>4

\* A block of several pages has two halves.
LEMMA Halves ==
  ASSUME NEW p \in Node, Pages[p] # 1
  PROVE  /\ 2 * p + 1 \in Node /\ 2 * p + 2 \in Node
         /\ 2 * p + 1 # Root /\ 2 * p + 2 # Root
         /\ Parent(2 * p + 1) = p /\ Parent(2 * p + 2) = p
         /\ BuddyOf(2 * p + 1) = 2 * p + 2
<1>1. Level[p] \in Nat /\ Level[p] < LEVEL
  <2>1. Level[p] # LEVEL
    <3> SUFFICES ASSUME Level[p] = LEVEL PROVE FALSE
      OBVIOUS
    <3>1. LEVEL - Level[p] = 0
      BY NodeIsNat
    <3> QED BY <3>1, Pow2Laws DEF Pages
  <2> QED BY <2>1, LevelOf, NodeIsNat
<1>2. 2 * Pow2[Level[p]] <= Pow2[LEVEL] /\ p + 1 < 2 * Pow2[Level[p]] /\ Pow2[Level[p]] \in Nat
  BY <1>1, Pow2Grows, Pow2Laws, LevelOf, NodeIsNat
<1>3. p \in Nat
  BY NodeIsNat
<1>4. 2 * p + 1 \in Node /\ 2 * p + 2 \in Node
  BY <1>2, <1>3, NodeIsNat DEF Node
<1>5. 2 * p + 1 # Root /\ 2 * p + 2 # Root
  BY <1>3 DEF Root
<1>6. Parent(2 * p + 1) = (2 * p + 1 + 1) \div 2 - 1 /\ Parent(2 * p + 2) = (2 * p + 2 + 1) \div 2 - 1
  BY <1>4, <1>5, ParentOf
<1>7. (2 * p + 1) % 2 = 1
  BY <1>3
<1> QED BY <1>3, <1>4, <1>5, <1>6, <1>7 DEF BuddyOf

LEMMA Siblings ==
  ASSUME NEW n \in Node, n # Root
  PROVE  /\ BuddyOf(n) \in Node /\ BuddyOf(n) # Root /\ BuddyOf(n) # n
         /\ Parent(BuddyOf(n)) = Parent(n) /\ BuddyOf(BuddyOf(n)) = n
         /\ Pages[Parent(n)] # 1
         /\ {n, BuddyOf(n)} = {2 * Parent(n) + 1, 2 * Parent(n) + 2}
<1> DEFINE p == Parent(n)
<1>1. p \in Node /\ p \in Nat /\ (n = 2 * p + 1 \/ n = 2 * p + 2)
  BY ParentOf
<1>2. Pages[p] # 1
  BY PagesLaws
<1>3. /\ 2 * p + 1 \in Node /\ 2 * p + 2 \in Node
      /\ 2 * p + 1 # Root /\ 2 * p + 2 # Root
      /\ Parent(2 * p + 1) = p /\ Parent(2 * p + 2) = p
      /\ BuddyOf(2 * p + 1) = 2 * p + 2
  BY <1>1, <1>2, Halves
<1>4. BuddyOf(2 * p + 2) = 2 * p + 1
  <2>1. (2 * p + 2) % 2 = 0
    BY <1>1
  <2> QED BY <1>1, <2>1 DEF BuddyOf
<1>5. 2 * p + 1 # 2 * p + 2
  BY <1>1
<1> HIDE DEF p
<1>6. Parent(n) = p
  BY DEF p
<1> QED BY <1>1, <1>2, <1>3, <1>4, <1>5, <1>6

\* A path goes through one child of a node only.
LEMMA OneHalfOnPath ==
  ASSUME NEW n \in Node, NEW c \in Path[n], NEW d \in Path[n],
         c # Root, d # Root, Parent(c) = Parent(d)
  PROVE  c = d
<1>1. c \in Node /\ d \in Node /\ c \in Nat /\ d \in Nat
  BY PathUp, NodeIsNat
<1>2. ASSUME NEW a \in Path[n], NEW b \in Path[n], a # Root, b # Root,
             Parent(a) = Parent(b), a <= b, a # b
      PROVE  FALSE
  <2>1. a \in Node /\ b \in Node /\ a \in Path[b]
    BY <1>2, PathUp, PathLinear
  <2>2. a \in Path[Parent(b)]
    BY <1>2, <2>1, PathOf
  <2>3. a <= Parent(b) /\ Parent(a) < a /\ a \in Nat /\ Parent(a) \in Nat
    BY <1>2, <2>1, <2>2, PathUp, ParentOf
  <2> QED BY <1>2, <2>3
<1> QED BY <1>1, <1>2

\* The paths to two blocks, neither in the other, part at two buddies.
LEMMA Fork ==
  ASSUME NEW n \in Node, NEW m \in Node, n \notin Path[m], m \notin Path[n]
  PROVE  \E c \in Path[n] : /\ c # Root /\ c \notin Path[m]
                            /\ BuddyOf(c) \in Path[m] /\ BuddyOf(c) \notin Path[n]
<1> DEFINE T == {k \in Path[n] : k \notin Path[m]}
<1>1. PICK c \in T : \A k \in T : c <= k
  <2>1. T \subseteq Nat
    BY PathUp, NodeIsNat
  <2>2. n \in T
    BY PathOf
  <2> HIDE DEF T
  <2> QED BY <2>1, <2>2, SmallestNumber
<1>2. c \in Path[n] /\ c \notin Path[m] /\ c \in Node
  BY <1>1, PathUp
<1>3. c # Root
  BY <1>2, PathUp
<1>4. /\ Parent(c) \in Node /\ Parent(c) < c /\ c \in Nat /\ Parent(c) \in Nat
      /\ Parent(c) \in Path[c]
  BY <1>2, <1>3, ParentOf, PathOf
<1>5. Parent(c) \in Path[n]
  BY <1>2, <1>4, PathTransitive
<1>6. Parent(c) \in Path[m]
  BY <1>1, <1>4, <1>5
<1>7. Parent(c) \in Above[m]
  BY <1>5, <1>6, PathOf
<1>8. PICK d \in Path[m] : d # Root /\ Parent(d) = Parent(c)
  BY <1>7, ChildOnPath
<1>9. d \in Node /\ d # c
  BY <1>2, <1>8, PathUp
<1>10. d = BuddyOf(c)
  BY <1>2, <1>3, <1>8, <1>9, Siblings, ParentOf
<1>11. d \notin Path[n]
  BY <1>2, <1>3, <1>8, <1>9, OneHalfOnPath
<1> QED BY <1>2, <1>3, <1>8, <1>10, <1>11

-----------------------------------------------------------------------------
(* Where the blocks lie.                                                   *)

LEMMA FirstPageLaws ==
  ASSUME NEW n \in Node
  PROVE  /\ FirstPage[n] \in Nat /\ FirstPage[Root] = 0
         /\ n # Root =>
              /\ n = 2 * Parent(n) + 1 => FirstPage[n] = FirstPage[Parent(n)]
              /\ n = 2 * Parent(n) + 2 => FirstPage[n] = FirstPage[Parent(n)] + Pages[n]
<1> USE DEF FirstPage
<1>1. /\ Level[n] \in Nat /\ Pow2[Level[n]] \in Nat /\ Pow2[Level[n]] <= n + 1 /\ n \in Nat
      /\ Pages[n] \in Nat
  BY LevelOf, Pow2Laws, NodeIsNat, PagesLaws
<1>2. FirstPage[n] \in Nat
  <2>1. n + 1 - Pow2[Level[n]] \in Nat
    BY <1>1
  <2>2. \A a \in Nat, b \in Nat : a * b \in Nat
    OBVIOUS
  <2> QED BY <1>1, <2>1, <2>2
<1>3. FirstPage[Root] = 0
  <2>1. 0 + 1 - Pow2[0] = 0
    BY Pow2Laws
  <2>2. FirstPage[0] = 0 * Pages[0]
    BY <2>1, RootLevel, NodeIsNat DEF Root
  <2>3. Pages[0] \in Nat
    BY PagesLaws, NodeIsNat DEF Root
  <2> QED BY <2>2, <2>3 DEF Root
<1>4. ASSUME n # Root, NEW r \in Nat, n = 2 * Parent(n) + 1 + r
      PROVE  FirstPage[n] = FirstPage[Parent(n)] + r * Pages[n]
  <2> DEFINE p == Parent(n)
             a == p + 1 - Pow2[Level[p]]
  <2>1. /\ p \in Node /\ p \in Nat /\ Level[n] = Level[p] + 1 /\ Level[p] \in Nat
        /\ Pages[p] = 2 * Pages[n]
    BY <1>4, ParentOf, LevelOf, PagesLaws
  <2>2. Pow2[Level[n]] = 2 * Pow2[Level[p]] /\ Pow2[Level[p]] \in Nat
    BY <2>1, Pow2Laws
  <2>3. n + 1 - Pow2[Level[n]] = 2 * a + r /\ a \in Int
    <3> HIDE DEF p
    <3>1. n = 2 * p + 1 + r
      BY <1>4 DEF p
    <3> QED BY <2>1, <2>2, <3>1
  <2> HIDE DEF a
  <2>4. FirstPage[n] = (2 * a + r) * Pages[n]
    BY <2>3
  <2>5. FirstPage[p] = a * (2 * Pages[n])
    BY <2>1 DEF a
  <2>6. \A x \in Int, y \in Nat, z \in Nat : (2 * x + y) * z = x * (2 * z) + y * z
    OBVIOUS
  <2> QED BY <1>1, <2>3, <2>4, <2>5, <2>6
<1>5. ASSUME n # Root, n = 2 * Parent(n) + 1 PROVE FirstPage[n] = FirstPage[Parent(n)]
  <2>1. Parent(n) \in Node /\ Parent(n) \in Nat
    BY <1>5, ParentOf
  <2>2. n = 2 * Parent(n) + 1 + 0 /\ 0 * Pages[n] = 0
    BY <1>1, <1>5, <2>1
  <2>3. FirstPage[n] = FirstPage[Parent(n)] + 0 * Pages[n]
    BY <1>4, <1>5, <2>2
  <2>4. FirstPage[Parent(n)] \in Int
    <3>1. Level[Parent(n)] \in Nat /\ Pages[Parent(n)] \in Nat
      BY <2>1, LevelOf, PagesLaws
    <3>2. Pow2[Level[Parent(n)]] \in Nat
      BY <3>1, Pow2Laws
    <3> QED BY <2>1, <3>1, <3>2
  <2> QED BY <2>2, <2>3, <2>4
<1>6. ASSUME n # Root, n = 2 * Parent(n) + 2 PROVE FirstPage[n] = FirstPage[Parent(n)] + Pages[n]
  <2>1. Parent(n) \in Node /\ Parent(n) \in Nat
    BY <1>6, ParentOf
  <2>2. n = 2 * Parent(n) + 1 + 1 /\ 1 * Pages[n] = Pages[n]
    BY <1>1, <1>6, <2>1
  <2> QED BY <1>4, <1>6, <2>2
<1> QED BY <1>2, <1>3, <1>5, <1>6

\* A block lies in every block above it.
LEMMA Inside ==
  ASSUME NEW n \in Node, NEW m \in Path[n]
  PROVE  /\ FirstPage[m] <= FirstPage[n]
         /\ FirstPage[n] + Pages[n] <= FirstPage[m] + Pages[m]
<1> DEFINE P(k) == /\ FirstPage[m] <= FirstPage[k]
                   /\ FirstPage[k] + Pages[k] <= FirstPage[m] + Pages[m]
           T == {k \in Node : m \in Path[k] /\ ~P(k)}
<1>0. m \in Node /\ FirstPage[m] \in Nat /\ Pages[m] \in Nat
  BY PathUp, FirstPageLaws, PagesLaws
<1>1. T = {}
  <2> SUFFICES ASSUME T # {} PROVE FALSE
    OBVIOUS
  <2>1. PICK k \in T : \A j \in T : k <= j
    <3>1. T \subseteq Nat
      BY NodeIsNat
    <3> HIDE DEF T
    <3> QED BY <3>1, SmallestNumber
  <2>2. k # m
    BY <1>0, <2>1
  <2>3. k # Root
    BY <2>1, <2>2, PathOf
  <2>4. /\ Parent(k) \in Node /\ Parent(k) < k /\ m \in Path[Parent(k)]
        /\ k \in Nat /\ Parent(k) \in Nat
    BY <2>1, <2>2, <2>3, ParentOf, PathOf
  <2>5. P(Parent(k))
    <3>1. Parent(k) \notin T
      BY <2>1, <2>4
    <3> QED BY <2>4, <3>1
  <2>6. /\ FirstPage[k] \in Nat /\ Pages[k] \in Nat /\ FirstPage[Parent(k)] \in Nat
        /\ Pages[Parent(k)] = 2 * Pages[k]
        /\ FirstPage[k] \in {FirstPage[Parent(k)], FirstPage[Parent(k)] + Pages[k]}
    BY <2>1, <2>3, <2>4, ParentOf, PagesLaws, FirstPageLaws
  <2>7. P(k)
    BY <1>0, <2>5, <2>6
  <2> QED BY <2>1, <2>7
<1> QED BY <1>1

LEMMA InsideHeap ==
  ASSUME NEW n \in Node
  PROVE  FirstPage[n] + Pages[n] <= Pow2[LEVEL]
<1>1. Root \in Path[n] /\ FirstPage[Root] = 0 /\ Pages[Root] = Pow2[LEVEL]
  BY PathUp, FirstPageLaws, PagesLaws
<1>2. FirstPage[n] + Pages[n] <= 0 + Pow2[LEVEL]
  BY <1>1, Inside
<1> QED BY <1>2, NodeIsNat

\* Blocks that do not lie in each other have no page in common.
LEMMA Apart ==
  ASSUME NEW n \in Node, NEW m \in Node, n \notin Path[m], m \notin Path[n]
  PROVE  \/ FirstPage[n] + Pages[n] <= FirstPage[m]
         \/ FirstPage[m] + Pages[m] <= FirstPage[n]
<1>1. PICK c \in Path[n] : c # Root /\ BuddyOf(c) \in Path[m]
  BY Fork
<1> DEFINE b == BuddyOf(c)
           p == Parent(c)
<1>2. c \in Node /\ b \in Node /\ b # Root /\ Parent(b) = p /\ b # c /\ p \in Node
  BY <1>1, PathUp, Siblings, ParentOf
<1>3. c \in {2 * p + 1, 2 * p + 2} /\ b \in {2 * p + 1, 2 * p + 2}
  BY <1>1, <1>2, Siblings
<1>4. /\ FirstPage[c] \in Nat /\ FirstPage[b] \in Nat /\ FirstPage[n] \in Nat /\ FirstPage[m] \in Nat
      /\ Pages[c] \in Nat /\ Pages[b] \in Nat /\ Pages[n] \in Nat /\ Pages[m] \in Nat
      /\ Pages[p] = 2 * Pages[c] /\ Pages[p] = 2 * Pages[b]
  BY <1>1, <1>2, PagesLaws, FirstPageLaws
<1>5. FirstPage[c] + Pages[c] <= FirstPage[b] \/ FirstPage[b] + Pages[b] <= FirstPage[c]
  <2>1. /\ c = 2 * p + 1 => FirstPage[c] = FirstPage[p]
        /\ c = 2 * p + 2 => FirstPage[c] = FirstPage[p] + Pages[c]
        /\ b = 2 * p + 1 => FirstPage[b] = FirstPage[p]
        /\ b = 2 * p + 2 => FirstPage[b] = FirstPage[p] + Pages[b]
        /\ FirstPage[p] \in Nat
    BY <1>1, <1>2, FirstPageLaws
  <2> HIDE DEF b, p
  <2> QED BY <1>2, <1>3, <1>4, <2>1
<1>6. /\ FirstPage[c] <= FirstPage[n] /\ FirstPage[n] + Pages[n] <= FirstPage[c] + Pages[c]
      /\ FirstPage[b] <= FirstPage[m] /\ FirstPage[m] + Pages[m] <= FirstPage[b] + Pages[b]
  BY <1>1, Inside
<1> HIDE DEF b, p
<1> QED BY <1>4, <1>5, <1>6

-----------------------------------------------------------------------------
(* What a step does to the nodes that the walks look at.                   *)

LEMMA AboveTransitive ==
  ASSUME NEW n \in Node, NEW m \in Above[n]
  PROVE  m \in Path[n] /\ Path[m] \subseteq Above[n]
<1>1. m \in Path[n] /\ m \in Node
  BY PathOf, PathUp
<1> QED BY <1>1, PathOf, PathTransitive

LEMMA ParentAbove ==
  ASSUME NEW n \in Node, NEW c \in Path[n], c # Root
  PROVE  Parent(c) \in Above[n] /\ BuddyOf(c) \notin Path[n]
<1>1. c \in Node /\ Parent(c) \in Node
  BY PathUp, ParentOf
<1>2. Parent(c) \in Above[c]
  BY <1>1, PathOf
<1>3. BuddyOf(c) \notin Path[n]
  BY <1>1, Siblings, OneHalfOnPath
<1> QED BY <1>2, <1>3, PathTransitive

TreeTypes ==
  /\ tree \in [Node -> NODE_UNUSED..NODE_FULL]
  /\ wanted \in [Node -> Sizes \union {0}]
  /\ \A m \in Node : Pages[m] = 1 => tree[m] \in {NODE_UNUSED, NODE_USED}

\* buddy_alloc takes n, that is in the unused node top.
AllocEffect(n, top) ==
  /\ n \in Node /\ top \in Path[n]
  /\ tree[top] = NODE_UNUSED
  /\ \A m \in Above[top] : tree[m] = NODE_SPLIT
  /\ tree' \in [Node -> NODE_UNUSED..NODE_FULL]
  /\ tree'[n] = NODE_USED
  /\ \A m \in Above[n] :
       tree'[m] = IF \A b \in Path[n] : b > m => tree'[BuddyOf(b)] \in {NODE_USED, NODE_FULL}
                  THEN NODE_FULL ELSE NODE_SPLIT
  /\ \A m \in Node : /\ m # Root /\ m \notin Path[n] /\ top \in Path[m] /\ Parent(m) \in Above[n]
                     => tree'[m] = NODE_UNUSED
  /\ \A m \in Node : m \notin Path[n] /\ top \notin Path[m] => tree'[m] = tree[m]
  /\ \A m \in Node : m \notin Above[n] => tree'[m] \in {tree[m], NODE_UNUSED, NODE_USED}

LEMMA AllocSteps ==
  ASSUME TreeTypes, NEW request \in Sizes, buddy_alloc(request)
  PROVE  \E n \in Node : /\ Pages[n] = PagesFor(request)
                         /\ wanted' = [wanted EXCEPT ![n] = request]
                         /\ \E top : AllocEffect(n, top)
<1> DEFINE found == Candidates(PagesFor(request))
           n == Min(found)
           top == CHOOSE m \in Node : Reaches(n, m)
           split == Above[n] \ Above[top]
           T == Taken(n)
<1>1. found # {} /\ tree' = _mark_parent(T, n) /\ wanted' = [wanted EXCEPT ![n] = request]
  BY DEF buddy_alloc
<1>2. n \in found
  <2>1. found \subseteq Nat
    BY NodeIsNat DEF Candidates
  <2> HIDE DEF found
  <2>2. \E x \in found : \A y \in found : x <= y
    BY <1>1, <2>1, SmallestNumber
  <2> QED BY <2>2 DEF Min
<1>3. n \in Node /\ Pages[n] = PagesFor(request) /\ \E m \in Node : Reaches(n, m)
  BY <1>2 DEF Candidates
<1> HIDE DEF found, n
<1>4. top \in Node /\ Reaches(n, top)
  BY <1>3
<1>5. T = [m \in Node |-> IF m = n THEN NODE_USED
                          ELSE IF m \in split THEN NODE_SPLIT
                          ELSE IF m # Root /\ Parent(m) \in split THEN NODE_UNUSED
                          ELSE tree[m]]
  BY DEF Taken
<1> HIDE DEF top, T
<1>6. top \in Path[n] /\ tree[top] = NODE_UNUSED /\ \A m \in Above[top] : tree[m] = NODE_SPLIT
  BY <1>4 DEF Reaches
<1>7. \A m \in split : m \in Above[n] /\ top \in Path[m] /\ m \in Node
  <2> SUFFICES ASSUME NEW m \in split PROVE m \in Above[n] /\ top \in Path[m] /\ m \in Node
    OBVIOUS
  <2>1. m \in Above[n] /\ m \notin Above[top] /\ m \in Path[n] /\ m \in Node
    BY <1>3, PathOf, PathUp
  <2>2. m \in Nat /\ top \in Nat
    BY <1>4, <2>1, NodeIsNat
  <2>3. CASE m <= top
    <3>1. m \in Path[top]
      BY <1>3, <1>6, <2>1, <2>3, PathLinear
    <3>2. m = top
      BY <1>4, <2>1, <3>1, PathOf
    <3> QED BY <2>1, <3>2, PathOf
  <2>4. CASE top <= m
    BY <1>3, <1>6, <2>1, <2>4, PathLinear
  <2> QED BY <2>2, <2>3, <2>4
<1>8. \A m \in Above[n] : T[m] = NODE_SPLIT
  <2> SUFFICES ASSUME NEW m \in Above[n], m \notin split PROVE T[m] = NODE_SPLIT
    BY <1>3, <1>5, PathUp, NodeIsNat
  <2>1. m \in Above[top] /\ m \in Node /\ m # n
    BY <1>3, PathUp, NodeIsNat
  <2>2. ~(m # Root /\ Parent(m) \in split)
    <3> SUFFICES ASSUME m # Root, Parent(m) \in split PROVE FALSE
      OBVIOUS
    <3>1. top \in Path[Parent(m)] /\ Parent(m) \in Node
      BY <1>7
    <3>2. top <= Parent(m) /\ Parent(m) < m /\ m < top
      BY <1>4, <2>1, <3>1, PathUp, ParentOf
    <3>3. top \in Nat /\ m \in Nat /\ Parent(m) \in Nat
      BY <1>4, <2>1, <3>1, NodeIsNat
    <3> QED BY <3>2, <3>3
  <2> QED BY <1>5, <1>6, <2>1, <2>2
<1>9. tree' = [m \in Node |->
                 IF /\ m \in Above[n]
                    /\ \A b \in Path[n] : b > m => T[BuddyOf(b)] \in {NODE_USED, NODE_FULL}
                 THEN NODE_FULL ELSE T[m]]
  BY <1>1 DEF _mark_parent
<1>10. \A m \in Node : m \notin Above[n] => tree'[m] = T[m]
  BY <1>9
<1>11. \A m \in Above[n] : \A b \in Path[n] : b > m =>
         tree'[BuddyOf(b)] = T[BuddyOf(b)]
  <2> SUFFICES ASSUME NEW m \in Above[n], NEW b \in Path[n], b > m
               PROVE  tree'[BuddyOf(b)] = T[BuddyOf(b)]
    OBVIOUS
  <2>1. m \in Nat /\ b \in Node /\ b \in Nat
    BY <1>3, PathUp, NodeIsNat
  <2>2. b # Root
    BY <2>1 DEF Root
  <2>3. BuddyOf(b) \in Node /\ BuddyOf(b) \notin Path[n]
    BY <1>3, <2>1, <2>2, Siblings, ParentAbove
  <2> QED BY <1>3, <1>10, <2>3, PathOf
<1>12. \A m \in Node : T[m] \in {tree[m], NODE_UNUSED, NODE_USED, NODE_SPLIT}
  BY <1>5
<1>13. tree' \in [Node -> NODE_UNUSED..NODE_FULL]
  BY <1>9, <1>12 DEF TreeTypes, NODE_UNUSED, NODE_USED, NODE_SPLIT, NODE_FULL
<1>14. tree'[n] = NODE_USED
  BY <1>3, <1>5, <1>10, PathUp, NodeIsNat
<1>15. \A m \in Above[n] :
         tree'[m] = IF \A b \in Path[n] : b > m => tree'[BuddyOf(b)] \in {NODE_USED, NODE_FULL}
                    THEN NODE_FULL ELSE NODE_SPLIT
  <2> SUFFICES ASSUME NEW m \in Above[n]
               PROVE tree'[m] = IF \A b \in Path[n] : b > m => tree'[BuddyOf(b)] \in {NODE_USED, NODE_FULL}
                                THEN NODE_FULL ELSE NODE_SPLIT
    OBVIOUS
  <2>1. m \in Node /\ T[m] = NODE_SPLIT
    BY <1>3, <1>8, PathUp
  <2>2. tree'[m] = IF \A b \in Path[n] : b > m => T[BuddyOf(b)] \in {NODE_USED, NODE_FULL}
                   THEN NODE_FULL ELSE NODE_SPLIT
    BY <1>9, <2>1
  <2> QED BY <1>11, <2>2
<1>16. ASSUME NEW m \in Node, m # Root, m \notin Path[n], top \in Path[m], Parent(m) \in Above[n]
       PROVE  tree'[m] = NODE_UNUSED
  <2>1. m # n /\ m \notin Above[n] /\ m # top
    BY <1>3, <1>6, <1>16, PathOf
  <2>2. Parent(m) \in Node /\ top \in Path[Parent(m)]
    BY <1>16, <2>1, PathOf, ParentOf
  <2>3. Parent(m) \notin Above[top]
    <3>1. top <= Parent(m) /\ top \in Nat /\ Parent(m) \in Nat
      BY <1>4, <2>2, PathUp, NodeIsNat
    <3> QED BY <1>4, <3>1, PathUp
  <2> QED BY <1>5, <1>10, <1>16, <2>1, <2>3
<1>17. ASSUME NEW m \in Node, m \notin Path[n], top \notin Path[m]
       PROVE  tree'[m] = tree[m]
  <2>1. m # n /\ m \notin Above[n]
    BY <1>3, <1>17, PathOf
  <2>2. ~(m # Root /\ Parent(m) \in split)
    BY <1>7, <1>17, PathOf
  <2> QED BY <1>5, <1>10, <2>1, <2>2
<1>18. ASSUME NEW m \in Node, m \notin Above[n]
       PROVE  tree'[m] \in {tree[m], NODE_UNUSED, NODE_USED}
  BY <1>5, <1>10, <1>18
<1>19. AllocEffect(n, top)
  BY <1>3, <1>6, <1>13, <1>14, <1>15, <1>16, <1>17, <1>18 DEF AllocEffect
<1> QED BY <1>1, <1>3, <1>19

\* After that the walks look at what they could look at before, and below top at
\* the nodes on the way to n and their buddies.
LEMMA AllocVisible ==
  ASSUME TreeTypes, NEW n, NEW top, AllocEffect(n, top), NEW m \in Node
  PROVE  Visible(m)' <=> IF top \in Above[m] THEN m # Root /\ Parent(m) \in Above[n]
                         ELSE Visible(m)
<1> USE DEF NODE_UNUSED, NODE_USED, NODE_SPLIT, NODE_FULL
<1>1. /\ n \in Node /\ top \in Path[n] /\ top \in Node /\ top \in Nat
      /\ tree[top] = NODE_UNUSED
      /\ \A a \in Above[top] : tree[a] = NODE_SPLIT
      /\ tree'[n] = NODE_USED
      /\ \A a \in Above[n] : tree'[a] \in {NODE_SPLIT, NODE_FULL}
      /\ \A a \in Node : a \notin Path[n] /\ top \notin Path[a] => tree'[a] = tree[a]
  BY PathUp, NodeIsNat DEF AllocEffect
<1>2. \A a \in Node : /\ a # Root /\ a \notin Path[n] /\ top \in Path[a] /\ Parent(a) \in Above[n]
                      => tree'[a] = NODE_UNUSED
  BY DEF AllocEffect
<1>3. ASSUME top \notin Above[m] PROVE Visible(m)' <=> Visible(m)
  <2> SUFFICES ASSUME NEW a \in Above[m]
               PROVE  tree'[a] \in {NODE_SPLIT, NODE_FULL} <=> tree[a] \in {NODE_SPLIT, NODE_FULL}
    BY DEF Visible
  <2>1. a \in Node /\ a \in Nat /\ top \notin Path[a]
    BY <1>3, AboveTransitive, PathUp, NodeIsNat
  <2>2. CASE a \notin Path[n]
    BY <1>1, <2>1, <2>2
  <2>3. CASE a \in Path[n]
    <3>1. a # n
      BY <1>1, <2>1
    <3>2. a \in Above[n]
      BY <1>1, <2>3, <3>1, PathOf
    <3>3. ~(top <= a)
      BY <1>1, <2>1, <2>3, PathLinear
    <3>4. a \in Path[top] /\ a # top
      BY <1>1, <2>1, <2>3, <3>3, PathLinear
    <3>5. a \in Above[top]
      BY <1>1, <3>4, PathOf
    <3> QED BY <1>1, <3>2, <3>5
  <2> QED BY <2>2, <2>3
<1>4. ASSUME top \in Above[m], m # Root, Parent(m) \in Above[n] PROVE Visible(m)'
  <2>1. Above[m] \subseteq Above[n]
    BY <1>1, <1>4, PathOf, AboveTransitive
  <2> QED BY <1>1, <2>1 DEF Visible
<1>5. ASSUME top \in Above[m], Visible(m)' PROVE m # Root /\ Parent(m) \in Above[n]
  <2>1. m # Root
    BY <1>5, PathOf
  <2> SUFFICES ASSUME Parent(m) \notin Above[n] PROVE FALSE
    BY <2>1
  <2>2. m \notin Path[n]
    BY <1>1, <2>1, ParentAbove
  <2>3. n \notin Path[m]
    BY <1>1, <1>5, <2>2, PathOf DEF Visible
  <2>4. PICK c \in Path[m] : c # Root /\ c \notin Path[n] /\ BuddyOf(c) \in Path[n]
    BY <1>1, <2>2, <2>3, Fork
  <2>5. c \in Node /\ c \in Nat
    BY <2>4, PathUp, NodeIsNat
  <2>6. Parent(c) \in Above[n]
    BY <1>1, <2>4, <2>5, Siblings, ParentAbove
  <2>7. c \in Above[m]
    BY <2>4, <2>6, PathOf
  <2>8. top \in Path[c]
    <3>1. top \in Path[m]
      BY <1>5, PathOf
    <3>2. CASE top <= c
      BY <2>4, <3>1, <3>2, PathLinear
    <3>3. CASE c <= top
      <4>1. c \in Path[top]
        BY <2>4, <3>1, <3>3, PathLinear
      <4> QED BY <1>1, <2>4, <4>1, PathTransitive
    <3> QED BY <1>1, <2>5, <3>2, <3>3
  <2>9. tree'[c] = NODE_UNUSED
    BY <1>2, <2>4, <2>5, <2>6, <2>8
  <2> QED BY <1>5, <2>7, <2>9 DEF Visible
<1> QED BY <1>3, <1>4, <1>5

LEMMA AllocInUse ==
  ASSUME TreeTypes, NEW n, NEW top, AllocEffect(n, top)
  PROVE  /\ InUse' = InUse \union {n}
         /\ \A m \in InUse : m \notin Path[n] /\ n \notin Path[m]
<1> USE DEF NODE_UNUSED, NODE_USED, NODE_SPLIT, NODE_FULL
<1>1. /\ n \in Node /\ top \in Path[n] /\ top \in Node
      /\ tree[top] = NODE_UNUSED
      /\ \A a \in Above[top] : tree[a] = NODE_SPLIT
      /\ tree'[n] = NODE_USED
      /\ \A a \in Above[n] : tree'[a] \in {NODE_SPLIT, NODE_FULL}
      /\ \A a \in Node : a \notin Path[n] /\ top \notin Path[a] => tree'[a] = tree[a]
      /\ \A a \in Node : /\ a # Root /\ a \notin Path[n] /\ top \in Path[a] /\ Parent(a) \in Above[n]
                         => tree'[a] = NODE_UNUSED
  BY PathUp DEF AllocEffect
<1>2. /\ InUse = {m \in Node : tree[m] = NODE_USED /\ Visible(m)}
      /\ InUse' = {m \in Node : tree'[m] = NODE_USED /\ Visible(m)'}
  BY DEF InUse, Visible
<1>3. ASSUME NEW m \in InUse PROVE top \notin Path[m] /\ m \notin Path[n]
  <2>1. m \in Node /\ tree[m] = NODE_USED /\ Visible(m)
    BY <1>2
  <2>2. top \notin Path[m]
    BY <1>1, <2>1, PathOf DEF Visible
  <2>3. m \notin Path[n]
    <3> SUFFICES ASSUME m \in Path[n] PROVE FALSE
      OBVIOUS
    <3>1. m \in Nat /\ top \in Nat
      BY <1>1, <2>1, NodeIsNat
    <3>2. ~(top <= m)
      BY <1>1, <2>2, PathLinear
    <3>3. m \in Path[top] /\ m # top
      BY <1>1, <3>1, <3>2, PathLinear
    <3> QED BY <1>1, <2>1, <3>3, PathOf
  <2> QED BY <2>2, <2>3
<1>4. ASSUME NEW m \in InUse PROVE m \in InUse' /\ n \notin Path[m]
  <2>1. m \in Node /\ tree[m] = NODE_USED /\ Visible(m) /\ top \notin Path[m] /\ m \notin Path[n]
    BY <1>2, <1>3
  <2>2. tree'[m] = NODE_USED
    BY <1>1, <2>1
  <2>3. Visible(m)'
    BY <2>1, AllocVisible, PathOf
  <2>4. n \notin Path[m]
    BY <1>1, <2>1, PathTransitive
  <2> QED BY <1>2, <2>1, <2>2, <2>3, <2>4
<1>5. n \in InUse'
  <2>1. Visible(n)'
    BY <1>1 DEF Visible
  <2> QED BY <1>1, <1>2, <2>1
<1>6. ASSUME NEW m \in InUse', m # n PROVE m \in InUse
  <2>1. m \in Node /\ tree'[m] = NODE_USED /\ Visible(m)'
    BY <1>2
  <2>2. m \notin Path[n]
    BY <1>1, <1>6, <2>1, PathOf
  <2>3. top # m
    BY <1>1, <2>2
  <2>4. top \notin Above[m]
    <3> SUFFICES ASSUME top \in Above[m] PROVE FALSE
      OBVIOUS
    <3>1. m # Root /\ Parent(m) \in Above[n] /\ top \in Path[m]
      BY <2>1, AllocVisible, PathOf
    <3> QED BY <1>1, <2>1, <2>2, <3>1
  <2>5. top \notin Path[m] /\ Visible(m)
    BY <2>1, <2>3, <2>4, AllocVisible, PathOf
  <2>6. tree[m] = NODE_USED
    BY <1>1, <2>1, <2>2, <2>5
  <2> QED BY <1>2, <2>1, <2>5, <2>6
<1> QED BY <1>3, <1>4, <1>5, <1>6

\* The two halves of a divided node.
HalvesRight(t, p) ==
  LET halves == {t[2 * p + 1], t[2 * p + 2]}
  IN  /\ t[p] = NODE_FULL <=> halves \subseteq {NODE_USED, NODE_FULL}
      /\ halves # {NODE_UNUSED}

LEMMA HalvesOfChild ==
  ASSUME NEW t, NEW c \in Node, c # Root,
         t[Parent(c)] = NODE_FULL <=> t[c] \in {NODE_USED, NODE_FULL}
                                      /\ t[BuddyOf(c)] \in {NODE_USED, NODE_FULL},
         t[c] # NODE_UNUSED \/ t[BuddyOf(c)] # NODE_UNUSED
  PROVE  HalvesRight(t, Parent(c))
<1>1. {c, BuddyOf(c)} = {2 * Parent(c) + 1, 2 * Parent(c) + 2}
  BY Siblings
<1>2. {t[c], t[BuddyOf(c)]} = {t[2 * Parent(c) + 1], t[2 * Parent(c) + 2]}
  BY <1>1
<1> QED BY <1>2 DEF HalvesRight

LEMMA ChildOfHalves ==
  ASSUME NEW t, NEW c \in Node, c # Root, HalvesRight(t, Parent(c))
  PROVE  /\ t[Parent(c)] = NODE_FULL <=> t[c] \in {NODE_USED, NODE_FULL}
                                         /\ t[BuddyOf(c)] \in {NODE_USED, NODE_FULL}
         /\ t[c] # NODE_UNUSED \/ t[BuddyOf(c)] # NODE_UNUSED
<1>1. {c, BuddyOf(c)} = {2 * Parent(c) + 1, 2 * Parent(c) + 2}
  BY Siblings
<1>2. {t[c], t[BuddyOf(c)]} = {t[2 * Parent(c) + 1], t[2 * Parent(c) + 2]}
  BY <1>1
<1> QED BY <1>2 DEF HalvesRight

LEMMA MarksByNode ==
  /\ MarksExact <=> \A p \in Node : Visible(p) /\ tree[p] \in {NODE_SPLIT, NODE_FULL}
                                    => HalvesRight(tree, p)
  /\ MarksExact' <=> \A p \in Node : Visible(p)' /\ tree'[p] \in {NODE_SPLIT, NODE_FULL}
                                     => HalvesRight(tree', p)
<1>1. MarksExact <=> \A p \in Node : Visible(p) /\ tree[p] \in {NODE_SPLIT, NODE_FULL}
                                     => HalvesRight(tree, p)
  BY DEF MarksExact, HalvesRight
<1>2. MarksExact' <=> \A p \in Node : Visible(p)' /\ tree'[p] \in {NODE_SPLIT, NODE_FULL}
                                      => HalvesRight(tree', p)
  BY DEF MarksExact, HalvesRight
<1> QED BY <1>1, <1>2

LEMMA AllocMarks ==
  ASSUME TreeTypes, MarksExact, NEW n, NEW top, AllocEffect(n, top)
  PROVE  MarksExact'
<1> USE DEF NODE_UNUSED, NODE_USED, NODE_SPLIT, NODE_FULL
<1>1. /\ n \in Node /\ top \in Path[n] /\ top \in Node
      /\ tree'[n] = NODE_USED
      /\ \A a \in Node : a \notin Path[n] /\ top \notin Path[a] => tree'[a] = tree[a]
      /\ \A a \in Node : /\ a # Root /\ a \notin Path[n] /\ top \in Path[a] /\ Parent(a) \in Above[n]
                         => tree'[a] = NODE_UNUSED
      /\ \A m \in Node : m \notin Above[n] => tree'[m] \in {tree[m], NODE_UNUSED, NODE_USED}
  BY PathUp DEF AllocEffect
<1> DEFINE Filled(b) == tree'[BuddyOf(b)] \in {NODE_USED, NODE_FULL}
<1>2. \A a \in Above[n] : tree'[a] = IF \A b \in Path[n] : b > a => Filled(b)
                                     THEN NODE_FULL ELSE NODE_SPLIT
  BY DEF AllocEffect
<1> SUFFICES ASSUME NEW p \in Node, Visible(p)', tree'[p] \in {NODE_SPLIT, NODE_FULL}
             PROVE  HalvesRight(tree', p)
  BY MarksByNode
<1>3. CASE p \in Above[n]
  <2>1. PICK c \in Path[n] : c # Root /\ Parent(c) = p
    BY <1>1, <1>3, ChildOnPath
  <2>2. c \in Node /\ c \in Nat /\ p \in Nat /\ p < c
    BY <1>1, <2>1, PathUp, ParentOf
  <2>3. \A b \in Path[n] : b \in Nat /\ (b > p <=> b = c \/ b > c)
    <3> SUFFICES ASSUME NEW b \in Path[n] PROVE b \in Nat /\ (b > p <=> b = c \/ b > c)
      OBVIOUS
    <3>1. b \in Nat
      BY <1>1, PathUp, NodeIsNat
    <3>2. ASSUME b < c PROVE b <= p
      <4>1. b \in Path[c] /\ b # c
        BY <1>1, <2>2, <3>1, <3>2, PathLinear
      <4>2. b \in Path[p]
        BY <2>1, <2>2, <4>1, PathOf
      <4> QED BY <4>2, PathUp
    <3> QED BY <2>2, <3>1, <3>2
  <2>4. tree'[p] = NODE_FULL <=> \A b \in Path[n] : b > p => Filled(b)
    BY <1>2, <1>3
  <2>5. tree'[p] = NODE_FULL <=> Filled(c) /\ \A b \in Path[n] : b > c => Filled(b)
    BY <2>1, <2>3, <2>4
  <2>6. /\ tree'[c] # NODE_UNUSED
        /\ tree'[c] \in {NODE_USED, NODE_FULL} <=> \A b \in Path[n] : b > c => Filled(b)
    <3>1. CASE c = n
      <4>1. \A b \in Path[n] : b <= n
        BY <1>1, PathUp
      <4>2. \A b \in Path[n] : ~(b > c)
        BY <2>2, <2>3, <3>1, <4>1
      <4> QED BY <1>1, <3>1, <4>2
    <3>2. CASE c # n
      <4>1. c \in Above[n]
        BY <1>1, <2>1, <3>2, PathOf
      <4> QED BY <1>2, <4>1
    <3> QED BY <3>1, <3>2
  <2> QED BY <2>1, <2>2, <2>5, <2>6, HalvesOfChild
<1>4. CASE p \notin Above[n]
  <2>1. p \notin Path[n]
    BY <1>1, <1>4, PathOf
  <2>2. top \notin Path[p]
    <3> SUFFICES ASSUME top \in Path[p] PROVE FALSE
      OBVIOUS
    <3>1. top \in Above[p]
      BY <1>1, <2>1, PathOf
    <3>2. p # Root /\ Parent(p) \in Above[n]
      BY <3>1, AllocVisible
    <3> QED BY <1>1, <2>1, <3>2
  <2>3. Visible(p) /\ tree'[p] = tree[p]
    BY <1>1, <2>1, <2>2, AllocVisible, PathOf
  <2>4. HalvesRight(tree, p)
    BY <2>3, MarksByNode
  <2>5. Pages[p] # 1
    BY <2>3 DEF TreeTypes
  <2>6. ASSUME NEW c \in Node, c # Root, Parent(c) = p PROVE tree'[c] = tree[c]
    <3>1. c \notin Path[n]
      BY <1>1, <1>4, <2>6, ParentAbove
    <3>2. top \notin Path[c]
      BY <1>1, <2>2, <2>6, <3>1, PathOf
    <3> QED BY <1>1, <3>1, <3>2
  <2>7. tree'[2 * p + 1] = tree[2 * p + 1] /\ tree'[2 * p + 2] = tree[2 * p + 2]
    BY <2>5, <2>6, Halves
  <2> QED BY <2>3, <2>4, <2>7 DEF HalvesRight
<1> QED BY <1>3, <1>4

\* buddy_free gives back n, whose merged block is then unused.
FreeEffect(n, merged) ==
  /\ n \in InUse /\ merged \in Path[n]
  /\ tree' \in [Node -> NODE_UNUSED..NODE_FULL]
  /\ tree'[merged] = NODE_UNUSED
  /\ \A b \in Path[n] : b > merged => tree[BuddyOf(b)] = NODE_UNUSED
  /\ merged = Root \/ tree[BuddyOf(merged)] # NODE_UNUSED
  /\ \A m \in Node : m \notin Path[merged] => tree'[m] = tree[m]
  /\ \A m \in Above[merged] :
       tree'[m] = IF \A b \in Above[merged] : b >= m => tree[b] = NODE_FULL
                  THEN NODE_SPLIT ELSE tree[m]

LEMMA FreeSteps ==
  ASSUME TreeTypes, NEW pointer, buddy_free(pointer)
  PROVE  \E n \in InUse : /\ wanted' = [wanted EXCEPT ![n] = 0]
                          /\ \E merged : FreeEffect(n, merged)
<1>1. PICK n \in InUse : tree' = _combine(n) /\ wanted' = [wanted EXCEPT ![n] = 0]
  BY DEF buddy_free
<1> DEFINE S == {a \in Path[n] : a = Root \/ tree[BuddyOf(a)] # NODE_UNUSED}
           merged == Max(S)
           reopened == {a \in Above[merged] : \A b \in Above[merged] : b >= a => tree[b] = NODE_FULL}
<1>2. n \in Node /\ n \in Nat
  BY NodeIsNat DEF InUse
<1>3. merged \in S /\ \A a \in S : merged >= a
  <2>1. S \subseteq 0..n
    <3>1. \A a \in Path[n] : a \in Nat /\ a <= n
      BY <1>2, PathUp, NodeIsNat
    <3> QED BY <1>2, <3>1
  <2>2. Root \in S
    BY <1>2, PathUp
  <2> HIDE DEF S
  <2>3. \E x \in S : \A y \in S : x >= y
    BY <1>2, <2>1, <2>2, LargestNumber
  <2> QED BY <2>3 DEF Max
<1>4. tree' = [m \in Node |-> IF m = merged THEN NODE_UNUSED
                              ELSE IF m \in reopened THEN NODE_SPLIT ELSE tree[m]]
  BY <1>1 DEF _combine
<1> HIDE DEF merged
<1>5. merged \in Path[n] /\ merged \in Node /\ merged \in Nat
  BY <1>2, <1>3, PathUp, NodeIsNat
<1>6. tree' \in [Node -> NODE_UNUSED..NODE_FULL]
  BY <1>4 DEF TreeTypes, NODE_UNUSED, NODE_USED, NODE_SPLIT, NODE_FULL
<1>7. ASSUME NEW b \in Path[n], b > merged PROVE tree[BuddyOf(b)] = NODE_UNUSED
  <2>1. b \in Nat
    BY <1>2, PathUp, NodeIsNat
  <2>2. ~(merged >= b)
    BY <1>5, <1>7, <2>1
  <2> QED BY <1>3, <1>7, <2>2
<1>8. merged = Root \/ tree[BuddyOf(merged)] # NODE_UNUSED
  BY <1>3
<1>9. ASSUME NEW m \in Node, m \notin Path[merged] PROVE tree'[m] = tree[m]
  BY <1>4, <1>5, <1>9, PathOf
<1>10. ASSUME NEW m \in Above[merged]
       PROVE  tree'[m] = IF \A b \in Above[merged] : b >= m => tree[b] = NODE_FULL
                         THEN NODE_SPLIT ELSE tree[m]
  <2>1. m \in Node /\ m # merged
    BY <1>5, PathUp
  <2> QED BY <1>4, <2>1
<1>11. tree'[merged] = NODE_UNUSED
  BY <1>4, <1>5
<1>12. FreeEffect(n, merged)
  BY <1>5, <1>6, <1>7, <1>8, <1>9, <1>10, <1>11 DEF FreeEffect
<1> QED BY <1>1, <1>12

LEMMA FreeVisible ==
  ASSUME NEW n, NEW merged, FreeEffect(n, merged), NEW m \in Node
  PROVE  Visible(m)' <=> Visible(m) /\ merged \notin Above[m]
<1> USE DEF NODE_UNUSED, NODE_USED, NODE_SPLIT, NODE_FULL
<1>1. n \in Node /\ merged \in Node /\ tree'[merged] = NODE_UNUSED
  BY PathUp DEF FreeEffect, InUse
<1>2. ASSUME NEW a \in Node, merged # a
      PROVE  tree'[a] \in {NODE_SPLIT, NODE_FULL} <=> tree[a] \in {NODE_SPLIT, NODE_FULL}
  <2>1. CASE a \notin Path[merged]
    BY <2>1 DEF FreeEffect
  <2>2. CASE a \in Path[merged]
    <3>1. a \in Above[merged]
      BY <1>1, <1>2, <2>2, PathOf
    <3>2. tree'[a] = IF \A b \in Above[merged] : b >= a => tree[b] = NODE_FULL
                     THEN NODE_SPLIT ELSE tree[a]
      BY <3>1 DEF FreeEffect
    <3>3. a \in Nat
      BY NodeIsNat
    <3>4. (\A b \in Above[merged] : b >= a => tree[b] = NODE_FULL) => tree[a] = NODE_FULL
      BY <3>1, <3>3
    <3> QED BY <3>2, <3>4
  <2> QED BY <2>1, <2>2
<1>3. \A a \in Above[m] : a \in Node
  BY PathUp
<1> QED BY <1>1, <1>2, <1>3 DEF Visible

LEMMA FreeInUse ==
  ASSUME NEW n, NEW merged, FreeEffect(n, merged)
  PROVE  InUse' = InUse \ {n}
<1> USE DEF NODE_UNUSED, NODE_USED, NODE_SPLIT, NODE_FULL
<1>1. /\ n \in Node /\ tree[n] = NODE_USED /\ Visible(n)
      /\ merged \in Path[n] /\ merged \in Node /\ merged \in Nat
      /\ tree'[merged] = NODE_UNUSED
  BY PathUp, NodeIsNat DEF FreeEffect, InUse, Visible
<1>2. /\ InUse = {m \in Node : tree[m] = NODE_USED /\ Visible(m)}
      /\ InUse' = {m \in Node : tree'[m] = NODE_USED /\ Visible(m)'}
  BY DEF InUse, Visible
<1>3. ASSUME NEW a \in Above[merged] PROVE tree[a] # NODE_USED /\ tree'[a] # NODE_USED
  <2>1. a \in Above[n]
    BY <1>1, PathTransitive
  <2>2. tree[a] \in {NODE_SPLIT, NODE_FULL}
    BY <1>1, <2>1 DEF Visible
  <2> QED BY <2>2 DEF FreeEffect
<1>4. \A m \in Node : m # merged => (tree'[m] = NODE_USED <=> tree[m] = NODE_USED)
  <2>1. \A m \in Node : m \in Path[merged] => m = merged \/ m \in Above[merged]
    BY <1>1, PathOf
  <2>2. \A m \in Node : m \notin Path[merged] => tree'[m] = tree[m]
    BY DEF FreeEffect
  <2> QED BY <1>3, <2>1, <2>2
<1>5. \A m \in Node : m \in InUse' <=> m \in InUse /\ merged \notin Path[m]
  <2> SUFFICES ASSUME NEW m \in Node PROVE m \in InUse' <=> m \in InUse /\ merged \notin Path[m]
    OBVIOUS
  <2>1. Path[m] = {m} \union Above[m]
    BY PathOf
  <2> QED BY <1>1, <1>2, <1>4, <2>1, FreeVisible
<1>6. ASSUME NEW m \in InUse, merged \in Path[m], m # n PROVE FALSE
  <2>1. m \in Node /\ tree[m] = NODE_USED /\ Visible(m) /\ m \in Nat
    BY <1>2, NodeIsNat
  <2>2. m \notin Path[n] /\ n \notin Path[m]
    <3>1. m \notin Above[n] /\ n \notin Above[m]
      BY <1>1, <2>1 DEF Visible
    <3> QED BY <1>1, <1>6, <2>1, <3>1, PathOf
  <2>3. PICK c \in Path[n] : c # Root /\ c \notin Path[m] /\ BuddyOf(c) \in Path[m]
    BY <1>1, <2>1, <2>2, Fork
  <2>4. c \in Node /\ c \in Nat
    BY <1>1, <2>3, PathUp, NodeIsNat
  <2>5. c > merged
    <3> SUFFICES ASSUME c <= merged PROVE FALSE
      BY <1>1, <2>4
    <3>1. c \in Path[merged]
      BY <1>1, <2>3, PathLinear
    <3> QED BY <1>6, <2>1, <2>3, <3>1, PathTransitive
  <2>6. tree[BuddyOf(c)] = NODE_UNUSED
    BY <2>3, <2>5 DEF FreeEffect
  <2> QED BY <2>1, <2>3, <2>6, PathOf DEF Visible
<1>7. n \in InUse /\ \A m \in InUse \union InUse' : m \in Node
  BY <1>2 DEF FreeEffect
<1> QED BY <1>1, <1>5, <1>6, <1>7

LEMMA FreeMarks ==
  ASSUME TreeTypes, MarksExact, NEW n, NEW merged, FreeEffect(n, merged)
  PROVE  MarksExact'
<1> USE DEF NODE_UNUSED, NODE_USED, NODE_SPLIT, NODE_FULL
<1>1. /\ n \in Node /\ tree[n] = NODE_USED /\ Visible(n)
      /\ merged \in Path[n] /\ merged \in Node /\ merged \in Nat
      /\ tree'[merged] = NODE_UNUSED
      /\ \A m \in Node : m \notin Path[merged] => tree'[m] = tree[m]
  BY PathUp, NodeIsNat DEF FreeEffect, InUse, Visible
<1> DEFINE Full(a) == \A b \in Above[merged] : b >= a => tree[b] = NODE_FULL
<1>2. \A a \in Above[merged] :
        /\ tree'[a] = IF Full(a) THEN NODE_SPLIT ELSE tree[a]
        /\ tree[a] \in {NODE_SPLIT, NODE_FULL} /\ Visible(a)
        /\ Full(a) => tree[a] = NODE_FULL
  <2> SUFFICES ASSUME NEW a \in Above[merged]
               PROVE  /\ tree'[a] = IF Full(a) THEN NODE_SPLIT ELSE tree[a]
                      /\ tree[a] \in {NODE_SPLIT, NODE_FULL} /\ Visible(a)
                      /\ Full(a) => tree[a] = NODE_FULL
    OBVIOUS
  <2>1. a \in Above[n] /\ a \in Nat
    BY <1>1, PathTransitive, PathUp, NodeIsNat
  <2>2. Above[a] \subseteq Above[n]
    BY <1>1, <2>1, AboveTransitive, PathTransitive
  <2> QED BY <1>1, <2>1, <2>2 DEF Visible, FreeEffect
<1> SUFFICES ASSUME NEW p \in Node, Visible(p)', tree'[p] \in {NODE_SPLIT, NODE_FULL}
             PROVE  HalvesRight(tree', p)
  BY MarksByNode
<1>3. Visible(p) /\ merged \notin Path[p]
  BY <1>1, FreeVisible, PathOf
<1>4. CASE p \in Above[merged]
  <2>1. PICK c \in Path[merged] : c # Root /\ Parent(c) = p
    BY <1>1, <1>4, ChildOnPath
  <2>2. c \in Node /\ c \in Nat /\ p \in Nat /\ p < c
    BY <1>1, <2>1, PathUp, ParentOf
  <2>3. HalvesRight(tree, p)
    BY <1>2, <1>4, MarksByNode
  <2>4. /\ tree[p] = NODE_FULL <=> tree[c] \in {NODE_USED, NODE_FULL}
                                   /\ tree[BuddyOf(c)] \in {NODE_USED, NODE_FULL}
        /\ tree[c] # NODE_UNUSED \/ tree[BuddyOf(c)] # NODE_UNUSED
    BY <2>1, <2>2, <2>3, ChildOfHalves
  <2>5. tree'[BuddyOf(c)] = tree[BuddyOf(c)]
    <3>1. BuddyOf(c) \in Node /\ BuddyOf(c) \notin Path[merged]
      BY <1>1, <2>1, <2>2, Siblings, ParentAbove
    <3> QED BY <1>1, <3>1
  <2>6. \A b \in Above[merged] : b \in Nat /\ (b >= p <=> b = p \/ b >= c)
    <3> SUFFICES ASSUME NEW b \in Above[merged]
                 PROVE  b \in Nat /\ (b >= p <=> b = p \/ b >= c)
      OBVIOUS
    <3>1. b \in Nat /\ b \in Path[merged]
      BY <1>1, AboveTransitive, PathUp, NodeIsNat
    <3>2. ASSUME b < c PROVE b <= p
      <4>1. b \in Path[c] /\ b # c
        BY <1>1, <2>1, <2>2, <3>1, <3>2, PathLinear
      <4>2. b \in Path[p]
        BY <2>1, <2>2, <4>1, PathOf
      <4> QED BY <4>2, PathUp
    <3> QED BY <2>2, <3>1, <3>2
  <2>7. Full(p) <=> tree[p] = NODE_FULL /\ \A b \in Above[merged] : b >= c => tree[b] = NODE_FULL
    BY <1>4, <2>6
  <2>8. CASE c = merged
    <3>1. \A b \in Above[merged] : ~(b >= c)
      BY <1>1, <2>2, <2>6, <2>8, PathUp
    <3>2. Full(p) <=> tree[p] = NODE_FULL
      BY <2>7, <3>1
    <3>3. tree'[p] = NODE_SPLIT
      BY <1>2, <1>4, <3>2
    <3>4. tree[BuddyOf(c)] # NODE_UNUSED
      BY <2>1, <2>8 DEF FreeEffect
    <3> QED BY <1>1, <2>1, <2>2, <2>5, <2>8, <3>3, <3>4, HalvesOfChild
  <2>9. CASE c # merged
    <3>1. c \in Above[merged]
      BY <1>1, <2>1, <2>9, PathOf
    <3>2. /\ tree'[c] = IF Full(c) THEN NODE_SPLIT ELSE tree[c]
          /\ tree[c] \in {NODE_SPLIT, NODE_FULL}
          /\ Full(c) => tree[c] = NODE_FULL
      BY <1>2, <3>1
    <3>3. /\ tree'[p] = IF Full(p) THEN NODE_SPLIT ELSE tree[p]
          /\ tree[p] \in {NODE_SPLIT, NODE_FULL}
      BY <1>2, <1>4
    <3>4. Full(p) <=> tree[p] = NODE_FULL /\ Full(c)
      BY <2>7
    <3> HIDE DEF Full
    <3>5. tree'[p] = NODE_FULL <=> tree'[c] \in {NODE_USED, NODE_FULL}
                                   /\ tree'[BuddyOf(c)] \in {NODE_USED, NODE_FULL}
      BY <2>4, <2>5, <3>2, <3>3, <3>4
    <3>6. tree'[c] # NODE_UNUSED
      BY <3>2
    <3> QED BY <2>1, <2>2, <3>5, <3>6, HalvesOfChild
  <2> QED BY <2>8, <2>9
<1>5. CASE p \notin Above[merged]
  <2>1. p \notin Path[merged]
    BY <1>1, <1>3, <1>5, PathOf
  <2>2. tree'[p] = tree[p]
    BY <1>1, <2>1
  <2>3. HalvesRight(tree, p)
    BY <1>3, <2>2, MarksByNode
  <2>4. Pages[p] # 1
    BY <2>2 DEF TreeTypes
  <2>5. ASSUME NEW c \in Node, c # Root, Parent(c) = p PROVE tree'[c] = tree[c]
    <3>1. c \notin Path[merged]
      BY <1>1, <1>5, <2>5, ParentAbove
    <3> QED BY <1>1, <3>1
  <2>6. tree'[2 * p + 1] = tree[2 * p + 1] /\ tree'[2 * p + 2] = tree[2 * p + 2]
    BY <2>4, <2>5, Halves
  <2> QED BY <2>2, <2>3, <2>6 DEF HalvesRight
<1> QED BY <1>4, <1>5

-----------------------------------------------------------------------------
(* The invariant.                                                          *)

TreeInv == TreeTypes /\ MarksExact

LEMMA TreeInvHolds == TreeSpec => []TreeInv
<1> USE DEF NODE_UNUSED, NODE_USED, NODE_SPLIT, NODE_FULL
<1>1. TreeInit => TreeInv
  BY DEF TreeInit, TreeInv, TreeTypes, MarksExact
<1>2. TreeInv /\ [TreeNext]_treeVars => TreeInv'
  <2> SUFFICES ASSUME TreeInv, [TreeNext]_treeVars PROVE TreeInv'
    OBVIOUS
  <2>1. ASSUME NEW request \in Sizes, buddy_alloc(request) PROVE TreeInv'
    <3>1. PICK n \in Node : /\ wanted' = [wanted EXCEPT ![n] = request]
                            /\ \E top : AllocEffect(n, top)
      BY <2>1, AllocSteps DEF TreeInv
    <3>2. PICK top : AllocEffect(n, top)
      BY <3>1
    <3>3. MarksExact'
      BY <3>2, AllocMarks DEF TreeInv
    <3>4. \A m \in Node : Pages[m] = 1 => m \notin Above[n]
      <4> SUFFICES ASSUME NEW m \in Above[n] PROVE Pages[m] # 1
        OBVIOUS
      <4>1. PICK c \in Path[n] : c # Root /\ Parent(c) = m
        BY ChildOnPath
      <4> QED BY <4>1, PathUp, PagesLaws
    <3>5. \A m \in Node : Pages[m] = 1 => tree'[m] \in {NODE_UNUSED, NODE_USED}
      BY <3>2, <3>4 DEF AllocEffect, TreeInv, TreeTypes
    <3>6. wanted' \in [Node -> Sizes \union {0}]
      BY <3>1 DEF TreeInv, TreeTypes
    <3> QED BY <3>2, <3>3, <3>5, <3>6 DEF AllocEffect, TreeInv, TreeTypes
  <2>2. ASSUME NEW pointer, buddy_free(pointer) PROVE TreeInv'
    <3>1. PICK n \in InUse : /\ wanted' = [wanted EXCEPT ![n] = 0]
                             /\ \E merged : FreeEffect(n, merged)
      BY <2>2, FreeSteps DEF TreeInv
    <3>2. PICK merged : FreeEffect(n, merged)
      BY <3>1
    <3>3. MarksExact'
      BY <3>2, FreeMarks DEF TreeInv
    <3>4. merged \in Node
      BY <3>2, PathUp DEF FreeEffect, InUse
    <3>5. ASSUME NEW m \in Node, Pages[m] = 1 PROVE tree'[m] \in {NODE_UNUSED, NODE_USED}
      <4>1. m \notin Above[merged]
        <5> SUFFICES ASSUME m \in Above[merged] PROVE FALSE
          OBVIOUS
        <5>1. PICK c \in Path[merged] : c # Root /\ Parent(c) = m
          BY <3>4, ChildOnPath
        <5> QED BY <3>4, <3>5, <5>1, PathUp, PagesLaws
      <4>2. m = merged \/ m \notin Path[merged]
        BY <3>4, <4>1, PathOf
      <4> QED BY <3>2, <3>5, <4>2 DEF FreeEffect, TreeInv, TreeTypes
    <3>6. wanted' \in [Node -> Sizes \union {0}]
      BY <3>1 DEF TreeInv, TreeTypes
    <3> QED BY <3>2, <3>3, <3>5, <3>6 DEF FreeEffect, TreeInv, TreeTypes
  <2>3. CASE UNCHANGED treeVars
    BY <2>3 DEF treeVars, TreeInv, TreeTypes, MarksExact, Visible
  <2> QED BY <2>1, <2>2, <2>3 DEF TreeNext
<1> QED BY <1>1, <1>2, PTL DEF TreeSpec

-----------------------------------------------------------------------------
(* What the callers rely on.                                               *)

\* A request gets at least as many pages as it needs.
LEMMA PagesForEnough ==
  ASSUME NEW request \in Nat, NEW n \in Node, Pages[n] = PagesFor(request)
  PROVE  request <= Pages[n] * PAGE_SIZE
<1> DEFINE pages == (request + PAGE_SIZE - 1) \div PAGE_SIZE
           powers == {p \in {Pow2[l] : l \in 0..(LEVEL + 1)} : p >= pages}
<1>1. pages \in Nat /\ request <= pages * PAGE_SIZE
  <2>1. PAGE_SIZE \in Nat /\ PAGE_SIZE > 0
    BY NodeIsNat
  <2>0. \A a, c \in Nat : c > 0 => /\ a = (a \div c) * c + (a % c)
                                  /\ a % c \in 0..(c - 1) /\ a \div c \in Nat
    OBVIOUS
  <2> DEFINE a == request + PAGE_SIZE - 1
  <2>2. a \in Nat
    BY <2>1
  <2>3. a = pages * PAGE_SIZE + (a % PAGE_SIZE) /\ a % PAGE_SIZE \in 0..(PAGE_SIZE - 1) /\ pages \in Nat
    <3>1. pages = a \div PAGE_SIZE
      OBVIOUS
    <3> HIDE DEF a, pages
    <3> QED BY <2>0, <2>1, <2>2, <3>1
  <2>4. \A k \in Nat : k * PAGE_SIZE \in Nat
    BY <2>1
  <2> HIDE DEF pages
  <2>5. pages * PAGE_SIZE \in Nat
    BY <2>3, <2>4
  <2>6. a % PAGE_SIZE < PAGE_SIZE /\ a % PAGE_SIZE \in Nat
    BY <2>1, <2>3
  <2> QED BY <2>1, <2>3, <2>5, <2>6
<1> HIDE DEF pages
<1>2. Pages[n] >= pages
  <2>1. /\ Pages[n] \in Nat /\ Pages[n] > 0 /\ Pages[n] <= Pow2[LEVEL]
        /\ Pow2[LEVEL] < Pow2[LEVEL + 1] /\ Pow2[LEVEL] \in Nat /\ Pow2[LEVEL + 1] \in Nat
    <3>1. FirstPage[n] + Pages[n] <= Pow2[LEVEL] /\ FirstPage[n] \in Nat
      BY InsideHeap, FirstPageLaws
    <3> QED BY <3>1, PagesLaws, NodeIsNat, Pow2Laws
  <2>2. PagesFor(request) = IF pages > Pow2[LEVEL] THEN Pow2[LEVEL + 1]
                            ELSE IF pages = 0 THEN 1 ELSE Min(powers)
    BY DEF PagesFor, next_pow_of_2, pages
  <2>3. CASE pages > Pow2[LEVEL]
    BY <2>1, <2>2, <2>3
  <2>4. CASE pages = 0
    BY <2>1, <2>4
  <2>5. CASE ~(pages > Pow2[LEVEL]) /\ pages # 0
    <3>1. powers \subseteq Nat
      <4>1. \A l \in 0..(LEVEL + 1) : Pow2[l] \in Nat
        BY Pow2Laws, NodeIsNat
      <4> QED BY <4>1
    <3>2. Pow2[LEVEL] \in powers
      <4>1. LEVEL \in 0..(LEVEL + 1) /\ Pow2[LEVEL] >= pages
        BY <1>1, <2>1, <2>5, NodeIsNat
      <4> QED BY <4>1
    <3>3. \A p \in powers : p >= pages
      OBVIOUS
    <3> HIDE DEF powers
    <3>4. Min(powers) \in powers
      <4>1. \E x \in powers : \A y \in powers : x <= y
        BY <3>1, <3>2, SmallestNumber
      <4> QED BY <4>1 DEF Min
    <3>5. Pages[n] = Min(powers)
      BY <2>2, <2>5
    <3> QED BY <3>3, <3>4, <3>5
  <2> QED BY <2>3, <2>4, <2>5
<1>3. \A a, b, c \in Nat : a >= b => b * c <= a * c
  OBVIOUS
<1>4. pages * PAGE_SIZE <= Pages[n] * PAGE_SIZE
  BY <1>1, <1>2, <1>3, PagesLaws, NodeIsNat
<1>5. pages * PAGE_SIZE \in Nat /\ Pages[n] * PAGE_SIZE \in Nat
  <2>1. \A a, b \in Nat : a * b \in Nat
    OBVIOUS
  <2> QED BY <1>1, <2>1, PagesLaws, NodeIsNat
<1> QED BY <1>1, <1>4, <1>5

\* Blocks in bytes.
LEMMA BlockLaws ==
  ASSUME NEW n \in Node
  PROVE  /\ Start(n) \in Nat /\ End(n) \in Nat /\ Start(n) < End(n)
         /\ Start(n) = FirstPage[n] * PAGE_SIZE
         /\ End(n) = Start(n) + Pages[n] * PAGE_SIZE
         /\ End(n) = (FirstPage[n] + Pages[n]) * PAGE_SIZE
         /\ End(n) <= Pow2[LEVEL] * PAGE_SIZE
         /\ Start(n) % PAGE_SIZE = 0
<1>1. /\ FirstPage[n] \in Nat /\ Pages[n] \in Nat /\ Pages[n] > 0 /\ PAGE_SIZE \in Nat /\ PAGE_SIZE > 0
      /\ Pow2[LEVEL] \in Nat /\ FirstPage[n] + Pages[n] <= Pow2[LEVEL]
  BY FirstPageLaws, PagesLaws, NodeIsNat, InsideHeap
<1>2. /\ \A a, b, c \in Nat : a * c + b * c = (a + b) * c /\ a * c \in Nat /\ (a <= b => a * c <= b * c)
      /\ \A a, c \in Nat : a > 0 /\ c > 0 => a * c > 0
      /\ \A a, c \in Nat : c > 0 => (a * c) % c = 0
  <2>1. \A a, b, c \in Nat : a * c + b * c = (a + b) * c /\ a * c \in Nat /\ (a <= b => a * c <= b * c)
    OBVIOUS
  <2>2. \A a, c \in Nat : a > 0 /\ c > 0 => a * c > 0
    OBVIOUS
  <2>3. \A a, c \in Nat : c > 0 => (a * c) % c = 0
    OBVIOUS
  <2> QED BY <2>1, <2>2, <2>3
<1>3. /\ Start(n) = FirstPage[n] * PAGE_SIZE /\ End(n) = FirstPage[n] * PAGE_SIZE + Pages[n] * PAGE_SIZE
  BY DEF Start, End, _index_offset
<1>4. FirstPage[n] + Pages[n] \in Nat /\ (FirstPage[n] + Pages[n]) * PAGE_SIZE <= Pow2[LEVEL] * PAGE_SIZE
  BY <1>1, <1>2
<1>5. /\ FirstPage[n] * PAGE_SIZE \in Nat /\ Pages[n] * PAGE_SIZE \in Nat /\ Pages[n] * PAGE_SIZE > 0
      /\ FirstPage[n] * PAGE_SIZE + Pages[n] * PAGE_SIZE = (FirstPage[n] + Pages[n]) * PAGE_SIZE
      /\ (FirstPage[n] * PAGE_SIZE) % PAGE_SIZE = 0
  BY <1>1, <1>2
<1> QED BY <1>3, <1>4, <1>5

LEMMA BlocksApart ==
  ASSUME NEW n \in Node, NEW m \in Node, n \notin Path[m], m \notin Path[n]
  PROVE  End(n) <= Start(m) \/ End(m) <= Start(n)
<1>1. \A a, b, c \in Nat : a <= b => a * c <= b * c
  OBVIOUS
<1>2. /\ FirstPage[n] \in Nat /\ Pages[n] \in Nat /\ FirstPage[m] \in Nat /\ Pages[m] \in Nat
      /\ PAGE_SIZE \in Nat
  BY FirstPageLaws, PagesLaws, NodeIsNat
<1>3. CASE FirstPage[n] + Pages[n] <= FirstPage[m]
  <2>1. (FirstPage[n] + Pages[n]) * PAGE_SIZE <= FirstPage[m] * PAGE_SIZE
    BY <1>1, <1>2, <1>3
  <2> QED BY <2>1, BlockLaws
<1>4. CASE FirstPage[m] + Pages[m] <= FirstPage[n]
  <2>1. (FirstPage[m] + Pages[m]) * PAGE_SIZE <= FirstPage[n] * PAGE_SIZE
    BY <1>1, <1>2, <1>4
  <2> QED BY <2>1, BlockLaws
<1> QED BY <1>3, <1>4, Apart

LEMMA UsedApart ==
  ASSUME NEW n \in InUse, NEW m \in InUse, n # m
  PROVE  n \in Node /\ m \in Node /\ n \notin Path[m] /\ m \notin Path[n]
<1>1. /\ n \in Node /\ m \in Node /\ n \notin Above[m] /\ m \notin Above[n]
  BY DEF InUse, NODE_USED, NODE_SPLIT, NODE_FULL
<1> QED BY <1>1, PathOf

LEMMA PromiseAlloc ==
  ASSUME TreeInv, NEW request \in Sizes, buddy_alloc(request)
  PROVE  Service!malloc(request)
<1>1. PICK n \in Node : /\ Pages[n] = PagesFor(request)
                        /\ wanted' = [wanted EXCEPT ![n] = request]
                        /\ \E top : AllocEffect(n, top)
  BY AllocSteps DEF TreeInv
<1>2. InUse' = InUse \union {n} /\ \A m \in InUse : m \in Node /\ m \notin Path[n] /\ n \notin Path[m]
  BY <1>1, AllocInUse DEF TreeInv, InUse
<1>3. n \notin InUse
  BY <1>2, PathOf
<1> DEFINE g == [start |-> Start(n), end |-> End(n), size |-> request]
           blocks == {Block(m) : m \in InUse}
<1>4. /\ \A m \in InUse : Block(m)' = Block(m)
      /\ \A m \in {n} : Block(m)' = g
  BY <1>1, <1>2, <1>3 DEF Block, TreeInv, TreeTypes, Start, End
<1>5. blocks' = blocks \union {g}
  BY <1>2, <1>4
<1>6. request \in Nat /\ PAGE_SIZE \in Nat
  BY BuddyAssumption
<1>7. /\ Start(n) \in Nat /\ End(n) \in Nat /\ End(n) <= Pow2[LEVEL] * PAGE_SIZE /\ Start(n) < End(n)
      /\ Start(n) % PAGE_SIZE = 0 /\ End(n) = Start(n) + Pages[n] * PAGE_SIZE
  BY BlockLaws
<1>8. Pow2[LEVEL] * PAGE_SIZE \in Nat
  <2>1. \A a, b \in Nat : a * b \in Nat
    OBVIOUS
  <2> QED BY <1>6, <2>1, NodeIsNat
<1>9. g \in Service!Grants
  <2>1. Start(n) \in 0..(Pow2[LEVEL] * PAGE_SIZE) /\ End(n) \in 0..(Pow2[LEVEL] * PAGE_SIZE)
    BY <1>7, <1>8
  <2> QED BY <2>1 DEF Service!Grants
<1>10. g.end >= g.start + request
  <2>1. request <= Pages[n] * PAGE_SIZE
    BY <1>1, <1>6, PagesForEnough
  <2>2. Pages[n] * PAGE_SIZE \in Nat
    <3>1. \A a, b \in Nat : a * b \in Nat
      OBVIOUS
    <3> QED BY <1>6, <3>1, PagesLaws
  <2>3. End(n) >= Start(n) + request
    BY <1>6, <1>7, <2>1, <2>2
  <2> QED BY <2>3
<1>11. ASSUME NEW m \in InUse PROVE Service!Disjoint(g, Block(m))
  <2>1. End(n) <= Start(m) \/ End(m) <= Start(n)
    BY <1>2, BlocksApart
  <2> QED BY <2>1 DEF Service!Disjoint, Block
<1>12. g.start % PAGE_SIZE = 0 /\ g.size = request
  BY <1>7
<1> HIDE DEF g
<1>13. \A h \in blocks : Service!Disjoint(g, h)
  BY <1>11
<1> QED BY <1>5, <1>9, <1>10, <1>12, <1>13 DEF Service!malloc

LEMMA PromiseRelease ==
  ASSUME TreeInv, NEW pointer, buddy_free(pointer)
  PROVE  \E g \in {Block(m) : m \in InUse} : Service!free(g)
<1>1. PICK n \in InUse : /\ wanted' = [wanted EXCEPT ![n] = 0]
                         /\ \E merged : FreeEffect(n, merged)
  BY FreeSteps DEF TreeInv
<1>2. InUse' = InUse \ {n}
  BY <1>1, FreeInUse
<1>3. \A m \in InUse \ {n} : Block(m)' = Block(m)
  BY <1>1 DEF Block, TreeInv, TreeTypes, InUse, Start, End
<1>4. ASSUME NEW m \in InUse \ {n} PROVE Block(m) # Block(n)
  <2>1. m \in Node /\ n \in Node /\ (End(n) <= Start(m) \/ End(m) <= Start(n))
    BY UsedApart, BlocksApart
  <2>2. /\ Start(n) < End(n) /\ Start(m) < End(m) /\ Start(n) \in Nat /\ Start(m) \in Nat
        /\ End(n) \in Nat /\ End(m) \in Nat
    BY <2>1, BlockLaws
  <2>3. Start(n) # Start(m)
    BY <2>1, <2>2
  <2>4. Block(m).start = Start(m) /\ Block(n).start = Start(n)
    BY DEF Block
  <2> QED BY <2>3, <2>4
<1>5. {Block(m) : m \in InUse}' = {Block(m) : m \in InUse} \ {Block(n)}
  BY <1>2, <1>3, <1>4
<1> QED BY <1>5 DEF Service!free

\* Every behaviour of the buddy memory manager is one of Allocator as well: what
\* buddy_alloc returns begins at a page, is large enough and disjoint from all
\* that is in use, and buddy_free gives back one grant and touches no other.
THEOREM BuddyKeepsPromise == TreeSpec => TreeKeepsPromise
<1>1. TreeInit => Service!Init
  BY DEF TreeInit, Service!Init, InUse, NODE_UNUSED, NODE_USED
<1>2. TreeInv /\ [TreeNext]_treeVars => [Service!Next]_{Block(n) : n \in InUse}
  <2> SUFFICES ASSUME TreeInv, [TreeNext]_treeVars
               PROVE  [Service!Next]_{Block(n) : n \in InUse}
    OBVIOUS
  <2>1. ASSUME NEW request \in Sizes, buddy_alloc(request) PROVE Service!Next
    BY <2>1, PromiseAlloc DEF Service!Next
  <2>2. ASSUME NEW pointer, buddy_free(pointer) PROVE Service!Next
    BY <2>2, PromiseRelease DEF Service!Next
  <2>3. CASE UNCHANGED treeVars
    BY <2>3 DEF treeVars, InUse, Block
  <2> QED BY <2>1, <2>2, <2>3 DEF TreeNext
<1> QED BY <1>1, <1>2, TreeInvHolds, PTL DEF TreeSpec, TreeKeepsPromise, Service!Spec

-----------------------------------------------------------------------------
(* What the marks in the tree are good for.                                *)

\* Below a divided node there is a block in use.
LEMMA DividedHoldsBlock ==
  ASSUME TreeInv, NEW n \in Node, Visible(n), tree[n] \in {NODE_SPLIT, NODE_FULL}
  PROVE  \E m \in InUse : n \in Path[m]
<1> USE DEF NODE_UNUSED, NODE_USED, NODE_SPLIT, NODE_FULL
<1> DEFINE P(k) == \E m \in InUse : k \in Path[m]
           T == {k \in Node : Visible(k) /\ tree[k] \in {NODE_SPLIT, NODE_FULL} /\ ~P(k)}
<1> SUFFICES ASSUME T # {} PROVE FALSE
  OBVIOUS
<1>1. PICK k \in T : \A j \in T : k >= j
  <2>1. T \subseteq 0..(2 * Pow2[LEVEL] - 2)
    BY DEF Node
  <2>2. 2 * Pow2[LEVEL] - 2 \in Nat
    BY NodeIsNat
  <2> HIDE DEF T
  <2> QED BY <2>1, <2>2, LargestNumber
<1>2. k \in Node /\ k \in Nat /\ Visible(k) /\ tree[k] \in {NODE_SPLIT, NODE_FULL} /\ ~P(k)
  BY <1>1, NodeIsNat
<1>3. Pages[k] # 1 /\ HalvesRight(tree, k)
  BY <1>2, MarksByNode DEF TreeInv, TreeTypes
<1>4. PICK c \in {2 * k + 1, 2 * k + 2} : tree[c] # NODE_UNUSED
  BY <1>3 DEF HalvesRight
<1>5. c \in Node /\ c # Root /\ Parent(c) = k /\ c > k
  BY <1>2, <1>3, Halves
<1>6. Path[c] = {c} \union Above[c] /\ Above[c] = {k} \union Above[k]
  BY <1>2, <1>5, PathOf
<1>7. Visible(c)
  BY <1>2, <1>6 DEF Visible
<1>8. CASE tree[c] = NODE_USED
  <2>1. c \in InUse
    BY <1>5, <1>7, <1>8 DEF InUse, Visible
  <2> QED BY <1>2, <1>6, <2>1
<1>9. CASE tree[c] # NODE_USED
  <2>1. tree[c] \in {NODE_SPLIT, NODE_FULL}
    BY <1>4, <1>5, <1>9 DEF TreeInv, TreeTypes
  <2>2. c \notin T
    <3>1. c \in Nat /\ ~(k >= c)
      BY <1>2, <1>5, NodeIsNat
    <3> HIDE DEF T
    <3> QED BY <1>1, <3>1
  <2>3. PICK m \in InUse : c \in Path[m]
    BY <1>5, <1>7, <2>1, <2>2
  <2>4. m \in Node /\ k \in Path[m]
    BY <1>6, <2>3, PathTransitive DEF InUse
  <2> QED BY <1>2, <2>3, <2>4
<1> QED BY <1>8, <1>9

\* A node on the way to another covers pages of it.
LEMMA PathOverlaps ==
  ASSUME NEW n \in Node, NEW m \in Path[n]
  PROVE  ~(End(m) <= Start(n)) /\ ~(End(n) <= Start(m))
<1>1. m \in Node
  BY PathUp
<1>2. /\ FirstPage[m] <= FirstPage[n] /\ FirstPage[n] + Pages[n] <= FirstPage[m] + Pages[m]
      /\ FirstPage[n] \in Nat /\ FirstPage[m] \in Nat /\ Pages[n] \in Nat /\ Pages[m] \in Nat
      /\ Pages[n] > 0 /\ Pages[m] > 0 /\ PAGE_SIZE \in Nat /\ PAGE_SIZE > 0
  BY <1>1, Inside, FirstPageLaws, PagesLaws, NodeIsNat
<1>3. \A a, b, c \in Nat : c > 0 /\ a < b => a * c < b * c
  OBVIOUS
<1>4. /\ FirstPage[n] < FirstPage[m] + Pages[m] /\ FirstPage[m] < FirstPage[n] + Pages[n]
      /\ FirstPage[m] + Pages[m] \in Nat /\ FirstPage[n] + Pages[n] \in Nat
  BY <1>2
<1>5. /\ FirstPage[n] * PAGE_SIZE < (FirstPage[m] + Pages[m]) * PAGE_SIZE
      /\ FirstPage[m] * PAGE_SIZE < (FirstPage[n] + Pages[n]) * PAGE_SIZE
  BY <1>2, <1>3, <1>4
<1>6. Start(n) < End(m) /\ Start(m) < End(n)
  BY <1>1, <1>5, BlockLaws
<1>7. Start(n) \in Nat /\ End(n) \in Nat /\ Start(m) \in Nat /\ End(m) \in Nat
  BY <1>1, BlockLaws
<1> QED BY <1>6, <1>7

LEMMA RoomIsFound ==
  ASSUME TreeInv PROVE NoneRefused
<1> USE DEF NODE_UNUSED, NODE_USED, NODE_SPLIT, NODE_FULL
<1> SUFFICES ASSUME NEW request \in Sizes, NEW n \in Node, Pages[n] = PagesFor(request),
                    \A m \in InUse : End(m) <= Start(n) \/ End(n) <= Start(m)
             PROVE  Candidates(PagesFor(request)) # {}
  BY DEF NoneRefused
<1>1. \A m \in InUse : m \in Node /\ m \notin Path[n] /\ n \notin Path[m]
  BY PathOverlaps DEF InUse
<1> SUFFICES \E m \in Node : Reaches(n, m)
  BY DEF Candidates
<1> DEFINE T == {k \in Path[n] : tree[k] # NODE_SPLIT}
<1>2. T # {}
  <2> SUFFICES ASSUME T = {} PROVE FALSE
    OBVIOUS
  <2>1. \A k \in Path[n] : tree[k] = NODE_SPLIT
    OBVIOUS
  <2>2. Visible(n) /\ tree[n] \in {NODE_SPLIT, NODE_FULL}
    BY <2>1, PathOf DEF Visible
  <2> QED BY <1>1, <2>2, DividedHoldsBlock
<1>3. PICK t \in T : \A k \in T : t <= k
  <2>1. T \subseteq Nat
    BY PathUp, NodeIsNat
  <2> HIDE DEF T
  <2> QED BY <1>2, <2>1, SmallestNumber
<1>4. t \in Path[n] /\ t \in Node /\ t \in Nat /\ tree[t] # NODE_SPLIT
  BY <1>3, PathUp, NodeIsNat
<1>5. \A a \in Above[t] : tree[a] = NODE_SPLIT
  <2> SUFFICES ASSUME NEW a \in Above[t], tree[a] # NODE_SPLIT PROVE FALSE
    OBVIOUS
  <2>1. a \in Path[n] /\ a < t /\ a \in Nat
    BY <1>4, AboveTransitive, PathTransitive, PathUp, NodeIsNat
  <2>2. a \in T
    BY <2>1
  <2> HIDE DEF T
  <2> QED BY <1>3, <1>4, <2>1, <2>2
<1>6. Visible(t)
  BY <1>5 DEF Visible
<1>7. CASE tree[t] = NODE_UNUSED
  BY <1>4, <1>5, <1>7 DEF Reaches
<1>8. CASE tree[t] = NODE_USED
  <2>1. t \in InUse
    BY <1>4, <1>6, <1>8 DEF InUse, Visible
  <2> QED BY <1>1, <1>4, <2>1
<1>9. CASE tree[t] = NODE_FULL
  <2> DEFINE U == {k \in Path[n] : k >= t /\ tree[k] # NODE_FULL}
  <2>1. U # {}
    <3> SUFFICES ASSUME U = {} PROVE FALSE
      OBVIOUS
    <3>1. \A k \in Path[n] : k >= t => tree[k] = NODE_FULL
      OBVIOUS
    <3>2. t <= n /\ n \in Path[n] /\ n \in Nat
      BY <1>4, PathUp, PathOf, NodeIsNat
    <3>3. tree[n] = NODE_FULL
      BY <1>4, <3>1, <3>2
    <3>4. Visible(n)
      <4> SUFFICES ASSUME NEW a \in Above[n] PROVE tree[a] \in {NODE_SPLIT, NODE_FULL}
        BY DEF Visible
      <4>1. a \in Path[n] /\ a \in Nat
        BY AboveTransitive, PathUp, NodeIsNat
      <4>2. CASE a >= t
        BY <3>1, <4>1, <4>2
      <4>3. CASE a < t
        <5>1. a \in Path[t] /\ a # t
          BY <1>4, <4>1, <4>3, PathLinear
        <5> QED BY <1>4, <1>5, <5>1, PathOf
      <4> QED BY <1>4, <4>1, <4>2, <4>3
    <3> QED BY <1>1, <3>3, <3>4, DividedHoldsBlock
  <2>2. PICK c \in U : \A k \in U : c <= k
    <3>1. U \subseteq Nat
      BY PathUp, NodeIsNat
    <3> HIDE DEF U
    <3> QED BY <2>1, <3>1, SmallestNumber
  <2>3. c \in Path[n] /\ c \in Node /\ c \in Nat /\ c > t /\ tree[c] # NODE_FULL
    <3>1. c \in Path[n] /\ c >= t /\ tree[c] # NODE_FULL
      BY <2>2
    <3>2. c \in Node /\ c \in Nat
      BY <3>1, PathUp, NodeIsNat
    <3>3. c # t
      BY <1>9, <3>1
    <3> QED BY <1>4, <3>1, <3>2, <3>3
  <2>4. c # Root /\ Parent(c) \in Node /\ Parent(c) < c /\ Parent(c) \in Nat /\ Parent(c) \in Path[n]
    <3>1. c # Root
      BY <1>4, <2>3 DEF Root
    <3> QED BY <2>3, <3>1, ParentOf, ParentAbove, AboveTransitive
  <2>5. t \in Path[Parent(c)]
    <3>1. t \in Path[c] /\ t # c
      BY <1>4, <2>3, PathLinear
    <3> QED BY <2>3, <2>4, <3>1, PathOf
  <2>6. \A a \in Path[n] : a \in Nat /\ (a >= t /\ a < c => tree[a] = NODE_FULL)
    <3> SUFFICES ASSUME NEW a \in Path[n] PROVE a \in Nat /\ (a >= t /\ a < c => tree[a] = NODE_FULL)
      OBVIOUS
    <3>1. a \in Nat
      BY PathUp, NodeIsNat
    <3>2. a \in U => c <= a
      BY <2>2
    <3> QED BY <2>3, <3>1, <3>2
  <2>7. tree[Parent(c)] = NODE_FULL
    BY <2>4, <2>5, <2>6, PathUp
  <2>8. Visible(c)
    <3> SUFFICES ASSUME NEW a \in Above[c] PROVE tree[a] \in {NODE_SPLIT, NODE_FULL}
      BY DEF Visible
    <3>1. a \in Path[n] /\ a < c /\ a \in Nat
      BY <2>3, AboveTransitive, PathTransitive, PathUp, NodeIsNat
    <3>2. CASE a >= t
      BY <2>6, <3>1, <3>2
    <3>3. CASE a < t
      <4>1. a \in Path[t] /\ a # t
        BY <1>4, <3>1, <3>3, PathLinear
      <4> QED BY <1>4, <1>5, <4>1, PathOf
    <3> QED BY <1>4, <3>1, <3>2, <3>3
  <2>9. Visible(Parent(c))
    BY <2>3, <2>4, <2>8, PathOf DEF Visible
  <2>10. tree[c] = NODE_USED
    <3>1. HalvesRight(tree, Parent(c))
      BY <2>4, <2>7, <2>9, MarksByNode DEF TreeInv
    <3> QED BY <2>3, <2>4, <2>7, <3>1, ChildOfHalves
  <2>11. c \in InUse
    BY <2>3, <2>8, <2>10 DEF InUse, Visible
  <2> QED BY <1>1, <2>3, <2>11
<1> QED BY <1>4, <1>7, <1>8, <1>9 DEF TreeInv, TreeTypes

\* The recursion of buddy_dumpMM ends, since no leaf is divided.
LEMMA DumpRecursion ==
  ASSUME TreeTypes
  PROVE  /\ buddy_dumpMM = [i \in Node |-> buddy_dumpMM[i]]
         /\ \A i \in Node :
              /\ tree[i] = NODE_UNUSED => buddy_dumpMM[i] = 0
              /\ tree[i] = NODE_USED => buddy_dumpMM[i] = Pages[i] * PAGE_SIZE
              /\ tree[i] \in {NODE_SPLIT, NODE_FULL} =>
                   buddy_dumpMM[i] = buddy_dumpMM[2 * i + 1] + buddy_dumpMM[2 * i + 2]
<1> USE DEF NODE_UNUSED, NODE_USED, NODE_SPLIT, NODE_FULL
<1> DEFINE E(f, i) == CASE tree[i] = NODE_UNUSED -> 0
                        [] tree[i] = NODE_USED -> Pages[i] * PAGE_SIZE
                        [] OTHER -> f[2 * i + 1] + f[2 * i + 2]
           Good(f, k) == f = [i \in Node |-> f[i]] /\ \A i \in Node : i >= k => f[i] = E(f, i)
           T == {k \in Nat : \E f : Good(f, k)}
<1>1. T # {}
  <2> DEFINE z == [i \in Node |-> 0]
             k == 2 * Pow2[LEVEL]
  <2>1. k \in Nat /\ \A i \in Node : ~(i >= k)
    BY NodeIsNat DEF Node
  <2>2. z = [i \in Node |-> z[i]]
    OBVIOUS
  <2> HIDE DEF z, k
  <2>3. Good(z, k)
    BY <2>1, <2>2
  <2> HIDE DEF Good
  <2>4. \E f : Good(f, k)
    BY <2>3
  <2> QED BY <2>1, <2>4
<1>2. PICK k \in T : \A j \in T : k <= j
  <2>1. T \subseteq Nat
    OBVIOUS
  <2> HIDE DEF T
  <2> QED BY <1>1, <2>1, SmallestNumber
<1>3. k = 0
  <2> SUFFICES ASSUME k # 0 PROVE FALSE
    OBVIOUS
  <2>1. PICK f : Good(f, k)
    BY <1>2
  <2> DEFINE j == k - 1
             g == [i \in Node |-> IF i = j THEN E(f, j) ELSE f[i]]
  <2>2. j \in Nat /\ k \in Nat /\ j < k
    BY <1>2
  <2>3. g = [i \in Node |-> g[i]] /\ \A i \in Node : g[i] = IF i = j THEN E(f, j) ELSE f[i]
    OBVIOUS
  <2> HIDE DEF g
  <2>4. ASSUME NEW i \in Node, i >= j PROVE E(g, i) = E(f, i)
    <3>1. CASE tree[i] \in {NODE_UNUSED, NODE_USED}
      BY <3>1
    <3>2. CASE tree[i] \notin {NODE_UNUSED, NODE_USED}
      <4>1. Pages[i] # 1
        BY <3>2 DEF TreeTypes
      <4>2. 2 * i + 1 \in Node /\ 2 * i + 2 \in Node /\ i \in Nat
        BY <4>1, Halves, NodeIsNat
      <4>3. 2 * i + 1 # j /\ 2 * i + 2 # j
        BY <2>2, <2>4, <4>2
      <4>4. g[2 * i + 1] = f[2 * i + 1] /\ g[2 * i + 2] = f[2 * i + 2]
        BY <2>3, <4>2, <4>3
      <4> QED BY <4>4
    <3> QED BY <3>1, <3>2
  <2>5. ASSUME NEW i \in Node, i >= j PROVE g[i] = E(g, i)
    <3>1. CASE i = j
      BY <2>3, <2>4, <2>5, <3>1
    <3>2. CASE i # j
      <4>1. i >= k
        BY <2>2, <2>5, <3>2, NodeIsNat
      <4>2. f[i] = E(f, i)
        BY <2>1, <4>1
      <4>3. g[i] = f[i]
        BY <2>3, <3>2
      <4>4. E(g, i) = E(f, i)
        BY <2>4, <2>5
      <4> HIDE DEF E
      <4> QED BY <4>2, <4>3, <4>4
    <3> QED BY <3>1, <3>2
  <2> HIDE DEF E
  <2>6. Good(g, j)
    BY <2>3, <2>5
  <2>7. j \in T
    BY <2>2, <2>6
  <2> HIDE DEF T
  <2> QED BY <1>2, <2>2, <2>7
<1>4. PICK f : Good(f, 0)
  BY <1>2, <1>3
<1>5. f = [i \in Node |-> E(f, i)]
  <2>1. \A i \in Node : f[i] = E(f, i)
    <3>1. \A i \in Node : i >= 0
      BY NodeIsNat
    <3> HIDE DEF E
    <3> QED BY <1>4, <3>1
  <2> HIDE DEF E
  <2>2. f = [i \in Node |-> f[i]]
    BY <1>4
  <2> QED BY <2>1, <2>2
<1>6. buddy_dumpMM = [i \in Node |-> E(buddy_dumpMM, i)]
  BY <1>5 DEF buddy_dumpMM
<1>7. \A i \in Node : buddy_dumpMM[i] = E(buddy_dumpMM, i)
  BY <1>6
<1>8. buddy_dumpMM = [i \in Node |-> buddy_dumpMM[i]]
  <2> HIDE DEF E
  <2> QED BY <1>6
<1> QED BY <1>7, <1>8

\* The pages of the blocks in use at or below n.
UsedIn(n) == UNION {PagesOf(m) : m \in {k \in InUse : n \in Path[k]}}

LEMMA PagesOfLaws ==
  ASSUME NEW n \in Node
  PROVE  IsFiniteSet(PagesOf(n)) /\ Cardinality(PagesOf(n)) = Pages[n]
<1> DEFINE a == FirstPage[n]
           b == FirstPage[n] + Pages[n] - 1
<1>1. a \in Int /\ b \in Int /\ ~(a > b) /\ b - a + 1 = Pages[n]
  BY FirstPageLaws, PagesLaws
<1>2. PagesOf(n) = a..b
  BY DEF PagesOf
<1> HIDE DEF a, b
<1> QED BY <1>1, <1>2, FS_Interval

LEMMA DumpCounts ==
  ASSUME TreeInv, NEW n \in Node, Visible(n)
  PROVE  buddy_dumpMM[n] = PAGE_SIZE * Cardinality(UsedIn(n))
<1> USE DEF NODE_UNUSED, NODE_USED, NODE_SPLIT, NODE_FULL
<1> DEFINE P(k) == /\ IsFiniteSet(UsedIn(k)) /\ UsedIn(k) \subseteq PagesOf(k)
                   /\ buddy_dumpMM[k] = PAGE_SIZE * Cardinality(UsedIn(k))
           T == {k \in Node : Visible(k) /\ ~P(k)}
<1> SUFFICES ASSUME T # {} PROVE FALSE
  OBVIOUS
<1>1. PICK k \in T : \A j \in T : k >= j
  <2>1. T \subseteq 0..(2 * Pow2[LEVEL] - 2)
    BY DEF Node
  <2>2. 2 * Pow2[LEVEL] - 2 \in Nat
    BY NodeIsNat
  <2> HIDE DEF T
  <2> QED BY <2>1, <2>2, LargestNumber
<1>2. k \in Node /\ k \in Nat /\ Visible(k) /\ ~P(k)
  BY <1>1, NodeIsNat
<1>3. PAGE_SIZE \in Nat /\ Pages[k] \in Nat
  BY <1>2, NodeIsNat, PagesLaws
<1>4. CASE tree[k] = NODE_UNUSED
  <2>1. \A m \in InUse : k \notin Path[m]
    BY <1>4, PathOf DEF InUse
  <2>2. UsedIn(k) = {}
    BY <2>1 DEF UsedIn
  <2>3. buddy_dumpMM[k] = 0
    BY <1>2, <1>4, DumpRecursion DEF TreeInv
  <2>4. IsFiniteSet(UsedIn(k)) /\ Cardinality(UsedIn(k)) = 0
    BY <2>2, FS_EmptySet
  <2> QED BY <1>2, <1>3, <2>2, <2>3, <2>4
<1>5. CASE tree[k] = NODE_USED
  <2>1. k \in InUse
    BY <1>2, <1>5 DEF InUse, Visible
  <2>2. {m \in InUse : k \in Path[m]} = {k}
    BY <1>2, <2>1, UsedApart, PathOf
  <2>3. UsedIn(k) = PagesOf(k)
    BY <2>2 DEF UsedIn
  <2>4. IsFiniteSet(UsedIn(k)) /\ Cardinality(UsedIn(k)) = Pages[k]
    BY <1>2, <2>3, PagesOfLaws
  <2>5. buddy_dumpMM[k] = Pages[k] * PAGE_SIZE
    BY <1>2, <1>5, DumpRecursion DEF TreeInv
  <2>6. Pages[k] * PAGE_SIZE = PAGE_SIZE * Pages[k]
    BY <1>3
  <2> QED BY <1>2, <2>3, <2>4, <2>5, <2>6
<1>6. CASE tree[k] \in {NODE_SPLIT, NODE_FULL}
  <2> DEFINE a == 2 * k + 1
             b == 2 * k + 2
  <2>1. Pages[k] # 1
    BY <1>2, <1>6 DEF TreeInv, TreeTypes
  <2>2. /\ a \in Node /\ b \in Node /\ a # Root /\ b # Root
        /\ Parent(a) = k /\ Parent(b) = k /\ a > k /\ b > k /\ a # b
        /\ a \in Nat /\ b \in Nat
    BY <1>2, <2>1, Halves
  <2>3. buddy_dumpMM[k] = buddy_dumpMM[a] + buddy_dumpMM[b]
    BY <1>2, <1>6, DumpRecursion DEF TreeInv
  <2>4. \A c \in Node : c # Root /\ Parent(c) = k => c \in {a, b}
    BY ParentOf
  <2>5. /\ Pages[k] = 2 * Pages[a] /\ Pages[k] = 2 * Pages[b]
        /\ FirstPage[a] = FirstPage[k] /\ FirstPage[b] = FirstPage[k] + Pages[b]
        /\ FirstPage[k] \in Nat /\ Pages[a] \in Nat /\ Pages[b] \in Nat
    BY <1>2, <2>2, PagesLaws, FirstPageLaws
  <2> HIDE DEF a, b
  <2>6. P(a) /\ P(b)
    <3>1. Visible(a) /\ Visible(b)
      <4>1. Above[a] = {k} \union Above[k] /\ Above[b] = {k} \union Above[k]
        BY <1>2, <2>2, PathOf
      <4> QED BY <1>2, <1>6, <4>1 DEF Visible
    <3>2. ~(k >= a) /\ ~(k >= b)
      BY <1>2, <2>2
    <3>3. a \notin T /\ b \notin T
      <4> HIDE DEF T
      <4> QED BY <1>1, <3>2
    <3> QED BY <2>2, <3>1, <3>3
  <2>7. UsedIn(k) = UsedIn(a) \union UsedIn(b)
    <3>1. \A m \in InUse : k \in Path[m] <=> a \in Path[m] \/ b \in Path[m]
      <4> SUFFICES ASSUME NEW m \in InUse
                   PROVE  k \in Path[m] <=> a \in Path[m] \/ b \in Path[m]
        OBVIOUS
      <4>1. m \in Node
        BY DEF InUse
      <4>2. ASSUME k \in Path[m] PROVE a \in Path[m] \/ b \in Path[m]
        <5>1. k # m
          BY <1>6 DEF InUse
        <5>2. k \in Above[m]
          BY <4>1, <4>2, <5>1, PathOf
        <5>3. PICK c \in Path[m] : c # Root /\ Parent(c) = k
          BY <4>1, <5>2, ChildOnPath
        <5> QED BY <2>4, <4>1, <5>3, PathUp
      <4>3. ASSUME NEW c \in {a, b}, c \in Path[m] PROVE k \in Path[m]
        BY <2>2, <4>1, <4>3, ParentAbove, AboveTransitive
      <4> QED BY <4>2, <4>3
    <3>2. ASSUME NEW x PROVE x \in UsedIn(k) <=> x \in UsedIn(a) \/ x \in UsedIn(b)
      <4>1. \A c : x \in UsedIn(c) <=> \E m \in InUse : c \in Path[m] /\ x \in PagesOf(m)
        BY DEF UsedIn
      <4> QED BY <3>1, <4>1
    <3> QED BY <3>2
  <2>8. PagesOf(a) \intersect PagesOf(b) = {} /\ PagesOf(a) \union PagesOf(b) \subseteq PagesOf(k)
    BY <2>5 DEF PagesOf
  <2>9. UsedIn(a) \intersect UsedIn(b) = {} /\ UsedIn(k) \subseteq PagesOf(k)
    BY <2>6, <2>7, <2>8
  <2>10. /\ IsFiniteSet(UsedIn(k))
         /\ Cardinality(UsedIn(k)) = Cardinality(UsedIn(a)) + Cardinality(UsedIn(b))
    <3>1. Cardinality(UsedIn(a) \intersect UsedIn(b)) = 0
      BY <2>9, FS_EmptySet
    <3>2. Cardinality(UsedIn(a)) \in Nat /\ Cardinality(UsedIn(b)) \in Nat
      BY <2>6, FS_CardinalityType
    <3>3. /\ IsFiniteSet(UsedIn(a) \union UsedIn(b))
          /\ Cardinality(UsedIn(a) \union UsedIn(b)) =
               Cardinality(UsedIn(a)) + Cardinality(UsedIn(b))
                 - Cardinality(UsedIn(a) \intersect UsedIn(b))
      <4>1. IsFiniteSet(UsedIn(a)) /\ IsFiniteSet(UsedIn(b))
        BY <2>6
      <4> QED BY <4>1, FS_Union
    <3> QED BY <2>7, <3>1, <3>2, <3>3
  <2>11. PAGE_SIZE * Cardinality(UsedIn(k)) = buddy_dumpMM[a] + buddy_dumpMM[b]
    <3>1. \A x, y, z \in Nat : x * (y + z) = x * y + x * z
      OBVIOUS
    <3>2. Cardinality(UsedIn(a)) \in Nat /\ Cardinality(UsedIn(b)) \in Nat
      BY <2>6, FS_CardinalityType
    <3> QED BY <1>3, <2>6, <2>10, <3>1, <3>2
  <2> QED BY <1>2, <2>3, <2>9, <2>10, <2>11
<1> QED BY <1>2, <1>4, <1>5, <1>6 DEF TreeInv, TreeTypes

\* The marks that _mark_parent and _combine keep in the tree agree with the blocks
\* in use, dumpMM reports what those hold, and buddy_alloc turns away no request
\* that there is an aligned run of free pages for, for every size of the heap.
THEOREM TreeIsConsistent == TreeSpec => []TreeConsistent
<1>1. TreeInv => TreeConsistent
  <2> SUFFICES ASSUME TreeInv PROVE TreeConsistent
    OBVIOUS
  <2>1. TreeTypeOK
    BY DEF TreeInv, TreeTypes, TreeTypeOK
  <2>2. DumpExact
    <3>1. Root \in Node /\ Visible(Root)
      BY NodeIsNat, PathOf DEF Visible
    <3>2. \A m \in InUse : Root \in Path[m]
      BY PathUp DEF InUse
    <3>3. {m \in InUse : Root \in Path[m]} = InUse
      BY <3>2
    <3>4. UsedIn(Root) = UNION {PagesOf(m) : m \in InUse}
      BY <3>3 DEF UsedIn
    <3> QED BY <3>1, <3>4, DumpCounts DEF DumpExact
  <2> QED BY <2>1, <2>2, RoomIsFound DEF TreeConsistent, TreeInv
<1> QED BY <1>1, TreeInvHolds, PTL
=============================================================================
