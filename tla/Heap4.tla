-------------------------------- MODULE Heap4 --------------------------------
(***************************************************************************)
(* The default memory manager, Kernel/utils/memManagerFRT4.c (heap_4 of    *)
(* FreeRTOS as this kernel ships it): first fit over a list of free blocks *)
(* ordered by address, with coalescing.                                    *)
(*                                                                         *)
(* Addresses are offsets from the aligned start of the heap.  A block is   *)
(* identified by the address of its BlockLink_t header; the list at xStart *)
(* is the sequence freeList, without the end marker pxEnd, which is at     *)
(* HeapEnd.  Calls run with interrupts off, so each one is a step.         *)
(*                                                                         *)
(* vPortFree knows a block by the bit in its header, and a header stays in *)
(* memory after its block is freed or merged, until a caller is given that *)
(* memory and may write anything there.  Freeing a pointer to such memory, *)
(* where the bit is whatever the caller wrote, is not followed.            *)
(***************************************************************************)
EXTENDS Integers, Sequences, FiniteSets

CONSTANTS
  HeapEnd,            \* the offset of pxEnd
  portBYTE_ALIGNMENT, \* 8 in the code
  xHeapStructSize,    \* 16 in the code: the bytes of a header, aligned
  Requests            \* the sizes that callers ask for

ASSUME Heap4Assumption ==
  /\ portBYTE_ALIGNMENT \in Nat \ {0}
  /\ xHeapStructSize \in Nat \ {0} /\ xHeapStructSize % portBYTE_ALIGNMENT = 0
  /\ HeapEnd \in Nat /\ HeapEnd >= xHeapStructSize /\ HeapEnd % portBYTE_ALIGNMENT = 0
  /\ Requests \subseteq Nat

VARIABLES
  freeList,             \* the free blocks, linked by pxNextFreeBlock
  header,               \* what may be read as a header at each address
  allocated,            \* history: the blocks handed out and not freed
  xBlockSize,           \* the size in each header, that bit masked off
  xFreeBytesRemaining,
  xMinimumEverFreeBytesRemaining,
  asked                 \* history: the request an allocated block answers, or 0

vars == <<freeList, header, allocated, xBlockSize, xFreeBytesRemaining,
          xMinimumEverFreeBytesRemaining, asked>>

Address == 0..(HeapEnd - 1)
\* xBlockAllocatedBit is clear, is set, or is part of what a caller wrote.
Headers == {"free", "allocated", "written"}
heapMINIMUM_BLOCK_SIZE == 2 * xHeapStructSize

\* prvHeapInit: one free block covers the heap.
Init ==
  /\ freeList = <<0>>
  /\ header = [a \in Address |-> IF a = 0 THEN "free" ELSE "written"]
  /\ allocated = {}
  /\ xBlockSize = [a \in Address |-> IF a = 0 THEN HeapEnd ELSE 0]
  /\ xFreeBytesRemaining = HeapEnd
  /\ xMinimumEverFreeBytesRemaining = HeapEnd
  /\ asked = [a \in Address |-> 0]

-----------------------------------------------------------------------------
(* prvInsertBlockIntoFreeList(block), as what it makes of the list and of  *)
(* the sizes.                                                              *)

\* The place of pxIterator, the last entry passed; 0 stands for xStart.
IteratorStops(list, block, k) ==
  /\ k \in 0..Len(list)
  /\ \A i \in 1..k : list[i] < block
  /\ k < Len(list) => list[k + 1] >= block
Iterator(list, block) == CHOOSE k \in 0..Len(list) : IteratorStops(list, block, k)

JoinsPrevious_mutant(list, size, block, k) == FALSE

\* block is contiguous with the entry before it.  (xStart is not in the heap.)
JoinsPrevious(list, size, block, k) == k > 0 /\ list[k] + size[list[k]] = block

\* The block that the inserted bytes end up in, and its size before it is
\* compared with the entry after it.
Merged(list, size, block, k) ==
  IF JoinsPrevious(list, size, block, k) THEN list[k] ELSE block
MergedSize(list, size, block, k) ==
  IF JoinsPrevious(list, size, block, k) THEN size[list[k]] + size[block] ELSE size[block]

JoinsNext_mutant(list, size, block, k) == FALSE
JoinsNext(list, size, block, k) ==
  /\ k < Len(list)
  /\ Merged(list, size, block, k) + MergedSize(list, size, block, k) = list[k + 1]

InsertedSizes(list, size, block) ==
  LET k == Iterator(list, block)
  IN  [size EXCEPT ![Merged(list, size, block, k)] =
         MergedSize(list, size, block, k)
           + (IF JoinsNext(list, size, block, k) THEN size[list[k + 1]] ELSE 0)]

InsertedList(list, size, block) ==
  LET k == Iterator(list, block)
      n == Len(list)
      previous == JoinsPrevious(list, size, block, k)
      next == JoinsNext(list, size, block, k)
  IN  CASE ~previous /\ ~next ->
             [i \in 1..(n + 1) |-> IF i <= k THEN list[i]
                                   ELSE IF i = k + 1 THEN block ELSE list[i - 1]]
        [] previous /\ ~next -> list
        [] ~previous /\ next -> [list EXCEPT ![k + 1] = block]
        [] previous /\ next -> [i \in 1..(n - 1) |-> IF i <= k THEN list[i] ELSE list[i + 1]]

-----------------------------------------------------------------------------
\* The bytes a request takes: with the header, rounded up to the alignment.
Wanted(request) ==
  LET bytes == request + xHeapStructSize
      over == bytes % portBYTE_ALIGNMENT
  IN  IF over = 0 THEN bytes ELSE bytes + (portBYTE_ALIGNMENT - over)

\* Mutant: the size is compared with the request, without the header.
Adequate_mutant(wanted) ==
  {i \in 1..Len(freeList) : xBlockSize[freeList[i]] >= wanted - xHeapStructSize}

\* The first entry of the list that is large enough.
Adequate(wanted) == {i \in 1..Len(freeList) : xBlockSize[freeList[i]] >= wanted}
FirstFit(wanted) == CHOOSE i \in Adequate(wanted) : \A j \in Adequate(wanted) : i <= j

\* pvPortMalloc gets past its tests; otherwise it returns NULL and changes nothing.
Succeeds(request) ==
  /\ request > 0
  /\ Wanted(request) <= xFreeBytesRemaining
  /\ Adequate(Wanted(request)) # {}

Unlinked(list, i) ==
  [j \in 1..(Len(list) - 1) |-> IF j < i THEN list[j] ELSE list[j + 1]]

pvPortMalloc(request) ==
  LET wanted == Wanted(request)
      i == FirstFit(wanted)
      block == freeList[i]
      rest == Unlinked(freeList, i)
      splits == xBlockSize[block] - wanted > heapMINIMUM_BLOCK_SIZE
      new == block + wanted
      sizes == [xBlockSize EXCEPT ![new] = xBlockSize[block] - wanted, ![block] = wanted]
  IN  /\ Succeeds(request)
      /\ IF splits
         THEN /\ freeList' = InsertedList(rest, sizes, new)
              /\ xBlockSize' = InsertedSizes(rest, sizes, new)
         ELSE /\ freeList' = rest
              /\ xBlockSize' = xBlockSize
      /\ xFreeBytesRemaining' = xFreeBytesRemaining - (IF splits THEN wanted ELSE xBlockSize[block])
      /\ xMinimumEverFreeBytesRemaining' =
           IF xFreeBytesRemaining' < xMinimumEverFreeBytesRemaining
           THEN xFreeBytesRemaining' ELSE xMinimumEverFreeBytesRemaining
      /\ header' = [a \in Address |->
                      IF a = block THEN "allocated"
                      ELSE IF block < a /\ a < block + xBlockSize'[block] THEN "written"
                      ELSE IF splits /\ a = new THEN "free" ELSE header[a]]
      /\ allocated' = allocated \union {block}
      /\ asked' = [asked EXCEPT ![block] = request]

\* vPortFree where the bit is clear does nothing: no step.
vPortFree(block) ==
  /\ header[block] = "allocated"
  /\ header' = [header EXCEPT ![block] = "free"]
  /\ allocated' = allocated \ {block}
  /\ asked' = [asked EXCEPT ![block] = 0]
  /\ xFreeBytesRemaining' = xFreeBytesRemaining + xBlockSize[block]
  /\ freeList' = InsertedList(freeList, xBlockSize, block)
  /\ xBlockSize' = InsertedSizes(freeList, xBlockSize, block)
  /\ UNCHANGED xMinimumEverFreeBytesRemaining

Next ==
  \/ \E request \in Requests : pvPortMalloc(request)
  \/ \E block \in Address : vPortFree(block)

Spec == Init /\ [][Next]_vars

-----------------------------------------------------------------------------
(* Properties.                                                             *)

Free == {freeList[i] : i \in 1..Len(freeList)}
Blocks == Free \union allocated
\* The block that follows b in memory starts here.
EndOf(b) == b + xBlockSize[b]

\* Types of the manager's globals.
TypeOK ==
  /\ freeList \in Seq(Address)
  /\ header \in [Address -> Headers]
  /\ allocated \subseteq Address
  /\ xBlockSize \in [Address -> 0..HeapEnd]
  /\ xFreeBytesRemaining \in 0..HeapEnd
  /\ xMinimumEverFreeBytesRemaining \in 0..HeapEnd
  /\ asked \in [Address -> Requests \union {0}]

\* The blocks tile the heap: each one ends where another begins or at pxEnd, and
\* no header lies inside a block.  So splitting and merging in pvPortMalloc and
\* prvInsertBlockIntoFreeList neither lose bytes nor hand them out twice.
BlocksTile ==
  /\ \E b \in Blocks : b = 0
  /\ \A b \in Blocks : xBlockSize[b] >= xHeapStructSize
  /\ \A b \in Blocks : EndOf(b) = HeapEnd \/ EndOf(b) \in Blocks
  /\ \A b, c \in Blocks : b < c => EndOf(b) <= c

\* The list of free blocks is in the order of their addresses, has no allocated
\* block in it, and no two of its entries are contiguous: freeing in any order
\* leaves no fragments that could be merged.
FreeListCoalesced ==
  /\ \A i \in 1..(Len(freeList) - 1) : EndOf(freeList[i]) < freeList[i + 1]
  /\ Free \intersect allocated = {}

\* The addresses that belong to no allocated block.
Available == {a \in Address : \A b \in allocated : ~(b <= a /\ a < EndOf(b))}

\* xFreeBytesRemaining, which pvPortMalloc relies on, counts the free bytes.
FreeBytesCounted == xFreeBytesRemaining = Cardinality(Available)

\* The bit tells what is handed out: none is lost to what a split, a merge or the
\* caller of another block writes, and a block that is freed a second time before
\* its memory is given away is let pass.
HeadersTell == \A a \in Address : header[a] = "allocated" <=> a \in allocated

\* The blocks, their headers, the free list and the counter of memManagerFRT4.c agree.
HeapConsistent ==
  TypeOK /\ BlocksTile /\ FreeListCoalesced /\ FreeBytesCounted /\ HeadersTell

\* pvPortMalloc refuses no request that fits in a run of available memory.
NoFalseFailure ==
  \A request \in Requests \ {0}, a \in Address :
    a + Wanted(request) <= HeapEnd /\ a..(a + Wanted(request) - 1) \subseteq Available
      => Succeeds(request)

-----------------------------------------------------------------------------
(* What the callers rely on: the specification Allocator.                  *)

\* The memory handed out: the bytes after the header of each allocated block.
Grant(b) == [start |-> b + xHeapStructSize, end |-> EndOf(b), size |-> asked[b]]

Promise == INSTANCE Allocator WITH
  Limit <- HeapEnd, Align <- portBYTE_ALIGNMENT, Sizes <- Requests,
  granted <- {Grant(b) : b \in allocated}

\* Every behaviour of pvPortMalloc and vPortFree is one of Allocator: what an
\* allocation returns is large enough, aligned and disjoint from all that is in
\* use, and nothing else ever moves, grows or shrinks a grant.
KeepsPromise == Promise!Spec
=============================================================================
