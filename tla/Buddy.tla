-------------------------------- MODULE Buddy --------------------------------
(***************************************************************************)
(* The other memory manager, Kernel/utils/memManagerBuddy.c, compiled in   *)
(* with make buddy: a binary buddy allocator over pages, kept in a heap-   *)
(* ordered tree of node states.                                            *)
(*                                                                         *)
(* Addresses are offsets from heapAddress.  A call runs with interrupts    *)
(* off and is one step; the loops that climb the tree are written as what  *)
(* they do to the ancestors of a node.                                     *)
(***************************************************************************)
EXTENDS Integers, FiniteSets, FiniteSetsExt

CONSTANTS
  LEVEL,       \* 17 in the code: the tree has leaves for 2^LEVEL pages
  PAGE_SIZE,   \* 4096 in the code
  Sizes        \* the sizes that callers ask for

ASSUME BuddyAssumption ==
  /\ LEVEL \in Nat
  /\ PAGE_SIZE \in Nat \ {0}
  /\ Sizes \subseteq Nat

VARIABLES
  tree,   \* self.tree; below an unused or used node its contents are stale
  wanted  \* history: the request that a used node answers, or 0

treeVars == <<tree, wanted>>

NODE_UNUSED == 0
NODE_USED == 1
NODE_SPLIT == 2
NODE_FULL == 3

\* 1 << l
Pow2[l \in Nat] == IF l = 0 THEN 1 ELSE 2 * Pow2[l - 1]

Node == 0..(2 * Pow2[LEVEL] - 2)
Root == 0

TreeInit ==
  /\ tree = [n \in Node |-> NODE_UNUSED]
  /\ wanted = [n \in Node |-> 0]

-----------------------------------------------------------------------------
(* The shape of the tree.                                                  *)

Level == [n \in Node |-> CHOOSE l \in 0..LEVEL : Pow2[l] <= n + 1 /\ n + 1 < 2 * Pow2[l]]
Ancestor(n, d) == ((n + 1) \div Pow2[d]) - 1         \* d levels up
Parent(n) == Ancestor(n, 1)

\* n and all above it; all above it
Path == [n \in Node |-> {Ancestor(n, d) : d \in 0..Level[n]}]
Above == [n \in Node |-> {Ancestor(n, d) : d \in 1..Level[n]}]

\* The sibling of n; -1 for the root.
BuddyOf(n) == n - 1 + (n % 2) * 2

Pages == [n \in Node |-> Pow2[LEVEL - Level[n]]]
FirstPage == [n \in Node |-> (n + 1 - Pow2[Level[n]]) * Pages[n]]
_index_offset == [n \in Node |-> FirstPage[n] * PAGE_SIZE]

-----------------------------------------------------------------------------
(* Allocation.                                                             *)

\* Mutant: rounds down.
next_pow_of_2_mutant(s) == Max({p \in {Pow2[l] : l \in 0..(LEVEL + 1)} : p <= s})
next_pow_of_2(s) == Min({p \in {Pow2[l] : l \in 0..(LEVEL + 1)} : p >= s})

\* The pages that a request is rounded to; more than the heap has, if too large.
PagesFor(request) ==
  LET pages == (request + PAGE_SIZE - 1) \div PAGE_SIZE
  IN  IF pages > Pow2[LEVEL] THEN Pow2[LEVEL + 1]
      ELSE IF pages = 0 THEN 1 ELSE next_pow_of_2(pages)

\* The walk from the root comes down to n: it meets an unused node at or above
\* n, and only split ones above that.
Reaches(n, unused) ==
  /\ unused \in Path[n] /\ tree[unused] = NODE_UNUSED
  /\ \A m \in Above[unused] : tree[m] = NODE_SPLIT

\* The nodes of the right size that the walk may take; it goes left to right.
Candidates(size) == {n \in Node : Pages[n] = size /\ \E m \in Node : Reaches(n, m)}

\* n becomes used, and the unused nodes above it are split on the way down.
Taken(n) ==
  LET top == CHOOSE m \in Node : Reaches(n, m)
      split == Above[n] \ Above[top]
  IN  [m \in Node |-> IF m = n THEN NODE_USED
                      ELSE IF m \in split THEN NODE_SPLIT
                      ELSE IF m # Root /\ Parent(m) \in split THEN NODE_UNUSED
                      ELSE tree[m]]

\* Mutant: one level too low.
_mark_parent_mutant(t, n) ==
  [m \in Node |->
     IF /\ m \in Path[n] \ {Root}
        /\ \A b \in Path[n] : b >= m => t[BuddyOf(b)] \in {NODE_USED, NODE_FULL}
     THEN NODE_FULL ELSE t[m]]

\* The ancestors whose two children are taken become full, from n upwards.
_mark_parent(t, n) ==
  [m \in Node |->
     IF /\ m \in Above[n]
        /\ \A b \in Path[n] : b > m => t[BuddyOf(b)] \in {NODE_USED, NODE_FULL}
     THEN NODE_FULL ELSE t[m]]

\* A request that finds no node returns NULL and changes nothing: no step.
buddy_alloc(request) ==
  LET found == Candidates(PagesFor(request))
      n == Min(found)
  IN  /\ found # {}
      /\ tree' = _mark_parent(Taken(n), n)
      /\ wanted' = [wanted EXCEPT ![n] = request]

-----------------------------------------------------------------------------
(* Release.                                                                *)

\* n merges with its buddy as long as that is unused; what results is unused, and
\* the full ancestors right above it are only split again.
_combine(n) ==
  LET merged == Max({a \in Path[n] : a = Root \/ tree[BuddyOf(a)] # NODE_UNUSED})
      reopened == {a \in Above[merged] : \A b \in Above[merged] : b >= a => tree[b] = NODE_FULL}
  IN  [m \in Node |-> IF m = merged THEN NODE_UNUSED
                      ELSE IF m \in reopened THEN NODE_SPLIT ELSE tree[m]]

\* The used nodes that a descent from the root may end at.
InUse == {n \in Node : /\ tree[n] = NODE_USED
                       /\ \A m \in Above[n] : tree[m] \in {NODE_SPLIT, NODE_FULL}}

\* Only the first page of a block frees it; anything else returns -1.
buddy_free(pointer) ==
  \E n \in InUse :
    /\ _index_offset[n] = PAGE_SIZE * (pointer \div PAGE_SIZE)
    /\ tree' = _combine(n)
    /\ wanted' = [wanted EXCEPT ![n] = 0]

TreeNext ==
  \/ \E request \in Sizes : buddy_alloc(request)
  \/ \E pointer \in 0..(Pow2[LEVEL] * PAGE_SIZE - 1) : buddy_free(pointer)

TreeSpec == TreeInit /\ [][TreeNext]_treeVars

-----------------------------------------------------------------------------
(* The figures of dumpMM.                                                  *)

\* The used bytes at and below a node.
buddy_dumpMM[index \in Node] ==
  CASE tree[index] = NODE_UNUSED -> 0
    [] tree[index] = NODE_USED -> Pages[index] * PAGE_SIZE
    [] OTHER -> buddy_dumpMM[2 * index + 1] + buddy_dumpMM[2 * index + 2]

-----------------------------------------------------------------------------
(* Properties.                                                             *)

\* Nodes that the walks may look at: everything above them is divided.
Visible(n) == \A m \in Above[n] : tree[m] \in {NODE_SPLIT, NODE_FULL}

\* The node states of memManagerBuddy.h, and no leaf is divided: no walk leaves
\* the array.
TreeTypeOK ==
  /\ tree \in [Node -> NODE_UNUSED..NODE_FULL]
  /\ wanted \in [Node -> Sizes \union {0}]
  /\ \A n \in Node : Visible(n) /\ Pages[n] = 1 => tree[n] \in {NODE_UNUSED, NODE_USED}

\* A divided node is marked full exactly when both its halves are taken, which
\* _mark_parent and _combine keep up to date over several levels, and never has
\* two unused halves: _combine would have merged them.
MarksExact ==
  \A n \in Node : Visible(n) /\ tree[n] \in {NODE_SPLIT, NODE_FULL} =>
    LET halves == {tree[2 * n + 1], tree[2 * n + 2]}
    IN  /\ tree[n] = NODE_FULL <=> halves \subseteq {NODE_USED, NODE_FULL}
        /\ halves # {NODE_UNUSED}

Start(n) == _index_offset[n]
End(n) == _index_offset[n] + Pages[n] * PAGE_SIZE

\* No request is refused while an aligned run of its size is free.
NoneRefused ==
  \A request \in Sizes :
    (\E n \in Node : /\ Pages[n] = PagesFor(request)
                     /\ \A m \in InUse : End(m) <= Start(n) \/ End(n) <= Start(m))
      => Candidates(PagesFor(request)) # {}

PagesOf(n) == FirstPage[n]..(FirstPage[n] + Pages[n] - 1)

\* The used bytes that dumpMM reports are those of the blocks handed out.
DumpExact ==
  buddy_dumpMM[Root] = PAGE_SIZE * Cardinality(UNION {PagesOf(n) : n \in InUse})

\* The marks in the tree of memManagerBuddy.c agree with the blocks in use, so
\* does what dumpMM reports, and no request is refused that there is room for.
TreeConsistent == TreeTypeOK /\ MarksExact /\ DumpExact /\ NoneRefused

-----------------------------------------------------------------------------
(* What the callers rely on: the specification Allocator.                  *)

\* The memory handed out.
Block(n) == [start |-> Start(n), end |-> End(n), size |-> wanted[n]]

Service == INSTANCE Allocator WITH
  Limit <- Pow2[LEVEL] * PAGE_SIZE, Align <- PAGE_SIZE,
  granted <- {Block(n) : n \in InUse}

\* Every behaviour of buddy_alloc and buddy_free is one of Allocator too, with
\* grants that begin at a page.
TreeKeepsPromise == Service!Spec
=============================================================================
