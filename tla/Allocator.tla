------------------------------ MODULE Allocator ------------------------------
(***************************************************************************)
(* What the kernel relies on in pvPortMalloc and vPortFree, whichever      *)
(* memory manager is compiled in (Kernel/utils/include/memManager.h).      *)
(* A grant is the half-open range of addresses a caller may use, with the  *)
(* size that was asked for.                                                *)
(***************************************************************************)
EXTENDS Integers

CONSTANTS
  Limit,   \* addresses are below it
  Align,   \* the alignment of what is returned
  Sizes    \* the sizes that callers ask for

VARIABLE granted

Grants == [start : 0..Limit, end : 0..Limit, size : Sizes]

Disjoint(g, h) == g.end <= h.start \/ h.end <= g.start

Init == granted = {}

\* At least size bytes that nobody else has.
malloc(size) ==
  \E g \in granted' :
    /\ g \in Grants /\ g.size = size
    /\ g.start % Align = 0
    /\ g.end >= g.start + size
    /\ \A h \in granted : Disjoint(g, h)
    /\ granted' = granted \union {g}

free(g) == g \in granted /\ granted' = granted \ {g}

Next == (\E size \in Sizes : malloc(size)) \/ (\E g \in granted : free(g))

Spec == Init /\ [][Next]_granted
=============================================================================
