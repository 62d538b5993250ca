---------------------------- MODULE MCAllocators ----------------------------
(* The two memory managers, of which the build takes one, in one run.      *)
EXTENDS Heap4, Buddy

VARIABLE manager   \* the one that is compiled in; the other stays as it is

MCInit == manager \in {"FRT4", "BUDDY"} /\ Init /\ TreeInit

MCNext ==
  \/ manager = "FRT4" /\ Next /\ UNCHANGED <<manager, treeVars>>
  \/ manager = "BUDDY" /\ TreeNext /\ UNCHANGED <<manager, vars>>

MCSpec == MCInit /\ [][MCNext]_<<manager, vars, treeVars>>
=============================================================================
