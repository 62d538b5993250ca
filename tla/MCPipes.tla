------------------------------- MODULE MCPipes -------------------------------
(* Three instances of Pipes in one run: one pipe between two children of   *)
(* the first user process; one pipe and one character, with processes that *)
(* kill each other, two of them alive at a time; and two pipes at once or  *)
(* one after the other, with one child.                                    *)
EXTENDS Pipes

CONSTANT KillCalls

VARIABLE instance

One == INSTANCE Pipes WITH MaxPipes <- 1
Kill == INSTANCE Pipes WITH
  MaxPipes <- 1, Calls <- KillCalls, Chars <- {EOF}, MaxWrite <- 1, MaxSent <- 1
Two == INSTANCE Pipes WITH MaxWrite <- 1, MaxSent <- 2

\* What is written to the one pipe.
Script == LET a == CHOOSE c \in Chars : c # EOF IN <<EOF, a, a>>
FromScript == IsPrefix(sent[1], Script)

\* Next to the idle process.
TwoAlive == Cardinality({p \in Pid : Live(p)}) <= 3

MCNext ==
  /\ \/ instance = "one" /\ One!PipesNext /\ FromScript'
     \/ instance = "kill" /\ Kill!PipesNext /\ TwoAlive'
     \/ instance = "two" /\ Two!PipesNext /\ pids' < MaxPid + 1
  /\ UNCHANGED instance

MCInit == PipesInit /\ instance \in {"one", "kill", "two"}

MCSpec == MCInit /\ [][MCNext]_<<allVars, pipeVars, instance>>
=============================================================================
