---------------------------- MODULE MCSemaphores ----------------------------
(* Two instances of Semaphores in one run: three user processes that only  *)
(* create, end and yield, and two that also kill, block, unblock and sleep *)
(* (FaultyCalls).                                                          *)
EXTENDS Semaphores

CONSTANTS FaultyCalls, FaultyPids   \* the last pid when FaultyCalls are made

VARIABLE faulty

Faulty == INSTANCE Semaphores WITH Calls <- FaultyCalls

\* After the list was corrupted nothing is known: the model stops there.
Corrupted == mode = "corrupt" /\ UNCHANGED allVars

MCNext ==
  /\ \/ ~faulty /\ SemNext
     \/ faulty /\ (Faulty!SemNext \/ Corrupted) /\ pids' <= FaultyPids + 1
  /\ UNCHANGED faulty

MCInit == SemInit /\ faulty \in BOOLEAN

MCSpec == MCInit /\ [][MCNext]_<<allVars, faulty>>
=============================================================================
