----------------------------- MODULE MCLiveness -----------------------------
(* Two instances of Scheduler under fairness in one run: Calls is the set  *)
(* with sleep(), the other set ends and yields turns in every other way.   *)
EXTENDS Scheduler

CONSTANT OtherCalls

VARIABLE sleepers       \* the calls are the ones with sleep()

Awake == INSTANCE Scheduler WITH Calls <- OtherCalls

MCNext ==
  /\ IF sleepers THEN Next ELSE Awake!Next
  /\ UNCHANGED sleepers

MCInit == Init /\ sleepers \in BOOLEAN

MCSpec == MCInit /\ [][MCNext]_<<vars, sleepers>> /\ Fairness

\* A ready process gets the CPU, or stops being ready: round robin starves no
\* one, not even when wait() lets a turn run past its quantum.  With sleep()
\* among the calls it does not hold: sleep(0) in a loop resets executions each
\* time, so that the turn never ends.
ReadyRunsAwake ==
  \A p \in Pid : ~sleepers /\ state[p] = "READY"
                   ~> (mode = "user" /\ current = p) \/ state[p] # "READY"
=============================================================================
