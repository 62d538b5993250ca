----------------------------- MODULE MCKeyboard -----------------------------
(* Two instances of Keyboard in one run: every modifier key with one child *)
(* of the first user process, and letters only with two children, which    *)
(* end, block and unblock each other.                                      *)
EXTENDS Keyboard

CONSTANT ReaderCalls

VARIABLE letters    \* no modifier is pressed

Readers == INSTANCE Keyboard WITH Modifiers <- {}, Calls <- ReaderCalls

MCNext ==
  /\ \/ ~letters /\ KeyboardNext /\ pids' < MaxPid + 1
     \/ letters /\ Readers!KeyboardNext
  /\ UNCHANGED letters

MCInit == KeyboardInit /\ letters \in BOOLEAN

MCSpec == MCInit /\ [][MCNext]_<<keyVars, letters>>
=============================================================================
