------------------------------ MODULE Keyboard ------------------------------
(***************************************************************************)
(* The keyboard driver (Kernel/drivers/keyboard.c) and the terminal side   *)
(* of read() (Kernel/interruptions/systemCalls.c), on top of the           *)
(* scheduler.                                                              *)
(*                                                                         *)
(* The handler wakes every reader and then stores a character in a buffer  *)
(* of one.  A reader that finds it empty blocks in the middle of read()    *)
(* and goes on, with interrupts off, when the scheduler picks it again.    *)
(* A scan code is abstracted to the key and whether it went down or up.    *)
(***************************************************************************)
EXTENDS Scheduler

CONSTANTS
  Keys,         \* keys with a character in kbd[]
  Unshifted,    \* those with 0 in kbd_sh[]
  Modifiers,    \* of lshift, rshift, caps, alt and f1, those that are used
  Other,        \* a key with no character in either table
  EOF,          \* -1, what Alt with F1 stands for
  None,         \* 0, an empty buffer
  MaxDue        \* bound: the characters typed and not handed out

Shifts == {"lshift", "rshift"}

ASSUME KeyboardAssumption ==
  /\ Unshifted \subseteq Keys /\ Other \notin Keys
  /\ Modifiers \subseteq Shifts \union {"caps", "alt", "f1"}
  /\ (Keys \union {Other}) \intersect (Shifts \union {"caps", "alt", "f1"}) = {}
  /\ EOF # None /\ \A c \in [key : Keys, up : BOOLEAN] : c \notin {EOF, None}
  /\ MaxDue \in Nat

Char0(k, up) == [key |-> k, up |-> up]
Characters == [key : Keys, up : BOOLEAN] \union {EOF}

VARIABLES
  buffer,       \* buffer[0]
  flag,         \* 0 for the shifted table
  flagAlt, flagF1,  \* flagChangeAlt and flagChangeF1: 0 while down
  reading,      \* the processes blocked inside read()
  held,         \* history: the modifiers held down; an EOF uses Alt and F1 up
  due,          \* history: the characters typed, by what the keys pressed stand for,
                \* that read() has not handed out
  slips         \* history: events that void one of the guarantees

flagVars == <<flag, flagAlt, flagF1>>
kbdVars == <<buffer, flagVars, reading, held, due, slips>>
keyVars == <<vars, kbdVars>>

Slips == {"overwritten", "twoShifts", "caps", "takenOver", "toBackground"}

KeyboardInit ==
  /\ Init
  /\ buffer = None
  /\ flag = 1 /\ flagAlt = 1 /\ flagF1 = 1
  /\ reading = {}
  /\ held = {}
  /\ due = << >>
  /\ slips = {}

\* User code runs, and not the rest of a read().
InUserCode == mode = "user" /\ current \notin reading

-----------------------------------------------------------------------------
(* The interrupt handler.                                                  *)

\* What kbd[] and kbd_sh[] have for a key that went down; codes of keys that
\* went up are behind the end of what the tables define.
Table(k, shifted) ==
  IF k \in Keys /\ ~(shifted /\ k \in Unshifted) THEN Char0(k, shifted) ELSE None

\* The flags after a scan code, before the test for Alt with F1.
Flag(k, down) ==
  IF k \in Shifts THEN IF down THEN 0 ELSE 1
  ELSE IF k = "caps" /\ down THEN 1 - flag ELSE flag

Level(k, down, key, level) == IF k = key THEN IF down THEN 0 ELSE 1 ELSE level

Both(k, down) == Level(k, down, "alt", flagAlt) = 0 /\ Level(k, down, "f1", flagF1) = 0

\* testKeyboardInterrupt: the character it saves, if any.
Saved(k, down) ==
  IF k \in Shifts THEN None
  ELSE IF Both(k, down) THEN EOF
  ELSE IF down THEN Table(k, Flag(k, down) = 0) ELSE None

\* What the key stands for, by the modifiers that are held.
Meant(k, down) ==
  IF ~down THEN None
  ELSE IF k \in {"alt", "f1"} /\ {"alt", "f1"} \subseteq held \union {k} THEN EOF
  ELSE Table(k, held \intersect Shifts # {})

\* Mutant: the readers are woken only by a character.
Woken_mutant(c) == IF c = None \/ c = EOF THEN state
                   ELSE [p \in Pid |-> IF state[p] = "BLOCKEDIO" THEN "READY" ELSE state[p]]

\* unblockIO, whatever the scan code is.
Woken(c) == [p \in Pid |-> IF state[p] = "BLOCKEDIO" THEN "READY" ELSE state[p]]

keyboard_handler(k, down) ==
  LET c == Saved(k, down)
      both == Both(k, down) /\ k \notin Shifts
  IN  /\ InUserCode
      /\ ~down => k \notin Shifts \/ k \in held
      /\ Meant(k, down) # None => Len(due) < MaxDue
      /\ state' = Woken(c)
      /\ buffer' = IF c = None THEN buffer ELSE c
      /\ flag' = Flag(k, down)
      /\ flagAlt' = IF both THEN 1 ELSE Level(k, down, "alt", flagAlt)
      /\ flagF1' = IF both THEN 1 ELSE Level(k, down, "f1", flagF1)
      /\ held' = IF Meant(k, down) = EOF THEN held \ {"alt", "f1"}
                 ELSE IF down THEN held \union ({k} \ (Keys \union {Other, "caps"})) ELSE held \ {k}
      /\ due' = IF Meant(k, down) = None THEN due ELSE Append(due, Meant(k, down))
      /\ slips' = slips \union {s \in Slips :
           \/ s = "overwritten" /\ c # None /\ buffer # None
           \/ s = "twoShifts" /\ k \in Shifts /\ Shifts \subseteq held
           \/ s = "caps" /\ k = "caps"}
      /\ UNCHANGED <<procs, ppid, priority, executions, foreground, backWait, children,
                     cpuVars, pids, sleeping, mode, scan, lapses>>
      /\ UNCHANGED reading

-----------------------------------------------------------------------------
(* read() of one character from the terminal.                              *)

\* Mutant: the buffer is not emptied.
getKeyFromBuffer_mutant == UNCHANGED buffer
getKeyFromBuffer == buffer' = None

\* One round of the loop: the key is taken, or the process blocks.
readLoop ==
  /\ \/ /\ buffer # None
        /\ getKeyFromBuffer
        /\ due' = IF due = << >> THEN due ELSE Tail(due)
        /\ reading' = reading \ {current}
        /\ slips' = IF foreground[current] THEN slips ELSE slips \union {"toBackground"}
        /\ UNCHANGED vars
     \/ /\ buffer = None
        /\ blockIO
        /\ reading' = reading \union {current}
        /\ UNCHANGED <<buffer, due, slips>>
  /\ UNCHANGED <<flagVars, held>>

\* Mutant: who is in the foreground is not tested.
read_mutant == InUserCode /\ Calling("read") /\ readLoop

\* A process in the background is sent back with nothing.
read == InUserCode /\ Calling("read") /\ foreground[current] /\ readLoop

\* After blockIO the code looks at the byte before the caller's buffer, which
\* nobody has written: if it is -1, read() returns nothing.
readResume ==
  /\ mode = "user" /\ current \in reading
  /\ \/ readLoop
     \/ /\ reading' = reading \ {current}
        /\ UNCHANGED <<vars, buffer, flagVars, held, due, slips>>

\* Everything else the scheduler does; its blockIO is read() here.  A reader can lose the foreground to a
\* child that somebody unblocks.
SchedulerStep ==
  /\ mode = "user" => InUserCode
  /\ SystemCall \/ TimerInterrupt \/ TimerHandler
  /\ \A p \in Pid : state'[p] = "BLOCKEDIO" => state[p] = "BLOCKEDIO"
  /\ reading' = {p \in reading : state'[p] \notin {"DEAD", "NONE"}}
  /\ slips' = IF \E p \in reading : foreground[p] /\ ~foreground'[p]
              THEN slips \union {"takenOver"} ELSE slips
  /\ UNCHANGED <<buffer, flagVars, held, due>>

KeyboardNext ==
  \/ \E k \in Keys \union Modifiers \union {Other}, down \in BOOLEAN : keyboard_handler(k, down)
  \/ read \/ readResume \/ SchedulerStep

KeyboardSpec == KeyboardInit /\ [][KeyboardNext]_keyVars

-----------------------------------------------------------------------------
(* Properties.                                                             *)

\* What read() hands out is what was typed, in order and once: the buffer holds
\* the only character not handed out yet, whichever processes read and however
\* they are woken.  A key typed before the last one was read is written
\* over it; and the flags do not follow two shift keys, or caps lock.
KeysInOrder ==
  slips \intersect {"overwritten", "twoShifts", "caps"} = {} =>
    due = IF buffer = None THEN << >> ELSE <<buffer>>

\* A key goes to a process in the foreground, although read() tests for that
\* before it blocks and not again: a reader loses the foreground only when one
\* of its children is unblocked meanwhile.
KeysGoToForeground == "toBackground" \in slips => "takenOver" \in slips

\* No reader sleeps on a full buffer: whoever is blocked in read() when a key is
\* stored is ready, whichever way and by whatever key the character came about,
\* and whoever finds the key already taken blocks only after the buffer is empty.
NoReaderSleepsOnKey ==
  buffer # None => \A p \in reading : state[p] # "BLOCKEDIO"
=============================================================================
