--------------------------- MODULE TerminalProofs ---------------------------
(***************************************************************************)
(* Proofs about the two users of the terminal: who reads what is typed     *)
(* (Keyboard), for any keys, processes and tables, and what the shell does *)
(* with it (Shell), for any commands, lines and processes.                 *)
(***************************************************************************)
EXTENDS Keyboard, Shell, SchedulerProofs

-----------------------------------------------------------------------------
(* The keyboard drives the scheduler through steps of the scheduler only,  *)
(* so that the invariant of SchedulerProofs carries over.                  *)

\* keyboard_handler is unblockIO to the scheduler.
LEMMA HandlerWakes ==
  ASSUME NEW k, NEW down, keyboard_handler(k, down)
  PROVE  unblockIO
BY DEF keyboard_handler, InUserCode, Woken, unblockIO

\* One round of the loop of read() changes nothing of it, or is blockIO.
LEMMA LoopCases ==
  ASSUME readLoop
  PROVE  UNCHANGED vars \/ blockIO
BY DEF readLoop

\* A step of the keyboard or of read() is a step of the scheduler.
LEMMA KeyboardStep == [KeyboardNext]_keyVars => [Next]_vars
<1> SUFFICES ASSUME [KeyboardNext]_keyVars PROVE [Next]_vars
  OBVIOUS
<1>1. CASE \E k \in Keys \union Modifiers \union {Other}, down \in BOOLEAN :
             keyboard_handler(k, down)
  BY <1>1, HandlerWakes DEF Next
<1>2. CASE read \/ readResume
  BY <1>2, LoopCases DEF read, readResume, Next, SystemCall
<1>3. CASE SchedulerStep
  BY <1>3 DEF SchedulerStep, Next
<1>4. CASE UNCHANGED keyVars
  BY <1>4 DEF keyVars
<1> QED BY <1>1, <1>2, <1>3, <1>4 DEF KeyboardNext

LEMMA KeyboardSafe == KeyboardSpec => []SafetyInv
<1>1. KeyboardInit => SafetyInv
  BY SafetyInit DEF KeyboardInit
<1>2. SafetyInv /\ [KeyboardNext]_keyVars => SafetyInv'
  BY KeyboardStep, SafetyNext
<1> QED BY <1>1, <1>2, PTL DEF KeyboardSpec

-----------------------------------------------------------------------------
(* Readers and the keys stored for them.                                   *)

\* The processes inside read() are in the foreground as long as no child took it
\* from one of them.
ReadersInv ==
  /\ reading \subseteq Pid
  /\ NoReaderSleepsOnKey
  /\ "takenOver" \notin slips =>
       "toBackground" \notin slips /\ \A p \in reading : foreground[p] = TRUE

LEMMA ReadersNext ==
  SafetyInv /\ ReadersInv /\ [KeyboardNext]_keyVars => ReadersInv'
<1> SUFFICES ASSUME SafetyInv, ReadersInv, [KeyboardNext]_keyVars PROVE ReadersInv'
  OBVIOUS
<1>1. ASSUME NEW k, NEW down, keyboard_handler(k, down)
      PROVE  ReadersInv'
  <2>1. reading' = reading /\ foreground' = foreground
    BY <1>1 DEF keyboard_handler
  <2>2. \A p \in Pid : state'[p] # "BLOCKEDIO"
    BY <1>1 DEF keyboard_handler, Woken, SafetyInv, TypeOK
  <2>3. \A s \in {"takenOver", "toBackground"} : s \in slips' <=> s \in slips
    BY <1>1 DEF keyboard_handler
  <2> QED BY <2>1, <2>2, <2>3 DEF ReadersInv, NoReaderSleepsOnKey
<1>2. ASSUME readLoop, current \in Pid, current \in reading \/ foreground[current] = TRUE
      PROVE  ReadersInv'
  <2>1. foreground' = foreground
    BY <1>2, LoopCases DEF vars, procVars, blockIO
  <2>2. CASE buffer # None
    <3>1. buffer' = None /\ reading' = reading \ {current}
      BY <1>2, <2>2 DEF readLoop, getKeyFromBuffer
    <3>2. slips' = IF foreground[current] THEN slips ELSE slips \union {"toBackground"}
      BY <1>2, <2>2 DEF readLoop
    <3>3. "takenOver" \notin slips' =>
            "toBackground" \notin slips' /\ \A p \in reading' : foreground[p] = TRUE
      BY <1>2, <3>1, <3>2 DEF ReadersInv
    <3> QED BY <2>1, <3>1, <3>3 DEF ReadersInv, NoReaderSleepsOnKey
  <2>3. CASE buffer = None
    <3>1. reading' = reading \union {current} /\ UNCHANGED <<buffer, slips>>
      BY <1>2, <2>3 DEF readLoop
    <3> QED BY <1>2, <2>1, <2>3, <3>1 DEF ReadersInv, NoReaderSleepsOnKey
  <2> QED BY <2>2, <2>3
<1>3. CASE read
  <2>1. current \in Pid
    BY <1>3, UserFacts DEF read, InUserCode
  <2>2. foreground[current] = TRUE
    BY <1>3, <2>1 DEF read, SafetyInv, TypeOK
  <2> QED BY <1>2, <1>3, <2>1, <2>2 DEF read
<1>4. CASE readResume
  <2>1. current \in Pid /\ current \in reading
    BY <1>4, UserFacts DEF readResume
  <2>2. CASE readLoop
    BY <1>2, <2>1, <2>2
  <2>3. CASE reading' = reading \ {current} /\ UNCHANGED <<vars, buffer, slips>>
    BY <2>3 DEF ReadersInv, NoReaderSleepsOnKey, vars, procVars
  <2> QED BY <1>4, <2>2, <2>3 DEF readResume
<1>5. CASE SchedulerStep
  <2>1. /\ reading' \subseteq reading /\ buffer' = buffer
        /\ \A p \in Pid : state'[p] = "BLOCKEDIO" => state[p] = "BLOCKEDIO"
    BY <1>5 DEF SchedulerStep
  <2>2. /\ \A s \in {"takenOver", "toBackground"} : s \in slips => s \in slips'
        /\ "toBackground" \in slips' => "toBackground" \in slips
        /\ "takenOver" \notin slips' =>
             \A p \in reading : foreground[p] = TRUE => foreground'[p] = TRUE
    <3>1. foreground' \in [Pid -> BOOLEAN]
      <4>1. SafetyInv'
        BY KeyboardStep, SafetyNext
      <4> QED BY <4>1 DEF SafetyInv, TypeOK
    <3> QED BY <1>5, <3>1 DEF SchedulerStep, ReadersInv
  <2> QED BY <2>1, <2>2 DEF ReadersInv, NoReaderSleepsOnKey
<1>6. CASE UNCHANGED keyVars
  BY <1>6 DEF ReadersInv, NoReaderSleepsOnKey, keyVars, kbdVars, vars, procVars
<1> QED BY <1>1, <1>3, <1>4, <1>5, <1>6 DEF KeyboardNext

LEMMA ReadersAlways == KeyboardSpec => []ReadersInv
<1>1. KeyboardInit => ReadersInv
  BY DEF KeyboardInit, ReadersInv, NoReaderSleepsOnKey
<1> QED BY <1>1, ReadersNext, KeyboardSafe, PTL DEF KeyboardSpec

\* No process stays blocked in read() with a key in the buffer: the handler
\* wakes the readers at every scan code, and a reader blocks on an empty buffer.
THEOREM ReadersAwake == KeyboardSpec => []NoReaderSleepsOnKey
<1>1. ReadersInv => NoReaderSleepsOnKey
  BY DEF ReadersInv
<1> QED BY <1>1, ReadersAlways, PTL

\* A key reaches a process in the background only after a child took the
\* foreground from a process blocked in read().
THEOREM ForegroundReads == KeyboardSpec => []KeysGoToForeground
<1>1. ReadersInv => KeysGoToForeground
  BY DEF ReadersInv, KeysGoToForeground
<1> QED BY <1>1, ReadersAlways, PTL

-----------------------------------------------------------------------------
(* The flags of the driver follow the modifiers that are held.             *)

\* Alt and F1 are never down together for the flags: both are reset then.
AltInv ==
  /\ flagAlt = IF "alt" \in held THEN 0 ELSE 1
  /\ flagF1 = IF "f1" \in held THEN 0 ELSE 1
  /\ "alt" \notin held \/ "f1" \notin held

ShiftInv ==
  slips \intersect {"twoShifts", "caps"} = {} =>
    flag = IF held \intersect Shifts # {} THEN 0 ELSE 1

FlagsInv == AltInv /\ ShiftInv /\ KeysInOrder

AllKeys == Keys \union Modifiers \union {Other}

LEMMA KeyKinds ==
  ASSUME NEW k \in AllKeys
  PROVE  /\ k \in Keys => k \notin Shifts \union {"caps", "alt", "f1"}
         /\ k \in Shifts \union {"caps", "alt", "f1"} => k \notin Keys \union {Other}
BY KeyboardAssumption DEF AllKeys

\* A character of the tables is neither EOF nor the empty buffer.
LEMMA TableFacts ==
  ASSUME NEW k, NEW b \in BOOLEAN
  PROVE  /\ Table(k, b) # EOF
         /\ k \notin Keys => Table(k, b) = None
<1>1. CASE k \in Keys
  <2>1. Char0(k, b) \in [key : Keys, up : BOOLEAN]
    BY <1>1 DEF Char0
  <2> QED BY <1>1, <2>1, KeyboardAssumption DEF Table
<1>2. CASE k \notin Keys
  BY <1>2, KeyboardAssumption DEF Table
<1> QED BY <1>1, <1>2

\* testKeyboardInterrupt sees both keys down exactly when Alt completes F1 or
\* F1 completes Alt.
LEMMA BothFacts ==
  ASSUME AltInv, NEW k \in AllKeys, NEW down \in BOOLEAN
  PROVE  Both(k, down) <=>
           down /\ k \in {"alt", "f1"} /\ {"alt", "f1"} \subseteq held \union {k}
<1>1. CASE k = "alt"
  BY <1>1 DEF Both, Level, AltInv
<1>2. CASE k = "f1"
  BY <1>2 DEF Both, Level, AltInv
<1>3. CASE k \notin {"alt", "f1"}
  BY <1>3 DEF Both, Level, AltInv
<1> QED BY <1>1, <1>2, <1>3

\* The character saved is the one meant, unless caps lock was used or the two
\* shift keys were mixed.
LEMMA SavedIsMeant ==
  ASSUME AltInv, ShiftInv, slips \intersect {"twoShifts", "caps"} = {},
         NEW k \in AllKeys, k # "caps", NEW down \in BOOLEAN
  PROVE  Saved(k, down) = Meant(k, down)
<1>1. CASE k \in Shifts
  <2>1. k \notin Keys /\ k \notin {"alt", "f1"}
    BY <1>1, KeyKinds DEF Shifts
  <2>2. Table(k, held \intersect Shifts # {}) = None
    BY <2>1, TableFacts
  <2> QED BY <1>1, <2>1, <2>2 DEF Saved, Meant
<1>2. CASE k \notin Shifts
  <2>1. (Flag(k, down) = 0) = (held \intersect Shifts # {})
    BY <1>2 DEF Flag, ShiftInv
  <2>2. Saved(k, down) = IF Both(k, down) THEN EOF
                         ELSE IF down THEN Table(k, held \intersect Shifts # {}) ELSE None
    BY <1>2, <2>1 DEF Saved
  <2> QED BY <2>2, BothFacts DEF Meant
<1> QED BY <1>1, <1>2

\* keyboard_handler keeps the flags in step with what is held.
LEMMA AltNext ==
  ASSUME AltInv, NEW k \in AllKeys, NEW down \in BOOLEAN, keyboard_handler(k, down)
  PROVE  AltInv'
<1> DEFINE eof == down /\ k \in {"alt", "f1"} /\ {"alt", "f1"} \subseteq held \union {k}
<1>1. Both(k, down) <=> eof
  BY BothFacts
<1>2. Meant(k, down) = EOF <=> eof
  <2>1. Table(k, held \intersect Shifts # {}) # EOF
    BY TableFacts
  <2> QED BY <2>1, KeyboardAssumption DEF Meant
<1>3. eof => k \notin Shifts
  BY DEF Shifts
<1>4. /\ flagAlt' = IF eof THEN 1 ELSE Level(k, down, "alt", flagAlt)
      /\ flagF1' = IF eof THEN 1 ELSE Level(k, down, "f1", flagF1)
      /\ held' = IF eof THEN held \ {"alt", "f1"}
                 ELSE IF down THEN held \union ({k} \ (Keys \union {Other, "caps"})) ELSE held \ {k}
  BY <1>1, <1>2, <1>3 DEF keyboard_handler
<1>5. k \in {"alt", "f1"} => k \notin Keys \union {Other, "caps"}
  BY KeyKinds
<1>6. CASE eof
  BY <1>4, <1>6 DEF AltInv
<1>7. CASE ~eof
  <2>1. CASE k = "alt"
    BY <1>4, <1>5, <1>7, <2>1 DEF AltInv, Level
  <2>2. CASE k = "f1"
    BY <1>4, <1>5, <1>7, <2>2 DEF AltInv, Level
  <2>3. CASE k \notin {"alt", "f1"}
    BY <1>4, <1>7, <2>3 DEF AltInv, Level
  <2> QED BY <2>1, <2>2, <2>3
<1> QED BY <1>6, <1>7

LEMMA ShiftNext ==
  ASSUME ShiftInv, NEW k \in AllKeys, NEW down \in BOOLEAN, keyboard_handler(k, down)
  PROVE  ShiftInv'
<1> SUFFICES ASSUME slips' \intersect {"twoShifts", "caps"} = {}
             PROVE  flag' = IF held' \intersect Shifts # {} THEN 0 ELSE 1
  BY DEF ShiftInv
<1>1. /\ slips \intersect {"twoShifts", "caps"} = {}
      /\ k # "caps" /\ ~(k \in Shifts /\ Shifts \subseteq held)
  BY DEF keyboard_handler, Slips
<1>2. flag = IF held \intersect Shifts # {} THEN 0 ELSE 1
  BY <1>1 DEF ShiftInv
<1>3. flag' = Flag(k, down) /\ (~down => k \notin Shifts \/ k \in held)
  BY DEF keyboard_handler
<1>4. held' = IF Meant(k, down) = EOF THEN held \ {"alt", "f1"}
              ELSE IF down THEN held \union ({k} \ (Keys \union {Other, "caps"})) ELSE held \ {k}
  BY DEF keyboard_handler
<1>5. CASE k \notin Shifts
  <2>1. held' \intersect Shifts = held \intersect Shifts
    BY <1>4, <1>5 DEF Shifts
  <2> QED BY <1>1, <1>2, <1>3, <1>5, <2>1 DEF Flag
<1>6. CASE k \in Shifts
  <2>1. k \notin Keys \union {Other, "caps"} /\ k \notin {"alt", "f1"}
    BY <1>6, KeyKinds DEF Shifts
  <2>2. Meant(k, down) # EOF
    BY <2>1, TableFacts, KeyboardAssumption DEF Meant
  <2>3. held' \intersect Shifts # {} <=> down
    BY <1>1, <1>3, <1>4, <1>6, <2>1, <2>2 DEF Shifts
  <2> QED BY <1>3, <1>6, <2>3 DEF Flag
<1> QED BY <1>5, <1>6

LEMMA FlagsNext == FlagsInv /\ [KeyboardNext]_keyVars => FlagsInv'
<1> SUFFICES ASSUME FlagsInv, [KeyboardNext]_keyVars PROVE FlagsInv'
  OBVIOUS
<1>1. ASSUME NEW k \in AllKeys, NEW down \in BOOLEAN, keyboard_handler(k, down)
      PROVE  FlagsInv'
  <2>1. AltInv' /\ ShiftInv'
    BY <1>1, AltNext, ShiftNext DEF FlagsInv
  <2>2. KeysInOrder'
    <3> SUFFICES ASSUME slips' \intersect {"overwritten", "twoShifts", "caps"} = {}
                 PROVE  due' = IF buffer' = None THEN << >> ELSE <<buffer'>>
      BY DEF KeysInOrder
    <3>1. /\ slips \intersect {"overwritten", "twoShifts", "caps"} = {}
          /\ k # "caps" /\ (Saved(k, down) = None \/ buffer = None)
      BY <1>1 DEF keyboard_handler, Slips
    <3>2. Saved(k, down) = Meant(k, down)
      BY <3>1, SavedIsMeant DEF FlagsInv
    <3>3. due = IF buffer = None THEN << >> ELSE <<buffer>>
      BY <3>1 DEF FlagsInv, KeysInOrder
    <3>4. /\ buffer' = IF Meant(k, down) = None THEN buffer ELSE Meant(k, down)
          /\ due' = IF Meant(k, down) = None THEN due ELSE Append(due, Meant(k, down))
      BY <1>1, <3>2 DEF keyboard_handler
    <3>5. CASE Meant(k, down) = None
      BY <3>3, <3>4, <3>5
    <3>6. CASE Meant(k, down) # None
      <4>1. due = << >>
        BY <3>1, <3>2, <3>3, <3>6
      <4>2. Append(<< >>, Meant(k, down)) = <<Meant(k, down)>>
        OBVIOUS
      <4> QED BY <3>4, <3>6, <4>1, <4>2
    <3> QED BY <3>5, <3>6
  <2> QED BY <2>1, <2>2 DEF FlagsInv
<1>2. CASE readLoop
  <2>1. UNCHANGED <<flag, flagAlt, flagF1, held>>
    BY <1>2 DEF readLoop, flagVars
  <2>2. slips \subseteq slips' /\ slips' \subseteq slips \union {"toBackground"}
    BY <1>2 DEF readLoop
  <2>3. AltInv' /\ ShiftInv'
    BY <2>1, <2>2 DEF FlagsInv, AltInv, ShiftInv
  <2>4. KeysInOrder'
    <3> SUFFICES ASSUME slips \intersect {"overwritten", "twoShifts", "caps"} = {}
                 PROVE  due' = IF buffer' = None THEN << >> ELSE <<buffer'>>
      BY <2>2 DEF KeysInOrder
    <3>1. due = IF buffer = None THEN << >> ELSE <<buffer>>
      BY DEF FlagsInv, KeysInOrder
    <3>2. CASE buffer # None
      BY <1>2, <3>1, <3>2 DEF readLoop, getKeyFromBuffer
    <3>3. CASE buffer = None
      BY <1>2, <3>1, <3>3 DEF readLoop
    <3> QED BY <3>2, <3>3
  <2> QED BY <2>3, <2>4 DEF FlagsInv
<1>3. ASSUME UNCHANGED <<buffer, flagVars, held, due>>,
             slips \subseteq slips' /\ slips' \subseteq slips \union {"takenOver"}
      PROVE  FlagsInv'
  BY <1>3 DEF FlagsInv, AltInv, ShiftInv, KeysInOrder, flagVars
<1>4. CASE read \/ readResume
  BY <1>2, <1>3, <1>4 DEF read, readResume
<1>5. CASE SchedulerStep
  BY <1>3, <1>5 DEF SchedulerStep
<1>6. CASE UNCHANGED keyVars
  BY <1>3, <1>6 DEF keyVars, kbdVars
<1> QED BY <1>1, <1>4, <1>5, <1>6 DEF KeyboardNext, AllKeys

\* What read() hands out is what was typed, in order and once, for every table
\* of keys and every set of modifiers, as long as no key is typed over one that
\* was not read and neither caps lock nor both shift keys are used.
THEOREM TypedInOrder == KeyboardSpec => []KeysInOrder
<1>1. KeyboardInit => FlagsInv
  BY DEF KeyboardInit, FlagsInv, AltInv, ShiftInv, KeysInOrder
<1>2. FlagsInv => KeysInOrder
  BY DEF FlagsInv
<1> QED BY <1>1, <1>2, FlagsNext, PTL DEF KeyboardSpec

-----------------------------------------------------------------------------
(* The shell drives the scheduler too.                                     *)

\* What the places of processInput() know of the line, and the types of the rest.
ShellTypes ==
  /\ line \in Line
  /\ isForeground \in [Cmds -> BOOLEAN]
  /\ fd \in [Pid -> Nat]
  /\ pipes \in Nat
  /\ shellAt \in {"builtIn", "load", "loadSecond", "wait", "close"} => line.comm0 \in Cmds
  /\ shellAt \in {"openPipe", "load"} /\ Piped => ~line.amp
  /\ shellAt = "builtIn" => ~Piped
  /\ shellAt = "loadSecond" => Piped

\* Only the shell joins its children by pipes; it leaves them open while they are
\* loaded, and waits for a line with a pipe unless its first command is detached.
PipeInv ==
  /\ \A p \in Pid : fd[p] # 0 => ppid[p] = SHELL
  /\ shellAt \in {"load", "loadSecond"} /\ Piped => pipes \in openPipes
  /\ shellAt \in {"loadSecond", "wait", "close"} /\ Piped /\ "detached" \notin misuses =>
       isForeground[line.comm0]
  /\ PipeInUseIsOpen

\* Nobody but main() and the shell loads processes.
TwoParents == \A p \in Pid : Live(p) /\ ppid[p] \in Pid => ppid[p] \in {INIT_PID, SHELL}

\* The children of the shell that were loaded in the foreground.
InFront == {c \in LiveChildren(SHELL) : foreground[c]}

\* The foreground is with one of them, which gives it back.
LentToChild == backWait[SHELL] /\ InFront # {}

HasTerminal == foreground[SHELL] \/ shellAt \in {"exit", "gone"} \/ LentToChild

\* They live only from the loading of a command until the shell has waited for it.
FrontIsWaitedFor ==
  InFront # {} =>
    \/ shellAt \in {"exit", "gone"}
    \/ shellAt \in {"loadSecond", "wait", "close"} /\ isForeground[line.comm0]

\* Inside wait(): the shell waits, or was blocked while it did.
Resting == {"WAITING", "BLOCKED"}

\* wait() ends when there are no children.
HasWaited ==
  shellAt = "close" /\ isForeground[line.comm0] =>
    state[SHELL] \in Resting \/ LiveChildren(SHELL) = {}

WaitsForAll == "killDead" \notin lapses /\ "wokenShell" \notin misuses

ShellInv ==
  /\ sleeping = << >>
  /\ mainAt = "bottler" => pids = 3
  /\ ShellTypes
  /\ TwoParents
  /\ PipeInv
  /\ WaitsForAll /\ Live(SHELL) => HasTerminal /\ FrontIsWaitedFor /\ HasWaited

\* The invariants of the scheduler that those of the shell rest on.
KernelInv == SafetyInv /\ FamilyInv /\ TerminalInv

-----------------------------------------------------------------------------
(* The shell as a user of the scheduler.                                   *)

\* Every step of the shell, of main() and of a command is one of the scheduler, or
\* none for it.
LEMMA ShellSteps == ShellTypes /\ [ShellNext]_shVars => [Next]_vars
<1> SUFFICES ASSUME ShellTypes, [ShellNext]_shVars PROVE [Next]_vars
  OBVIOUS
<1>1. ASSUME NEW c, NEW fg \in BOOLEAN, NEW n, Load(c, fg, n)
      PROVE  SysLoadProcess
  BY <1>1 DEF Load, SysLoadProcess
<1>2. CASE mainLoad
  BY <1>1, <1>2 DEF mainLoad, Next, SystemCall
<1>3. CASE mainRest
  BY <1>3 DEF mainRest, Wait, Next, SystemCall
<1>4. CASE shell
  <2>1. CASE awaitKey \/ waitCommands \/ exitShell \/ builtIn
    BY <2>1 DEF awaitKey, waitCommands, exitShell, builtIn, Wait, Next, SystemCall
  <2>2. CASE scanfNoPrint \/ openPipe \/ closePipe
    BY <2>2 DEF scanfNoPrint, openPipe, closePipe
  <2>3. CASE load
    <3>1. isForeground'[line.comm0] \in BOOLEAN
      BY <2>3 DEF load, ShellTypes
    <3> QED BY <1>1, <2>3, <3>1 DEF load, Next, SystemCall
  <2>4. CASE loadSecond
    BY <1>1, <2>4 DEF loadSecond, Next, SystemCall
  <2> QED BY <1>4, <2>1, <2>2, <2>3, <2>4 DEF shell
<1>5. CASE Command
  BY <1>5 DEF Command, BuiltInCall, Next, SystemCall
<1>6. CASE Interrupt
  BY <1>6 DEF Interrupt, Next
<1>7. CASE UNCHANGED shVars
  BY <1>7 DEF shVars
<1> QED BY <1>2, <1>3, <1>4, <1>5, <1>6, <1>7 DEF ShellNext

\* Steps after which the shell, if it lives, still has the foreground or a child that
\* took it from the shell, and no other child in the foreground than before.
Calm ==
  /\ lapses \subseteq lapses'
  /\ \A p \in Pid : Live(p)' => Live(p) /\ ppid'[p] = ppid[p]
  /\ "killDead" \notin lapses' /\ Live(SHELL)' =>
       /\ foreground[SHELL] \/ LentToChild => foreground'[SHELL] \/ LentToChild'
       /\ InFront' \subseteq InFront

\* Steps that end the wait() of the shell only when it has no child.
WaitsOn ==
  "killDead" \notin lapses' /\ Live(SHELL)' /\ state[SHELL] \in Resting =>
    state'[SHELL] \in Resting \/ LiveChildren(SHELL)' = {}

\* The shell is a pid, and neither of the first two processes.
LEMMA ShellPid ==
  /\ SHELL \in Pid /\ INIT_PID \in Pid /\ IDLE_PID \in Pid
  /\ SHELL # IDLE_PID /\ SHELL # INIT_PID /\ INIT_PID # IDLE_PID /\ SHELL # 0 /\ SHELL = 4
BY ShellAssumption, SchedulerAssumption DEF Pid, SHELL, INIT_PID, IDLE_PID

\* No step of which the shell does not see more is anything but calm.
LEMMA CalmKept ==
  ASSUME TypeOK, lapses \subseteq lapses',
         \A p \in Pid : Live(p)' => /\ Live(p)
                                    /\ UNCHANGED <<ppid[p], foreground[p], backWait[p]>>
                                    /\ p = SHELL /\ state[p] \in Resting => state'[p] \in Resting,
         \A p \in Pid : Live(p) => Live(p)'
  PROVE  Calm /\ WaitsOn
<1>1. InFront' = InFront
  <2>1. \A c \in Pid : /\ c \in LiveChildren(SHELL)' <=> c \in LiveChildren(SHELL)
                       /\ c \in LiveChildren(SHELL) => foreground'[c] = foreground[c]
    BY DEF LiveChildren
  <2> QED BY <2>1 DEF InFront, LiveChildren
<1>2. Live(SHELL)' => UNCHANGED <<foreground[SHELL], backWait[SHELL]>>
  BY ShellPid
<1> QED BY <1>1, <1>2, ShellPid DEF Calm, WaitsOn, LentToChild

\* The parents of live processes are not among the children of the shell.
LEMMA ParentsAreNotInFront ==
  ASSUME KernelInv, TwoParents, NEW pid \in Pid, Live(pid)
  PROVE  \A c \in LiveChildren(SHELL) : c # ppid[pid]
<1> SUFFICES ASSUME NEW c \in Pid, ppid[c] = SHELL, c = ppid[pid] PROVE FALSE
  BY DEF LiveChildren
<1>1. c \in {INIT_PID, SHELL}
  BY DEF TwoParents
<1>2. SHELL < c /\ INIT_PID < SHELL
  BY ShellPid DEF KernelInv, TerminalInv, SHELL, INIT_PID
<1> QED BY <1>1, <1>2, ShellPid

\* kill() of a child that has the foreground gives it back to the shell, and the
\* end of the last child ends its wait().
LEMMA KillIsCalm == KernelInv /\ TwoParents /\ (SysKill \/ exitProcess) => Calm /\ WaitsOn
<1> SUFFICES ASSUME KernelInv, TwoParents, SysKill \/ exitProcess PROVE Calm /\ WaitsOn
  OBVIOUS
<1>1. mode = "user" /\ UNCHANGED <<procs, ppid, pids>>
  BY DEF SysKill, exitProcess, Calling
<1>2. TypeOK /\ current \in Pid
  BY <1>1, UserFacts DEF KernelInv, SafetyInv
<1>3. PICK pid \in Pid : kill(pid)
  BY <1>2 DEF SysKill, exitProcess
<1>4. lapses \subseteq lapses' /\ (state[pid] = "DEAD" => "killDead" \in lapses')
  BY <1>3 DEF kill
<1>5. state[pid] # "NONE" /\ state'[pid] = "DEAD"
  BY <1>3 DEF kill, KernelInv, SafetyInv, TypeOK, ListWellFormed
<1>6. \A p \in Pid \ {pid} :
        \/ state'[p] = state[p]
        \/ /\ p = ppid[pid] /\ children[p] = 1
           /\ state[p] = "WAITING" /\ state'[p] = "READY"
  BY <1>2, <1>3 DEF kill, TypeOK
<1>7. \A p \in Pid : Live(p)' <=> Live(p) /\ p # pid
  BY <1>5, <1>6 DEF Live
<1>8. /\ \A p \in Pid : foreground[p] => foreground'[p]
      /\ \A p \in Pid : p # ppid[pid] => foreground'[p] = foreground[p]
      /\ \A p \in Pid : ~backWait'[p] /\ backWait[p] => foreground'[p]
      /\ \A p \in Pid : p = ppid[pid] /\ foreground[pid] /\ searchProcess(p) /\ backWait[p] => foreground'[p]
  BY <1>2, <1>3 DEF kill, GiveBack, TypeOK
<1>9. ASSUME "killDead" \notin lapses', Live(SHELL)'
      PROVE  /\ LentToChild => foreground'[SHELL] \/ LentToChild'
             /\ InFront' \subseteq InFront
             /\ state[SHELL] \in Resting => state'[SHELL] \in Resting \/ LiveChildren(SHELL)' = {}
  <2>1. SHELL \in Pid /\ SHELL # pid /\ Live(SHELL) /\ Live(pid) /\ searchProcess(SHELL)
    BY <1>4, <1>5, <1>7, <1>9, ShellPid DEF Live, KernelInv, SafetyInv, ListWellFormed
  <2>2. LiveChildren(SHELL)' = LiveChildren(SHELL) \ {pid}
    BY <1>1, <1>7 DEF LiveChildren
  <2>3. \A c \in LiveChildren(SHELL) : c \in Pid /\ foreground'[c] = foreground[c]
    BY <1>8, <2>1, ParentsAreNotInFront DEF LiveChildren
  <2>4. InFront' = InFront \ {pid}
    BY <2>2, <2>3 DEF InFront
  <2>5. ASSUME LentToChild PROVE foreground'[SHELL] \/ LentToChild'
    <3>1. CASE pid \in InFront
      BY <1>8, <2>1, <2>5, <3>1 DEF LentToChild, InFront, LiveChildren
    <3>2. CASE pid \notin InFront
      BY <1>8, <2>1, <2>4, <2>5, <3>2 DEF LentToChild
    <3> QED BY <3>1, <3>2
  <2>6. ASSUME state[SHELL] \in Resting, state'[SHELL] \notin Resting
        PROVE  LiveChildren(SHELL)' = {}
    <3>1. ppid[pid] = SHELL /\ children[SHELL] = 1
      BY <1>6, <2>1, <2>6
    <3>2. children[SHELL] = Cardinality(LiveChildren(SHELL)) /\ pid \in LiveChildren(SHELL)
      BY <1>4, <1>9, <2>1, <3>1 DEF KernelInv, FamilyInv, Live, LiveChildren
    <3>3. IsFiniteSet(LiveChildren(SHELL)) /\ Cardinality(LiveChildren(SHELL)) = 1
      BY <3>1, <3>2, LiveChildrenFinite
    <3>4. /\ IsFiniteSet(LiveChildren(SHELL) \ {pid})
          /\ Cardinality(LiveChildren(SHELL) \ {pid}) = 0
      BY <3>2, <3>3, FS_RemoveElement
    <3> QED BY <2>2, <3>4, FS_EmptySet
  <2> QED BY <2>4, <2>5, <2>6
<1> QED BY <1>1, <1>4, <1>7, <1>8, <1>9, ShellPid DEF Calm, WaitsOn

\* So does block() of a child, which does not end a wait() either.
LEMMA BlockIsCalm == KernelInv /\ TwoParents /\ SysBlock => Calm /\ WaitsOn
<1> SUFFICES ASSUME KernelInv, TwoParents, SysBlock PROVE Calm /\ WaitsOn
  OBVIOUS
<1>1. PICK pid \in Pid : block(pid)
  BY DEF SysBlock
<1>2. TypeOK /\ UNCHANGED <<ppid, lapses>>
  BY DEF KernelInv, SafetyInv, SysBlock
<1>3. (\A p \in Pid : Live(p)' <=> Live(p)) /\ Live(pid)
  BY <1>1 DEF block, Alive, Live, KernelInv, SafetyInv, TypeOK, ListWellFormed
<1>4. /\ \A p \in Pid : foreground[p] => foreground'[p]
      /\ \A p \in Pid : p # ppid[pid] => foreground'[p] = foreground[p]
      /\ \A p \in Pid : ~backWait'[p] /\ backWait[p] => foreground'[p]
  BY <1>1, <1>2 DEF block, GiveBack, TypeOK
<1>5. InFront' = InFront
  <2>1. \A c \in LiveChildren(SHELL) : foreground'[c] = foreground[c]
    BY <1>3, <1>4, ParentsAreNotInFront DEF LiveChildren
  <2> QED BY <1>2, <1>3, <2>1 DEF InFront, LiveChildren
<1>6. foreground[SHELL] \/ LentToChild => foreground'[SHELL] \/ LentToChild'
  BY <1>4, <1>5, ShellPid DEF LentToChild
<1>7. \A p \in Pid : state[p] \in Resting => state'[p] \in Resting
  BY <1>1, <1>2 DEF block, Resting, TypeOK
<1> QED BY <1>2, <1>3, <1>5, <1>6, <1>7, ShellPid DEF Calm, WaitsOn

\* unblock() of a child takes the foreground from the shell; unblock() of the shell
\* itself ends its wait(), so that only the first half holds.
LEMMA UnblockIsCalm ==
  ASSUME KernelInv, TwoParents, SysUnblock
  PROVE  Calm /\ (state'[SHELL] # "READY" => WaitsOn)
<1>1. PICK pid \in Pid : unblock(pid)
  BY DEF SysUnblock
<1>2. TypeOK /\ UNCHANGED ppid /\ lapses \subseteq lapses'
  BY DEF KernelInv, SafetyInv, SysUnblock
<1>3. (\A p \in Pid : Live(p)' <=> Live(p)) /\ Live(pid)
  BY <1>1 DEF unblock, Alive, Live, KernelInv, SafetyInv, TypeOK, ListWellFormed
<1>4. /\ \A p \in Pid : p # ppid[pid] => foreground'[p] = foreground[p]
      /\ \A p \in Pid : backWait[p] => backWait'[p]
      /\ \A p \in Pid : foreground[p] /\ ~foreground'[p] =>
                           p = ppid[pid] /\ foreground[pid] /\ backWait'[p]
  BY <1>1, <1>2 DEF unblock, TakeOver, TypeOK
<1>5. InFront' = InFront
  <2>1. \A c \in LiveChildren(SHELL) : foreground'[c] = foreground[c]
    BY <1>3, <1>4, ParentsAreNotInFront DEF LiveChildren
  <2> QED BY <1>2, <1>3, <2>1 DEF InFront, LiveChildren
<1>6. foreground[SHELL] \/ LentToChild => foreground'[SHELL] \/ LentToChild'
  <2>1. CASE foreground[SHELL] /\ ~foreground'[SHELL]
    <3>1. pid \in InFront /\ backWait'[SHELL]
      BY <1>3, <1>4, <2>1, ShellPid DEF InFront, LiveChildren
    <3> QED BY <1>5, <3>1 DEF LentToChild
  <2>2. CASE LentToChild
    BY <1>4, <1>5, <2>2, ShellPid DEF LentToChild
  <2> QED BY <2>1, <2>2
<1>7. state'[SHELL] # "READY" => state'[SHELL] = state[SHELL]
  BY <1>1, <1>2, ShellPid DEF unblock, TypeOK
<1> QED BY <1>2, <1>3, <1>5, <1>6, <1>7, ShellPid DEF Calm, WaitsOn

\* Nobody sleeps, so that the handler only wakes the idle process, which is nobody's
\* child; and it frees the dead.
LEMMA InterruptIsCalm ==
  ASSUME KernelInv, sleeping = << >>, TimerInterrupt \/ unblockIO \/ TimerHandler
  PROVE  /\ Calm /\ WaitsOn /\ sleeping' = << >> /\ pids' = pids /\ lapses' = lapses
         /\ \A p \in Pid : Live(p) => Live(p)'
         /\ \A p \in Pid : state'[p] = "NONE" \/ ppid'[p] = ppid[p]
<1>1. TypeOK /\ ListWellFormed
  BY DEF KernelInv, SafetyInv
<1>2. sleeping' = << >> /\ UNCHANGED <<pids, lapses>> /\ ~wakeUp
  <2>1. mode = "checkSleeping" => DueFrom(scan) = {}
    <3>1. Len(sleeping) = 0
      OBVIOUS
    <3>2. mode = "checkSleeping" => scan >= 1 /\ scan \in Nat
      BY <1>1 DEF KernelInv, SafetyInv, ScanInList, TypeOK
    <3> QED BY <3>1, <3>2 DEF DueFrom
  <2> QED BY <2>1 DEF TimerInterrupt, unblockIO, TimerHandler, nextProcess, wakeUp, EnterNextProcess,
                      NextWrap, NextAllBlocked, NextReap, NextSkip, NextRun
<1>3. ASSUME NEW p \in Pid
      PROVE  /\ Live(p)' <=> Live(p)
             /\ Live(p) => UNCHANGED <<ppid[p], foreground[p], backWait[p]>>
             /\ p # IDLE_PID /\ state[p] \in Resting => state'[p] \in Resting
             /\ state'[p] = "NONE" \/ ppid'[p] = ppid[p]
  <2>1. CASE TimerInterrupt \/ EnterNextProcess \/ NextWrap \/ NextSkip
    BY <2>1 DEF TimerInterrupt, EnterNextProcess, NextWrap, NextSkip, procVars, Live
  <2>2. CASE unblockIO
    BY <1>1, <2>2 DEF unblockIO, Live, Resting, TypeOK
  <2>3. CASE NextRun
    BY <1>1, <2>3, IdlePid DEF NextRun, IdleBlocked, Alive, Live, Resting, TypeOK, ListWellFormed
  <2>4. CASE NextReap
    BY <1>1, <2>4 DEF NextReap, Live, Resting, TypeOK
  <2>5. CASE NextAllBlocked
    <3>1. UNCHANGED <<foreground, backWait>>
      <4>1. ppid[IDLE_PID] \notin Pid
        BY <1>1, IdlePid DEF KernelInv, TerminalInv, TypeOK, Pid, IDLE_PID
      <4>2. ~searchProcess(ppid[IDLE_PID])
        <5>1. \A i \in 1..Len(procs) : procs[i] \in Pid
          BY <1>1 DEF TypeOK
        <5> QED BY <4>1, <5>1 DEF searchProcess
      <4> QED BY <2>5, <4>2 DEF NextAllBlocked, unblock, TakeOver
    <3>2. UNCHANGED ppid
      BY <2>5 DEF NextAllBlocked
    <3>3. (Live(p)' <=> Live(p)) /\ (p # IDLE_PID => state'[p] = state[p])
      BY <1>1, <2>5, IdlePid DEF NextAllBlocked, unblock, Alive, Live, TypeOK, ListWellFormed
    <3> QED BY <3>1, <3>2, <3>3
  <2> QED BY <1>2, <2>1, <2>2, <2>3, <2>4, <2>5 DEF TimerHandler, nextProcess
<1>4. Calm /\ WaitsOn
  BY <1>1, <1>2, <1>3, CalmKept, ShellPid
<1> QED BY <1>2, <1>3, <1>4

-----------------------------------------------------------------------------
(* Steps that the shell does not take.                                     *)

\* What the shell knows survives calm steps of others, which may end its wait() only
\* when it has no child or by the misuse that voids the rest.
LEMMA ShellKept ==
  ASSUME ShellInv, Calm, ShellTypes', sleeping' = << >>,
         mainAt' = "bottler" => pids' = 3,
         UNCHANGED <<shellAt, line, isForeground, pipes, openPipes>>,
         misuses \subseteq misuses',
         WaitsOn \/ (shellAt = "close" /\ isForeground[line.comm0] => "wokenShell" \in misuses'),
         \A p \in Pid : fd'[p] = 0 \/ (fd'[p] = fd[p] /\ ppid'[p] = ppid[p])
  PROVE  ShellInv'
<1>1. PipeInUseIsOpen'
  BY DEF Calm, ShellInv, PipeInv, PipeInUseIsOpen
<1>2. PipeInv'
  BY <1>1 DEF ShellInv, PipeInv, Piped
<1>3. TwoParents'
  BY DEF Calm, ShellInv, TwoParents
<1>4. ASSUME WaitsForAll', Live(SHELL)'
      PROVE  HasTerminal' /\ FrontIsWaitedFor' /\ HasWaited'
  <2>1. /\ HasTerminal /\ FrontIsWaitedFor /\ HasWaited
        /\ "killDead" \notin lapses' /\ "wokenShell" \notin misuses'
        /\ foreground[SHELL] \/ LentToChild => foreground'[SHELL] \/ LentToChild'
        /\ InFront' \subseteq InFront
    BY <1>4, ShellPid DEF Calm, ShellInv, WaitsForAll
  <2>2. HasTerminal' /\ FrontIsWaitedFor'
    BY <2>1 DEF HasTerminal, FrontIsWaitedFor
  <2>3. LiveChildren(SHELL) = {} => LiveChildren(SHELL)' = {}
    BY DEF Calm, LiveChildren
  <2>4. HasWaited'
    BY <1>4, <2>1, <2>3 DEF HasWaited, WaitsOn
  <2> QED BY <2>2, <2>4
<1> QED BY <1>2, <1>3, <1>4 DEF ShellInv

\* The commands end, or make the call of a built-in; interrupts take the fd of a
\* process with its record.
LEMMA CommandKeeps == KernelInv /\ ShellInv /\ Command => ShellInv'
<1> SUFFICES ASSUME KernelInv, ShellInv, Command PROVE ShellInv'
  OBVIOUS
<1>1. UNCHANGED <<mainAt, shellAt, line, isForeground, fd, pipes, openPipes>>
  BY DEF Command
<1>2. CASE (exitProcess \/ SysKill \/ SysBlock) /\ misuses' = misuses
  <2>1. Calm /\ WaitsOn /\ UNCHANGED <<ppid, pids, sleeping>>
    BY <1>2, KillIsCalm, BlockIsCalm DEF SysKill, SysBlock, exitProcess, ShellInv
  <2> QED BY <1>1, <1>2, <2>1, ShellKept DEF ShellInv, ShellTypes, Piped
<1>3. CASE BuiltInCall /\ SysUnblock
  <2>1. Calm /\ (state'[SHELL] # "READY" => WaitsOn) /\ UNCHANGED <<ppid, pids, sleeping>>
    BY <1>3, UnblockIsCalm DEF SysUnblock, ShellInv
  <2>2. misuses \subseteq misuses'
    BY <1>3 DEF BuiltInCall
  <2>3. CASE runs[current] = "unblock" /\ state'[SHELL] = "READY" /\ state[SHELL] # "READY"
    <3>1. shellAt = "close" /\ isForeground[line.comm0] => "wokenShell" \in misuses'
      BY <1>3, <2>3 DEF BuiltInCall
    <3> QED BY <1>1, <2>1, <2>2, <3>1, ShellKept DEF ShellInv, ShellTypes, Piped
  <2>4. CASE state[SHELL] = "READY" \/ state'[SHELL] # "READY"
    <3>1. WaitsOn
      BY <2>1, <2>4 DEF WaitsOn, Resting
    <3> QED BY <1>1, <2>1, <2>2, <3>1, ShellKept DEF ShellInv, ShellTypes, Piped
  <2>5. CASE runs[current] # "unblock"
    BY <1>2, <1>3, <2>5 DEF BuiltInCall
  <2> QED BY <2>3, <2>4, <2>5
<1> QED BY <1>2, <1>3 DEF Command, BuiltInCall

LEMMA InterruptKeeps == KernelInv /\ ShellInv /\ Interrupt => ShellInv'
<1> SUFFICES ASSUME KernelInv, ShellInv, Interrupt PROVE ShellInv'
  OBVIOUS
<1>1. /\ TimerInterrupt \/ unblockIO \/ TimerHandler
      /\ fd' = [p \in Pid |-> IF state'[p] = "NONE" THEN 0 ELSE fd[p]]
      /\ UNCHANGED <<mainAt, shellAt, line, isForeground, pipes, openPipes, lines, misuses>>
  BY DEF Interrupt
<1>2. /\ Calm /\ WaitsOn /\ sleeping' = << >> /\ pids' = pids
      /\ \A p \in Pid : state'[p] = "NONE" \/ ppid'[p] = ppid[p]
  BY <1>1, InterruptIsCalm DEF ShellInv
<1>3. ShellTypes'
  BY <1>1 DEF ShellInv, ShellTypes, Piped
<1>4. \A p \in Pid : fd'[p] = 0 \/ (fd'[p] = fd[p] /\ ppid'[p] = ppid[p])
  BY <1>1, <1>2
<1> QED BY <1>1, <1>2, <1>3, <1>4, ShellKept DEF ShellInv

\* Loading a process, seen from the shell.
LEMMA LoadFacts ==
  ASSUME KernelInv, ShellTypes, NEW c, NEW fg \in BOOLEAN, NEW n \in Nat, Load(c, fg, n)
  PROVE  /\ SafetyInv' /\ lapses' = lapses /\ sleeping' = sleeping
         /\ pids \in Pid /\ pids # current /\ current \in Pid /\ state[pids] = "NONE"
         /\ fd' = [fd EXCEPT ![pids] = n]
         /\ \A p \in Pid : ppid'[p] = IF p = pids THEN current ELSE ppid[p]
         /\ \A p \in Pid : p # pids => ppid[p] # pids
         /\ \A p \in Pid : Live(p)' <=> Live(p) \/ p = pids
         /\ \A p \in Pid : p # IDLE_PID => (state'[p] \in Resting <=> state[p] \in Resting)
         /\ \A p \in Pid : p # pids /\ p # current => UNCHANGED <<foreground[p], backWait[p]>>
         /\ foreground'[pids] = fg /\ ~backWait'[pids]
         /\ foreground'[current] <=> foreground[current] /\ ~fg
         /\ backWait'[current] <=> backWait[current] \/ (foreground[current] /\ fg)
<1>1. /\ enqueueProcess(fg) /\ mode = "user" /\ lapses' = lapses /\ sleeping' = sleeping
      /\ fd' = [fd EXCEPT ![pids] = n]
  BY DEF Load, Calling
<1>2. SafetyInv' /\ TypeOK /\ ListWellFormed
  <2>1. SysLoadProcess
    BY DEF Load, SysLoadProcess
  <2> QED BY <2>1, LoadProcessSafe DEF KernelInv, SafetyInv
<1>3. current \in Pid /\ current < pids /\ state[current] = "READY"
  BY <1>1, UserFacts DEF KernelInv
<1>4. pids \in Pid /\ state[pids] = "NONE" /\ pids # current
  <2>1. pids \in Pid
    BY <1>1, <1>2, SchedulerAssumption DEF enqueueProcess, TypeOK, Pid
  <2>2. ~(pids < pids)
    BY <2>1 DEF Pid
  <2> QED BY <1>3, <2>1, <2>2 DEF KernelInv, SafetyInv, ListWellFormed, Pid
<1>5. \A p \in Pid : ppid'[p] = IF p = pids THEN current ELSE ppid[p]
  BY <1>1, <1>2, <1>4 DEF enqueueProcess, TypeOK
<1>6. \A p \in Pid : p # pids => ppid[p] # pids
  <2> SUFFICES ASSUME NEW p \in Pid PROVE ~(ppid[p] = pids)
    OBVIOUS
  <2>1. ppid[p] < pids /\ pids \in Int
    BY <1>4 DEF KernelInv, FamilyInv, Pid
  <2> QED BY <2>1
<1>7. \A p \in Pid : /\ Live(p)' <=> Live(p) \/ p = pids
                     /\ p # IDLE_PID => (state'[p] \in Resting <=> state[p] \in Resting)
  <2>1. \A p \in Pid \ {pids} : /\ Live(p)' <=> Live(p)
                                /\ p # IDLE_PID => state'[p] = state[p]
    BY <1>1, <1>2, <1>4, IdlePid DEF enqueueProcess, IdleBlocked, Alive, Live, TypeOK, ListWellFormed
  <2>2. state'[pids] = "READY"
    BY <1>1, <1>2, <1>4, IdlePid DEF enqueueProcess, IdleBlocked, TypeOK
  <2> QED BY <1>4, <2>1, <2>2 DEF Live, Resting
<1>8. /\ \A p \in Pid : p # pids /\ p # current => UNCHANGED <<foreground[p], backWait[p]>>
      /\ foreground'[pids] = fg /\ ~backWait'[pids]
      /\ foreground'[current] <=> foreground[current] /\ ~fg
      /\ backWait'[current] <=> backWait[current] \/ (foreground[current] /\ fg)
  BY <1>1, <1>2, <1>3, <1>4 DEF enqueueProcess, TypeOK
<1> QED BY <1>1, <1>2, <1>3, <1>4, <1>5, <1>6, <1>7, <1>8

-----------------------------------------------------------------------------
(* main(), and the birth of the shell.                                     *)

\* A process loaded by another one has no pipe, and the shell is loaded in the
\* foreground.
LEMMA MainLoads == KernelInv /\ ShellInv /\ mainLoad => ShellInv'
<1> SUFFICES ASSUME KernelInv, ShellInv, mainLoad PROVE ShellInv'
  OBVIOUS
<1>1. PICK fg \in BOOLEAN : /\ Load(Unknown, fg, 0)
                            /\ ~fg => mainAt = "bottler"
  BY DEF mainLoad
<1>2. /\ current = INIT_PID /\ mainAt' # "bottler"
      /\ UNCHANGED <<shellAt, line, isForeground, pipes, openPipes, lines, misuses>>
  BY DEF mainLoad, Running
<1>3. /\ lapses' = lapses /\ sleeping' = << >>
      /\ pids \in Pid /\ pids # INIT_PID /\ ~Live(pids)
      /\ fd' = [fd EXCEPT ![pids] = 0]
      /\ \A p \in Pid : ppid'[p] = IF p = pids THEN INIT_PID ELSE ppid[p]
      /\ \A p \in Pid : p # pids => ppid[p] # pids
      /\ \A p \in Pid : Live(p)' <=> Live(p) \/ p = pids
      /\ \A p \in Pid : p # IDLE_PID => (state'[p] \in Resting <=> state[p] \in Resting)
      /\ \A p \in Pid : p # pids /\ p # INIT_PID => UNCHANGED <<foreground[p], backWait[p]>>
      /\ foreground'[pids] = fg
  <2>1. 0 \in Nat /\ ShellTypes /\ sleeping = << >>
    BY DEF ShellInv
  <2>2. /\ lapses' = lapses /\ sleeping' = sleeping
        /\ pids \in Pid /\ pids # current /\ state[pids] = "NONE"
        /\ fd' = [fd EXCEPT ![pids] = 0]
        /\ \A p \in Pid : ppid'[p] = IF p = pids THEN current ELSE ppid[p]
        /\ \A p \in Pid : p # pids => ppid[p] # pids
        /\ \A p \in Pid : Live(p)' <=> Live(p) \/ p = pids
        /\ \A p \in Pid : p # IDLE_PID => (state'[p] \in Resting <=> state[p] \in Resting)
        /\ \A p \in Pid : p # pids /\ p # current => UNCHANGED <<foreground[p], backWait[p]>>
        /\ foreground'[pids] = fg
    BY <1>1, <2>1, LoadFacts, Zenon
  <2> QED BY <1>2, <2>1, <2>2 DEF Live
<1>4. ShellTypes'
  BY <1>2, <1>3 DEF ShellInv, ShellTypes, Piped
<1>5. PipeInv'
  <2>1. \A p \in Pid : fd'[p] # 0 => fd'[p] = fd[p] /\ p # pids /\ ppid'[p] = ppid[p]
    BY <1>3 DEF ShellInv, ShellTypes
  <2>2. PipeInUseIsOpen'
    BY <1>2, <1>3, <2>1 DEF ShellInv, PipeInv, PipeInUseIsOpen
  <2> QED BY <1>2, <2>1, <2>2 DEF ShellInv, PipeInv, Piped
<1>6. TwoParents'
  BY <1>3 DEF ShellInv, TwoParents
<1>7. CASE pids = SHELL
  <2>1. fg
    BY <1>1, <1>7, ShellPid DEF ShellInv
  <2>2. LiveChildren(SHELL)' = {}
    BY <1>3, <1>7, ShellPid DEF LiveChildren
  <2>3. HasTerminal' /\ FrontIsWaitedFor' /\ HasWaited'
    BY <1>3, <1>7, <2>1, <2>2 DEF HasTerminal, FrontIsWaitedFor, InFront, HasWaited
  <2> QED BY <1>2, <1>3, <1>4, <1>5, <1>6, <2>3 DEF ShellInv
<1>8. CASE pids # SHELL
  <2>1. LiveChildren(SHELL)' = LiveChildren(SHELL)
    <3>1. \A p \in Pid : Live(p)' /\ ppid'[p] = SHELL <=> Live(p) /\ ppid[p] = SHELL
      BY <1>3, ShellPid
    <3> QED BY <3>1 DEF LiveChildren
  <2>2. ppid[INIT_PID] # SHELL
    BY ShellPid DEF KernelInv, TerminalInv, INIT_PID
  <2>3. InFront' = InFront
    <3>1. \A c \in LiveChildren(SHELL) : foreground'[c] = foreground[c]
      BY <1>3, <2>2 DEF LiveChildren
    <3> QED BY <2>1, <3>1 DEF InFront
  <2>4. /\ Live(SHELL)' => Live(SHELL)
        /\ UNCHANGED <<foreground[SHELL], backWait[SHELL]>>
        /\ state'[SHELL] \in Resting <=> state[SHELL] \in Resting
    BY <1>3, <1>8, ShellPid DEF Resting
  <2>5. WaitsForAll' /\ Live(SHELL)' => HasTerminal' /\ FrontIsWaitedFor' /\ HasWaited'
    BY <1>2, <1>3, <2>1, <2>3, <2>4
    DEF ShellInv, WaitsForAll, HasTerminal, LentToChild, FrontIsWaitedFor, HasWaited
  <2> QED BY <1>2, <1>3, <1>4, <1>5, <1>6, <2>5 DEF ShellInv
<1> QED BY <1>7, <1>8

LEMMA MainRests == KernelInv /\ ShellInv /\ mainRest => ShellInv'
<1> SUFFICES ASSUME KernelInv, ShellInv, mainRest PROVE ShellInv'
  OBVIOUS
<1>1. /\ current = INIT_PID /\ mainAt' # "bottler" /\ (Wait \/ exitProcess)
      /\ UNCHANGED <<shellAt, line, isForeground, runs, fd, pipes, openPipes, lines, misuses>>
  BY DEF mainRest, Running
<1>2. ShellTypes'
  BY <1>1 DEF ShellInv, ShellTypes, Piped
<1>3. Calm /\ WaitsOn /\ sleeping' = << >> /\ ppid' = ppid
  <2>1. CASE exitProcess
    BY <2>1, KillIsCalm DEF exitProcess, ShellInv
  <2>2. CASE UNCHANGED vars
    BY <2>2, CalmKept DEF vars, procVars, Live, ShellInv, KernelInv, SafetyInv
  <2>3. CASE wait
    <3>1. state' = [state EXCEPT ![INIT_PID] = "WAITING"] /\ state[INIT_PID] = "READY"
          /\ UNCHANGED <<ppid, foreground, backWait, sleeping>> /\ lapses \subseteq lapses'
      BY <1>1, <2>3, UserFacts DEF wait, Calling, KernelInv
    <3> QED BY <3>1, CalmKept, ShellPid DEF Live, ShellInv, KernelInv, SafetyInv, TypeOK
  <2> QED BY <1>1, <2>1, <2>2, <2>3 DEF Wait
<1> QED BY <1>1, <1>2, <1>3, ShellKept DEF ShellInv

-----------------------------------------------------------------------------
(* The steps of processInput().                                            *)

\* The shell runs, so that it does not wait; unless the shell is past the loading
\* of a command it then has the foreground.
LEMMA ShellRuns ==
  ASSUME KernelInv, ShellInv, Running(SHELL)
  PROVE  /\ current = SHELL /\ mode = "user" /\ state[SHELL] = "READY" /\ Live(SHELL)
         /\ SHELL < pids /\ mainAt # "bottler" /\ SHELL \in Pid
         /\ WaitsForAll =>
              /\ shellAt \notin {"loadSecond", "wait", "exit", "gone"} =>
                   foreground[SHELL] /\ InFront = {}
              /\ shellAt = "close" /\ isForeground[line.comm0] => LiveChildren(SHELL) = {}
<1>1. /\ current = SHELL /\ mode = "user" /\ state[SHELL] = "READY" /\ Live(SHELL)
      /\ SHELL < pids /\ SHELL \in Pid
  BY UserFacts, ShellPid DEF Running, KernelInv, Live
<1>2. mainAt # "bottler"
  BY <1>1, ShellPid DEF ShellInv
<1>3. ASSUME WaitsForAll
      PROVE  /\ shellAt \notin {"loadSecond", "wait", "exit", "gone"} =>
                   foreground[SHELL] /\ InFront = {}
             /\ shellAt = "close" /\ isForeground[line.comm0] => LiveChildren(SHELL) = {}
  <2>1. HasTerminal /\ FrontIsWaitedFor /\ HasWaited /\ state[SHELL] \notin Resting
    BY <1>1, <1>3 DEF ShellInv, Resting
  <2>2. shellAt = "close" /\ isForeground[line.comm0] => LiveChildren(SHELL) = {} /\ InFront = {}
    BY <2>1 DEF HasWaited, InFront
  <2> QED BY <2>1, <2>2 DEF HasTerminal, LentToChild, FrontIsWaitedFor
<1> QED BY <1>1, <1>2, <1>3

LEMMA AwaitKeyKeeps == KernelInv /\ ShellInv /\ awaitKey => ShellInv'
<1> SUFFICES ASSUME KernelInv, ShellInv, awaitKey PROVE ShellInv'
  OBVIOUS
<1>1. Running(SHELL) /\ blockIO /\ UNCHANGED shellVars
  BY DEF awaitKey, AtPrompt
<1>2. TypeOK /\ state[SHELL] = "READY" /\ current = SHELL
  BY <1>1, ShellRuns DEF KernelInv, SafetyInv
<1>3. /\ state' = [state EXCEPT ![SHELL] = "BLOCKEDIO"]
      /\ UNCHANGED <<ppid, foreground, backWait, pids, sleeping, lapses>>
  BY <1>1, <1>2 DEF blockIO
<1>4. Calm /\ WaitsOn
  BY <1>2, <1>3, CalmKept DEF Live, Resting, TypeOK
<1>5. ShellTypes'
  BY <1>1 DEF shellVars, ShellInv, ShellTypes, Piped
<1>6. sleeping' = << >> /\ (mainAt' = "bottler" => pids' = 3)
      /\ UNCHANGED <<shellAt, line, isForeground, pipes, openPipes, misuses>>
      /\ \A p \in Pid : fd'[p] = 0 \/ (fd'[p] = fd[p] /\ ppid'[p] = ppid[p])
  BY <1>1, <1>3 DEF shellVars, ShellInv
<1> QED BY <1>4, <1>5, <1>6, ShellKept

\* A line that is not an error leads to a place where the command is known.
LEMMA ScanfKeeps == KernelInv /\ ShellInv /\ scanfNoPrint => ShellInv'
<1> SUFFICES ASSUME KernelInv, ShellInv, scanfNoPrint PROVE ShellInv'
  OBVIOUS
<1>1. /\ Running(SHELL) /\ UNCHANGED <<vars, mainAt, isForeground, fd, pipes, openPipes, misuses>>
      /\ foreground[SHELL]
      /\ \/ shellAt' = "exit" /\ line' = line
         \/ \E l \in Line : /\ shellAt' = After(l)
                            /\ line' = IF After(l) = "prompt" THEN NoLine ELSE l
  BY DEF scanfNoPrint, AtPrompt
<1>2. UNCHANGED <<state, ppid, foreground, backWait, pids, sleeping, lapses>>
  BY <1>1 DEF vars, procVars
<1>3. ShellTypes' /\ shellAt' \notin {"loadSecond", "wait", "close"}
      /\ (shellAt' = "load" => ~Piped')
  <2>1. CASE shellAt' = "exit" /\ line' = line
    BY <1>1, <2>1 DEF ShellInv, ShellTypes, Piped
  <2>2. CASE \E l \in Line : /\ shellAt' = After(l)
                             /\ line' = IF After(l) = "prompt" THEN NoLine ELSE l
    <3>1. PICK l \in Line : /\ shellAt' = After(l)
                            /\ line' = IF After(l) = "prompt" THEN NoLine ELSE l
      BY <2>2
    <3>2. CASE After(l) = "prompt"
      BY <1>1, <3>1, <3>2 DEF ShellInv, ShellTypes, Piped, NoLine, Line
    <3>3. CASE After(l) # "prompt"
      <4>1. line' = l /\ shellAt' = After(l)
        BY <3>1, <3>3
      <4>2. /\ After(l) \in {"openPipe", "builtIn", "load"}
            /\ After(l) = "openPipe" => ~l.amp
            /\ After(l) \in {"builtIn", "load"} => l.comm1 = NoPipe /\ l.comm0 \in Cmds
        BY <3>3, ShellAssumption DEF After, Line
      <4> QED BY <1>1, <4>1, <4>2 DEF ShellInv, ShellTypes, Piped
    <3> QED BY <3>2, <3>3
  <2> QED BY <1>1, <2>1, <2>2
<1>4. PipeInv'
  BY <1>1, <1>2, <1>3 DEF ShellInv, PipeInv, PipeInUseIsOpen, Live
<1>5. mainAt' = "bottler" => pids' = 3
  BY <1>1, <1>2 DEF ShellInv
<1>6. shellAt = "prompt"
  BY DEF scanfNoPrint, AtPrompt
<1>7. WaitsForAll => InFront' = {} /\ foreground'[SHELL]
  <2>1. InFront' = InFront
    BY <1>2 DEF InFront, LiveChildren, Live
  <2> QED BY <1>1, <1>2, <1>6, <2>1, ShellRuns
<1>8. TwoParents'
  BY <1>2 DEF ShellInv, TwoParents, Live
<1>9. WaitsForAll' => HasTerminal' /\ FrontIsWaitedFor' /\ HasWaited'
  BY <1>1, <1>2, <1>3, <1>7 DEF WaitsForAll, HasTerminal, FrontIsWaitedFor, HasWaited
<1> QED BY <1>2, <1>3, <1>4, <1>5, <1>8, <1>9 DEF ShellInv

LEMMA OpenPipeKeeps == KernelInv /\ ShellInv /\ openPipe => ShellInv'
<1> SUFFICES ASSUME KernelInv, ShellInv, openPipe PROVE ShellInv'
  OBVIOUS
<1>1. /\ Running(SHELL) /\ shellAt = "openPipe" /\ UNCHANGED <<vars, mainAt, isForeground, fd, misuses>>
      /\ pipes' = pipes + 1 /\ openPipes' = openPipes \union {pipes'}
      /\ \/ shellAt' = "load" /\ line' = line /\ line.comm0 # Unknown
         \/ shellAt' = "prompt" /\ line' = NoLine
  BY DEF openPipe
<1>2. UNCHANGED <<state, ppid, foreground, backWait, pids, sleeping, lapses>>
  BY <1>1 DEF vars, procVars
<1>3. WaitsForAll' => foreground'[SHELL] /\ InFront' = {}
  <2>1. InFront' = InFront
    BY <1>2 DEF InFront, LiveChildren, Live
  <2> QED BY <1>1, <1>2, <2>1, ShellRuns DEF WaitsForAll
<1>4. ShellTypes'
  <2>1. /\ ShellTypes /\ UNCHANGED <<isForeground, fd>>
        /\ pipes' \in Nat
    BY <1>1 DEF ShellInv, ShellTypes
  <2>2. CASE shellAt' = "load" /\ line' = line /\ line.comm0 # Unknown
    BY <1>1, <2>1, <2>2 DEF ShellTypes, Piped, Line
  <2>3. CASE shellAt' = "prompt" /\ line' = NoLine
    BY <2>1, <2>3 DEF ShellTypes, Piped, NoLine, Line
  <2> QED BY <1>1, <2>2, <2>3
<1>5. PipeInv'
  BY <1>1, <1>2 DEF ShellInv, PipeInv, PipeInUseIsOpen, Live
<1>6. WaitsForAll' => HasTerminal' /\ FrontIsWaitedFor' /\ HasWaited'
  BY <1>1, <1>3 DEF HasTerminal, FrontIsWaitedFor, HasWaited
<1>7. TwoParents'
  BY <1>2 DEF ShellInv, TwoParents, Live
<1> QED BY <1>1, <1>2, <1>4, <1>5, <1>6, <1>7 DEF ShellInv

\* Loading a command, seen from the shell that does it.
LEMMA ShellLoads ==
  ASSUME KernelInv, ShellInv, Running(SHELL),
         NEW c, NEW fg \in BOOLEAN, NEW n \in Nat, Load(c, fg, n)
  PROVE  /\ lapses' = lapses /\ sleeping' = << >>
         /\ pids \in Pid /\ pids # SHELL
         /\ fd' = [fd EXCEPT ![pids] = n]
         /\ \A p \in Pid : ppid'[p] = IF p = pids THEN SHELL ELSE ppid[p]
         /\ \A p \in Pid : Live(p)' <=> Live(p) \/ p = pids
         /\ TwoParents'
         /\ InFront' = InFront \union {x \in {pids} : fg}
         /\ foreground[SHELL] \/ LentToChild => foreground'[SHELL] \/ LentToChild'
<1>1. /\ current = SHELL /\ SHELL \in Pid /\ ShellTypes /\ sleeping = << >>
  BY ShellRuns DEF ShellInv
<1>2. /\ lapses' = lapses /\ sleeping' = sleeping
      /\ pids \in Pid /\ pids # current /\ state[pids] = "NONE"
      /\ fd' = [fd EXCEPT ![pids] = n]
      /\ \A p \in Pid : ppid'[p] = IF p = pids THEN current ELSE ppid[p]
      /\ \A p \in Pid : Live(p)' <=> Live(p) \/ p = pids
      /\ \A p \in Pid : p # pids /\ p # current => UNCHANGED <<foreground[p], backWait[p]>>
      /\ foreground'[pids] = fg
      /\ foreground'[current] <=> foreground[current] /\ ~fg
      /\ backWait'[current] <=> backWait[current] \/ (foreground[current] /\ fg)
  BY <1>1, LoadFacts, Zenon
<1>3. \A p \in Pid : ppid'[p] = IF p = pids THEN SHELL ELSE ppid[p]
  BY <1>1, <1>2
<1>4. TwoParents'
  BY <1>2, <1>3 DEF ShellInv, TwoParents
<1>5. InFront' = InFront \union {x \in {pids} : fg}
  <2>1. LiveChildren(SHELL)' = LiveChildren(SHELL) \union {pids} /\ pids \notin LiveChildren(SHELL)
    BY <1>2, <1>3 DEF LiveChildren, Live
  <2>2. SHELL \notin LiveChildren(SHELL)
    BY ShellPid DEF LiveChildren, KernelInv, TerminalInv
  <2>3. \A c1 \in LiveChildren(SHELL) : foreground'[c1] = foreground[c1]
    BY <1>1, <1>2, <2>1, <2>2 DEF LiveChildren
  <2> QED BY <1>2, <2>1, <2>3 DEF InFront
<1>6. foreground[SHELL] \/ LentToChild => foreground'[SHELL] \/ LentToChild'
  BY <1>1, <1>2, <1>5 DEF LentToChild
<1> QED BY <1>1, <1>2, <1>3, <1>4, <1>5, <1>6

LEMMA LoadKeeps == KernelInv /\ ShellInv /\ load => ShellInv'
<1> SUFFICES ASSUME KernelInv, ShellInv, load PROVE ShellInv'
  OBVIOUS
<1>1. /\ Running(SHELL) /\ shellAt = "load"
      /\ Load(line.comm0, isForeground'[line.comm0], IF Piped THEN pipes ELSE 0)
      /\ UNCHANGED <<mainAt, line, pipes, openPipes>>
      /\ isForeground' = IF line.amp THEN [isForeground EXCEPT ![line.comm0] = FALSE] ELSE isForeground
      /\ shellAt' = IF Piped THEN "loadSecond" ELSE "wait"
      /\ misuses \subseteq misuses' /\ (Piped /\ ~isForeground[line.comm0] => "detached" \in misuses')
  BY DEF load
<1>2. PICK fg \in BOOLEAN, n \in Nat :
        /\ Load(line.comm0, fg, n)
        /\ fg = isForeground'[line.comm0]
        /\ n = IF Piped THEN pipes ELSE 0
  BY <1>1 DEF ShellInv, ShellTypes
<1>3. /\ mainAt # "bottler" /\ (WaitsForAll => foreground[SHELL] /\ InFront = {})
      /\ ShellTypes /\ line.comm0 \in Cmds
  BY <1>1, ShellRuns DEF ShellInv, ShellTypes
<1>4. /\ lapses' = lapses /\ sleeping' = << >>
      /\ pids \in Pid /\ pids # SHELL
      /\ fd' = [fd EXCEPT ![pids] = n]
      /\ \A p \in Pid : ppid'[p] = IF p = pids THEN SHELL ELSE ppid[p]
      /\ \A p \in Pid : Live(p)' <=> Live(p) \/ p = pids
      /\ TwoParents'
      /\ InFront' = InFront \union {x \in {pids} : fg}
      /\ foreground[SHELL] \/ LentToChild => foreground'[SHELL] \/ LentToChild'
  <2>1. Load(line.comm0, fg, n) /\ Running(SHELL)
    BY <1>1, <1>2
  <2>2. /\ lapses' = lapses /\ sleeping' = << >>
        /\ pids \in Pid /\ pids # SHELL
        /\ \A p \in Pid : ppid'[p] = IF p = pids THEN SHELL ELSE ppid[p]
        /\ \A p \in Pid : Live(p)' <=> Live(p) \/ p = pids
        /\ TwoParents'
        /\ InFront' = InFront \union {x \in {pids} : fg}
        /\ foreground[SHELL] \/ LentToChild => foreground'[SHELL] \/ LentToChild'
    BY <2>1, ShellLoads, Zenon
  <2>3. fd' = [fd EXCEPT ![pids] = n]
    BY <2>1 DEF Load
  <2> QED BY <2>2, <2>3, Zenon
<1>5. ShellTypes'
  <2>1. isForeground' \in [Cmds -> BOOLEAN] /\ fd' \in [Pid -> Nat]
    BY <1>1, <1>3, <1>4 DEF ShellTypes
  <2> QED BY <1>1, <1>3, <2>1 DEF ShellTypes, Piped
<1>6. PipeInv'
  <2>1. Piped => pipes \in openPipes
    BY <1>1 DEF ShellInv, PipeInv
  <2>2. \A p \in Pid : fd'[p] = IF p = pids THEN n ELSE fd[p]
    BY <1>3, <1>4 DEF ShellTypes
  <2>3. PipeInUseIsOpen'
    BY <1>1, <1>2, <1>4, <2>1, <2>2 DEF ShellInv, PipeInv, PipeInUseIsOpen
  <2>4. \A p \in Pid : fd'[p] # 0 => ppid'[p] = SHELL
    BY <1>4, <2>2 DEF ShellInv, PipeInv
  <2>5. Piped /\ "detached" \notin misuses' => isForeground'[line.comm0]
    BY <1>1 DEF ShellInv, ShellTypes
  <2> QED BY <1>1, <2>1, <2>3, <2>4, <2>5 DEF PipeInv, Piped
<1>7. WaitsForAll' => HasTerminal' /\ FrontIsWaitedFor' /\ HasWaited'
  <2> SUFFICES ASSUME WaitsForAll' PROVE HasTerminal' /\ FrontIsWaitedFor' /\ HasWaited'
    OBVIOUS
  <2>1. foreground[SHELL] /\ InFront = {}
    BY <1>1, <1>3, <1>4 DEF WaitsForAll
  <2>2. HasTerminal' /\ HasWaited'
    BY <1>1, <1>4, <2>1 DEF HasTerminal, HasWaited
  <2>3. FrontIsWaitedFor'
    BY <1>1, <1>2, <1>4, <2>1 DEF FrontIsWaitedFor
  <2> QED BY <2>2, <2>3
<1> QED BY <1>1, <1>3, <1>4, <1>5, <1>6, <1>7 DEF ShellInv

LEMMA LoadSecondKeeps == KernelInv /\ ShellInv /\ loadSecond => ShellInv'
<1> SUFFICES ASSUME KernelInv, ShellInv, loadSecond PROVE ShellInv'
  OBVIOUS
<1>1. /\ Running(SHELL) /\ shellAt = "loadSecond" /\ Load(line.comm1, FALSE, pipes)
      /\ UNCHANGED <<mainAt, line, isForeground, pipes, openPipes, misuses>>
      /\ shellAt' = "wait"
  BY DEF loadSecond
<1>2. ShellTypes /\ pipes \in Nat /\ FALSE \in BOOLEAN
  BY DEF ShellInv, ShellTypes
<1>3. mainAt # "bottler" /\ Live(SHELL)
  BY <1>1, ShellRuns
<1>4. /\ lapses' = lapses /\ sleeping' = << >>
      /\ pids \in Pid /\ pids # SHELL
      /\ fd' = [fd EXCEPT ![pids] = pipes]
      /\ \A p \in Pid : ppid'[p] = IF p = pids THEN SHELL ELSE ppid[p]
      /\ \A p \in Pid : Live(p)' <=> Live(p) \/ p = pids
      /\ TwoParents'
      /\ InFront' = InFront \union {x \in {pids} : FALSE}
      /\ foreground[SHELL] \/ LentToChild => foreground'[SHELL] \/ LentToChild'
  BY <1>1, <1>2, ShellLoads, Zenon
<1>5. ShellTypes'
  BY <1>1, <1>2, <1>4 DEF ShellTypes, Piped
<1>6. PipeInv'
  <2>1. Piped => pipes \in openPipes
    BY <1>1 DEF ShellInv, PipeInv
  <2>2. \A p \in Pid : fd'[p] = IF p = pids THEN pipes ELSE fd[p]
    BY <1>2, <1>4 DEF ShellTypes
  <2>3. PipeInUseIsOpen'
    BY <1>1, <1>2, <1>4, <2>1, <2>2 DEF ShellTypes, ShellInv, PipeInv, PipeInUseIsOpen
  <2>4. \A p \in Pid : fd'[p] # 0 => ppid'[p] = SHELL
    BY <1>4, <2>2 DEF ShellInv, PipeInv
  <2> QED BY <1>1, <2>3, <2>4 DEF ShellInv, PipeInv, Piped
<1>7. WaitsForAll' => HasTerminal' /\ FrontIsWaitedFor' /\ HasWaited'
  <2> SUFFICES ASSUME WaitsForAll' PROVE HasTerminal' /\ FrontIsWaitedFor' /\ HasWaited'
    OBVIOUS
  <2>1. HasTerminal /\ FrontIsWaitedFor
    BY <1>1, <1>3, <1>4 DEF ShellInv, WaitsForAll
  <2>2. InFront' = InFront
    BY <1>4
  <2> QED BY <1>1, <1>4, <2>1, <2>2 DEF HasTerminal, FrontIsWaitedFor, HasWaited
<1> QED BY <1>1, <1>3, <1>4, <1>5, <1>6, <1>7 DEF ShellInv

\* The built-ins of a line without a pipe: kill and block are calm, and unblock
\* ends the shell.
LEMMA BuiltInKeeps == KernelInv /\ ShellInv /\ builtIn => ShellInv'
<1> SUFFICES ASSUME KernelInv, ShellInv, builtIn PROVE ShellInv'
  OBVIOUS
<1>1. /\ Running(SHELL) /\ shellAt = "builtIn"
      /\ UNCHANGED <<mainAt, line, isForeground, fd, pipes, openPipes, misuses>>
      /\ \/ (SysKill \/ SysBlock \/ UNCHANGED vars) /\ shellAt' = "wait"
         \/ (SysUnblock \/ UNCHANGED vars) /\ shellAt' = "exit"
  BY DEF builtIn
<1>2. mainAt # "bottler" /\ (WaitsForAll => foreground[SHELL] /\ InFront = {})
  BY <1>1, ShellRuns
<1>3. ShellTypes' /\ ~Piped'
  BY <1>1 DEF ShellInv, ShellTypes, Piped
<1>4. Calm /\ UNCHANGED <<ppid, sleeping>>
  <2>1. CASE SysKill
    BY <2>1, KillIsCalm DEF SysKill, ShellInv
  <2>2. CASE SysBlock
    BY <2>2, BlockIsCalm DEF SysBlock, ShellInv
  <2>3. CASE SysUnblock
    BY <2>3, UnblockIsCalm DEF SysUnblock, ShellInv
  <2>4. CASE UNCHANGED vars
    BY <2>4, CalmKept DEF vars, procVars, Live, KernelInv, SafetyInv
  <2> QED BY <1>1, <2>1, <2>2, <2>3, <2>4
<1>5. PipeInv'
  BY <1>1, <1>3, <1>4 DEF ShellInv, PipeInv, PipeInUseIsOpen, Calm
<1>6. TwoParents'
  BY <1>4 DEF ShellInv, TwoParents, Calm
<1>7. WaitsForAll' /\ Live(SHELL)' => HasTerminal' /\ FrontIsWaitedFor' /\ HasWaited'
  <2> SUFFICES ASSUME WaitsForAll', Live(SHELL)' PROVE HasTerminal' /\ FrontIsWaitedFor' /\ HasWaited'
    OBVIOUS
  <2>1. foreground[SHELL] /\ InFront = {}
    BY <1>1, <1>2, <1>4 DEF WaitsForAll, Calm
  <2>2. InFront' = {} /\ foreground'[SHELL]
    BY <1>4, <2>1 DEF Calm, WaitsForAll, LentToChild
  <2> QED BY <1>1, <2>2 DEF HasTerminal, FrontIsWaitedFor, HasWaited
<1> QED BY <1>1, <1>2, <1>3, <1>4, <1>5, <1>6, <1>7 DEF ShellInv

\* wait() returns at once only if the shell has no child, and so the foreground.
LEMMA WaitCommandsKeeps == KernelInv /\ ShellInv /\ waitCommands => ShellInv'
<1> SUFFICES ASSUME KernelInv, ShellInv, waitCommands PROVE ShellInv'
  OBVIOUS
<1>1. /\ Running(SHELL) /\ shellAt = "wait" /\ shellAt' = "close"
      /\ UNCHANGED <<mainAt, line, isForeground, fd, pipes, openPipes, misuses>>
      /\ IF isForeground[line.comm0] THEN Wait ELSE UNCHANGED vars
  BY DEF waitCommands
<1>2. /\ mainAt # "bottler" /\ current = SHELL /\ state[SHELL] = "READY" /\ SHELL \in Pid /\ Live(SHELL)
  BY <1>1, ShellRuns
<1>3. ShellTypes'
  BY <1>1 DEF ShellInv, ShellTypes, Piped
<1>4. /\ UNCHANGED <<ppid, foreground, backWait, sleeping>> /\ lapses \subseteq lapses'
      /\ \A p \in Pid : Live(p)' <=> Live(p)
      /\ \/ isForeground[line.comm0] /\ state'[SHELL] = "WAITING"
         \/ isForeground[line.comm0] /\ children[SHELL] = 0 /\ state' = state
         \/ ~isForeground[line.comm0] /\ state' = state
  <2>1. CASE UNCHANGED vars /\ (isForeground[line.comm0] => children[SHELL] = 0)
    BY <2>1 DEF vars, procVars, Live
  <2>2. CASE wait /\ isForeground[line.comm0]
    BY <1>2, <2>2 DEF wait, Live, KernelInv, SafetyInv, TypeOK
  <2> QED BY <1>1, <1>2, <2>1, <2>2 DEF Wait
<1>5. PipeInv'
  BY <1>1, <1>4 DEF ShellInv, PipeInv, PipeInUseIsOpen, Piped
<1>6. TwoParents'
  BY <1>4 DEF ShellInv, TwoParents
<1>7. ASSUME WaitsForAll' PROVE HasTerminal' /\ FrontIsWaitedFor' /\ HasWaited'
  <2>1. HasTerminal /\ FrontIsWaitedFor /\ "killDead" \notin lapses
    BY <1>1, <1>2, <1>4, <1>7 DEF ShellInv, WaitsForAll
  <2>2. LiveChildren(SHELL)' = LiveChildren(SHELL) /\ InFront' = InFront
    BY <1>4 DEF InFront, LiveChildren
  <2>3. children[SHELL] = 0 => LiveChildren(SHELL) = {}
    <3>1. children[SHELL] = Cardinality(LiveChildren(SHELL))
      BY <1>2, <2>1 DEF KernelInv, FamilyInv
    <3> QED BY <3>1, LiveChildrenFinite, FS_EmptySet
  <2>4. HasTerminal' /\ FrontIsWaitedFor'
    BY <1>1, <1>4, <2>1, <2>2 DEF HasTerminal, LentToChild, FrontIsWaitedFor
  <2>5. HasWaited'
    BY <1>1, <1>4, <2>2, <2>3 DEF HasWaited, Resting
  <2> QED BY <2>4, <2>5
<1> QED BY <1>1, <1>2, <1>3, <1>4, <1>5, <1>6, <1>7 DEF ShellInv

\* Whatever is closed, the last child that had a pipe is dead.
LEMMA ClosePipeKeeps == KernelInv /\ ShellInv /\ closePipe => ShellInv'
<1> SUFFICES ASSUME KernelInv, ShellInv, closePipe PROVE ShellInv'
  OBVIOUS
<1>1. /\ Running(SHELL) /\ shellAt = "close" /\ shellAt' = "prompt" /\ line' = NoLine
      /\ ~Piped => openPipes' = openPipes
      /\ UNCHANGED <<vars, mainAt, isForeground, fd, pipes, misuses>>
  BY DEF closePipe
<1>2. UNCHANGED <<state, ppid, foreground, backWait, pids, sleeping, lapses>>
  BY <1>1 DEF vars, procVars
<1>3. /\ mainAt # "bottler"
      /\ WaitsForAll =>
           /\ foreground[SHELL] /\ InFront = {}
           /\ isForeground[line.comm0] => LiveChildren(SHELL) = {}
  BY <1>1, ShellRuns
<1>4. ShellTypes'
  BY <1>1 DEF ShellInv, ShellTypes, Piped, NoLine, Line
<1>5. PipeInUseIsOpen'
  <2>1. CASE Piped
    <3>1. misuses \intersect {"detached", "wokenShell"} = {} /\ "killDead" \notin lapses =>
            LiveChildren(SHELL) = {}
      BY <1>1, <1>3, <2>1 DEF ShellInv, PipeInv, WaitsForAll
    <3>2. LiveChildren(SHELL) = {} => \A p \in Pid : Live(p) => fd[p] = 0
      BY DEF ShellInv, PipeInv, LiveChildren
    <3> QED BY <1>1, <1>2, <3>1, <3>2 DEF PipeInUseIsOpen, Live
  <2>2. CASE ~Piped
    BY <1>1, <1>2, <2>2 DEF ShellInv, PipeInv, PipeInUseIsOpen, Live
  <2> QED BY <2>1, <2>2
<1>6. PipeInv'
  BY <1>1, <1>2, <1>5 DEF ShellInv, PipeInv
<1>7. WaitsForAll' => HasTerminal' /\ FrontIsWaitedFor' /\ HasWaited'
  <2>1. InFront' = InFront
    BY <1>2 DEF InFront, LiveChildren, Live
  <2> QED BY <1>1, <1>2, <1>3, <2>1 DEF WaitsForAll, HasTerminal, FrontIsWaitedFor, HasWaited
<1>8. TwoParents'
  BY <1>2 DEF ShellInv, TwoParents, Live
<1> QED BY <1>1, <1>2, <1>3, <1>4, <1>6, <1>7, <1>8 DEF ShellInv

LEMMA ExitShellKeeps == KernelInv /\ ShellInv /\ exitShell => ShellInv'
<1> SUFFICES ASSUME KernelInv, ShellInv, exitShell PROVE ShellInv'
  OBVIOUS
<1>1. /\ Running(SHELL) /\ shellAt' = "gone" /\ exitProcess
      /\ UNCHANGED <<mainAt, line, isForeground, fd, pipes, openPipes, misuses>>
  BY DEF exitShell
<1>2. Calm /\ UNCHANGED <<ppid, sleeping>> /\ mainAt # "bottler"
  BY <1>1, KillIsCalm, ShellRuns DEF exitProcess, ShellInv
<1>3. ShellTypes'
  BY <1>1 DEF ShellInv, ShellTypes, Piped
<1>4. PipeInv'
  BY <1>1, <1>2 DEF ShellInv, PipeInv, PipeInUseIsOpen, Calm
<1>5. HasTerminal' /\ FrontIsWaitedFor' /\ HasWaited'
  BY <1>1 DEF HasTerminal, FrontIsWaitedFor, HasWaited
<1>6. TwoParents'
  BY <1>2 DEF ShellInv, TwoParents, Calm
<1> QED BY <1>1, <1>2, <1>3, <1>4, <1>5, <1>6 DEF ShellInv

-----------------------------------------------------------------------------
(* The theorems.                                                           *)

LEMMA ShellInitInv == ShellInit => KernelInv /\ ShellInv
<1> SUFFICES ASSUME ShellInit PROVE KernelInv /\ ShellInv
  OBVIOUS
<1>1. KernelInv
  BY SafetyInit, FamilyInit, TerminalInit DEF KernelInv, ShellInit
<1>2. state[SHELL] = "NONE" /\ pids = 3 /\ sleeping = << >>
  BY ShellPid DEF ShellInit, Init
<1>3. ShellTypes
  BY DEF ShellInit, ShellTypes, NoLine, Line, Piped
<1>4. PipeInv
  BY DEF ShellInit, PipeInv, PipeInUseIsOpen
<1>5. TwoParents
  BY SchedulerAssumption DEF ShellInit, Init, TwoParents, NULL, Pid
<1> QED BY <1>1, <1>2, <1>3, <1>4, <1>5 DEF ShellInv, Live

LEMMA ShellNextInv ==
  KernelInv /\ ShellInv /\ [ShellNext]_shVars => (KernelInv /\ ShellInv)'
<1> SUFFICES ASSUME KernelInv, ShellInv, [ShellNext]_shVars PROVE KernelInv' /\ ShellInv'
  OBVIOUS
<1>1. KernelInv'
  BY ShellSteps, SafetyNext, FamilyNext, TerminalNext DEF KernelInv, ShellInv
<1>2. CASE ShellNext
  BY <1>1, <1>2, MainLoads, MainRests, CommandKeeps, InterruptKeeps, AwaitKeyKeeps, ScanfKeeps,
     OpenPipeKeeps, LoadKeeps, LoadSecondKeeps, BuiltInKeeps, WaitCommandsKeeps,
     ClosePipeKeeps, ExitShellKeeps
  DEF ShellNext, shell
<1>3. CASE UNCHANGED shVars
  <2>1. ShellTypes' /\ PipeInv'
    BY <1>3 DEF ShellInv, ShellTypes, PipeInv, PipeInUseIsOpen, Piped, Live, shVars, shellVars, vars, procVars
  <2>2. TwoParents' /\ HasTerminal' = HasTerminal /\ FrontIsWaitedFor' = FrontIsWaitedFor /\ HasWaited' = HasWaited
    BY <1>3 DEF ShellInv, TwoParents, HasTerminal, FrontIsWaitedFor, HasWaited, InFront, LentToChild, LiveChildren, Live, shVars, shellVars, vars, procVars
  <2> QED BY <1>1, <1>3, <2>1, <2>2 DEF ShellInv, WaitsForAll, Live, shVars, shellVars, vars, procVars
<1> QED BY <1>1, <1>2, <1>3

LEMMA ShellAlways == ShellSpec => [](KernelInv /\ ShellInv)
<1>1. ShellInit => KernelInv /\ ShellInv
  BY ShellInitInv
<1>2. KernelInv /\ ShellInv /\ [ShellNext]_shVars => (KernelInv /\ ShellInv)'
  BY ShellNextInv
<1> QED BY <1>1, <1>2, PTL DEF ShellSpec

\* A command never finds the pipe it was given closed under it, whatever fd1 holds by
\* then, unless a command of the line had once been run with &, a command unblocked
\* the waiting shell or a dead process was killed again: a pipe closes after the
\* shell's wait(), and that ends with the last child.
THEOREM PipesStayOpen == ShellSpec => []PipeInUseIsOpen
<1>1. KernelInv /\ ShellInv => PipeInUseIsOpen
  BY DEF ShellInv, PipeInv
<1> QED BY <1>1, ShellAlways, PTL

\* Whenever the shell is at its prompt it has the terminal, however the commands it
\* lent it to have ended and whoever was blocked and unblocked meanwhile, unless a
\* command unblocked the waiting shell or a dead process was killed again.
THEOREM ShellHasTerminal == ShellSpec => []PromptHasTerminal
<1>1. KernelInv /\ ShellInv => PromptHasTerminal
  BY ShellRuns DEF PromptHasTerminal, AtPrompt, WaitsForAll
<1> QED BY <1>1, ShellAlways, PTL
=============================================================================
