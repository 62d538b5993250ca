-------------------------------- MODULE Shell --------------------------------
(***************************************************************************)
(* The first user processes and the shell: main() of sampleCodeModule.c    *)
(* and shell/shell.c, on top of the scheduler.                             *)
(*                                                                         *)
(* main() shows the logo in a child, loads the shell in the foreground and *)
(* exits.  The shell turns a line into one process, or two joined by a     *)
(* pipe, or a call of a built-in.  All of it is user code: timer ticks and *)
(* the commands it started interleave with it at every system call.  A     *)
(* line is abstracted to what processInput() makes of its tokens.          *)
(***************************************************************************)
EXTENDS Scheduler

CONSTANTS
  Cmds,         \* the names in commands[]
  BuiltIns,     \* those with isBuiltIn
  Help,         \* commands[0]
  Unknown,      \* a name that is not in commands[]
  NoPipe,       \* what is behind a "|" that is not in the line
  MaxLines      \* bound: the lines typed

ASSUME ShellAssumption ==
  /\ BuiltIns \subseteq Cmds /\ Help \in Cmds \ BuiltIns
  /\ Unknown \notin Cmds /\ NoPipe \notin Cmds /\ Unknown # NoPipe
  /\ MaxLines \in Nat /\ MaxPid >= 4

BOTTLER == INIT_PID + 1
SHELL == INIT_PID + 2
Line == [comm0 : Cmds \union {Unknown}, comm1 : Cmds \union {Unknown, NoPipe}, amp : BOOLEAN]

VARIABLES
  mainAt,       \* where main() is
  shellAt,      \* where processInput() is
  line,         \* its locals comm0, comm1, pipe and ampersand
  isForeground, \* the field of commands[], written by a line that ends in &
  runs,         \* the command each process was loaded for, until it has made its call
  fd,           \* the pipe behind fd[0] or fd[1] of each process, 0 for none
  fd1,          \* the process that fd1, one of its locals, was given to
  pipes,        \* the pipes opened so far: 1..pipes
  openPipes,    \* those not closed
  lines,        \* the lines read so far
  misuses         \* history: lines that void one of the guarantees

shellVars == <<mainAt, shellAt, line, isForeground, runs, fd, fd1, pipes, openPipes, lines, misuses>>
shVars == <<vars, shellVars>>

Piped == line.comm1 # NoPipe
NoLine == [comm0 |-> Unknown, comm1 |-> NoPipe, amp |-> FALSE]

ShellInit ==
  /\ Init
  /\ mainAt = "bottler"
  /\ shellAt = "prompt"
  /\ line = NoLine
  /\ isForeground = [c \in Cmds |-> TRUE]
  /\ runs = [p \in Pid |-> Unknown]
  /\ fd = [p \in Pid |-> 0]
  /\ fd1 = INIT_PID
  /\ pipes = 0 /\ openPipes = {} /\ lines = 0
  /\ misuses = {}

Running(p) == mode = "user" /\ current = p

\* sys_loadProcess of c in the foreground or not, with pipe n.
Load(c, fg, n) ==
  /\ Calling("loadProcess")
  /\ enqueueProcess(fg)
  /\ runs' = [runs EXCEPT ![pids] = c]
  /\ fd' = [fd EXCEPT ![pids] = n]
  /\ UNCHANGED <<cpuVars, sleeping, mode, scan, lapses>>

\* sys_wait returns at once without children.
Wait == IF children[current] = 0 THEN UNCHANGED vars ELSE wait

-----------------------------------------------------------------------------
(* main().                                                                 *)

mainLoad ==
  /\ Running(INIT_PID)
  /\ \/ mainAt = "bottler" /\ Load(Unknown, FALSE, 0) /\ mainAt' = "wait"
     \/ mainAt = "shell" /\ Load(Unknown, TRUE, 0) /\ mainAt' = "exit"
  /\ UNCHANGED <<shellAt, line, isForeground, fd1, pipes, openPipes, lines, misuses>>

mainRest ==
  /\ Running(INIT_PID)
  /\ \/ mainAt = "wait" /\ Wait /\ mainAt' = "shell"
     \/ mainAt = "exit" /\ exitProcess /\ mainAt' = "gone"
  /\ UNCHANGED <<shellAt, line, isForeground, runs, fd, fd1, pipes, openPipes, lines, misuses>>

-----------------------------------------------------------------------------
(* The shell.                                                              *)

AtPrompt == Running(SHELL) /\ shellAt = "prompt"

\* getChar() finds no key.
awaitKey ==
  /\ AtPrompt /\ foreground[SHELL] /\ blockIO
  /\ UNCHANGED shellVars

\* What processInput() does first with a line; "|" and "&" together are refused.
After(l) ==
  IF l.comm1 # NoPipe THEN IF l.amp THEN "prompt" ELSE "openPipe"
  ELSE IF l.comm0 = Unknown THEN "prompt"
  ELSE IF l.comm0 \in BuiltIns THEN "builtIn" ELSE "load"

\* A process in the background gets no keys: read() returns 0, and scanfNoPrint
\* calls it again.  On an empty line shell() returns, to an address that nobody
\* has put on its stack: the outcome followed is the exception that ends it.
scanfNoPrint ==
  /\ AtPrompt /\ foreground[SHELL]
  /\ lines < MaxLines
  /\ lines' = lines + 1
  /\ \/ shellAt' = "exit" /\ UNCHANGED line
     \/ \E l \in Line :
          /\ shellAt' = After(l)
          /\ line' = IF After(l) = "prompt" THEN NoLine ELSE l
  /\ UNCHANGED <<vars, mainAt, isForeground, runs, fd, fd1, pipes, openPipes, misuses>>

\* The test for built-ins behind a pipe reads commands[0], whichever was found.
BuiltInRefused == Help \in BuiltIns

\* The pipe is opened before the commands are looked up, and stays open when
\* one of them is not found.
openPipe ==
  /\ Running(SHELL) /\ shellAt = "openPipe"
  /\ pipes' = pipes + 1
  /\ openPipes' = openPipes \union {pipes'}
  /\ LET found == Unknown \notin {line.comm0, line.comm1} /\ ~BuiltInRefused
     IN  /\ shellAt' = IF found THEN "load" ELSE "prompt"
         /\ line' = IF found THEN line ELSE NoLine
  /\ UNCHANGED <<vars, mainAt, isForeground, runs, fd, fd1, lines, misuses>>

\* A line that ends in & changes the table for good.
load ==
  /\ Running(SHELL) /\ shellAt = "load"
  /\ isForeground' = IF line.amp THEN [isForeground EXCEPT ![line.comm0] = FALSE] ELSE isForeground
  /\ Load(line.comm0, isForeground'[line.comm0], IF Piped THEN pipes ELSE 0)
  /\ fd1' = pids
  /\ shellAt' = IF Piped THEN "loadSecond" ELSE "wait"
  /\ misuses' = IF Piped /\ ~isForeground[line.comm0] THEN misuses \union {"detached"} ELSE misuses
  /\ UNCHANGED <<mainAt, line, pipes, openPipes, lines>>

loadSecond ==
  /\ Running(SHELL) /\ shellAt = "loadSecond"
  /\ Load(line.comm1, FALSE, pipes)
  /\ shellAt' = "wait"
  /\ UNCHANGED <<mainAt, line, isForeground, fd1, pipes, openPipes, lines, misuses>>

\* kill and block return to the shell, as does clear, which like a call with a
\* bad pid changes nothing here; unblock calls sys_exit.
builtIn ==
  /\ Running(SHELL) /\ shellAt = "builtIn"
  /\ \/ line.comm0 = "kill" /\ (SysKill \/ UNCHANGED vars) /\ shellAt' = "wait"
     \/ line.comm0 = "block" /\ (SysBlock \/ UNCHANGED vars) /\ shellAt' = "wait"
     \/ line.comm0 = "unblock" /\ (SysUnblock \/ UNCHANGED vars) /\ shellAt' = "exit"
  /\ UNCHANGED <<mainAt, line, isForeground, runs, fd, fd1, pipes, openPipes, lines, misuses>>

\* Mutant: as if sys_wait waited for one child.
waitCommands_mutant ==
  /\ Running(SHELL) /\ shellAt = "wait"
  /\ shellAt' = "close"
  /\ IF isForeground[line.comm0] /\ \E c \in LiveChildren(SHELL) : foreground[c]
     THEN Wait ELSE UNCHANGED vars
  /\ UNCHANGED <<mainAt, line, isForeground, runs, fd, fd1, pipes, openPipes, lines, misuses>>

\* The shell waits for all its children, those in the background too.
waitCommands ==
  /\ Running(SHELL) /\ shellAt = "wait"
  /\ shellAt' = "close"
  /\ IF isForeground[line.comm0] THEN Wait ELSE UNCHANGED vars
  /\ UNCHANGED <<mainAt, line, isForeground, runs, fd, fd1, pipes, openPipes, lines, misuses>>

\* The end of the first command freed fd1 with its process, and the pipe to close
\* is read from it: the memory may have been given out since, to hold anything.
closePipe ==
  /\ Running(SHELL) /\ shellAt = "close"
  /\ shellAt' = "prompt" /\ line' = NoLine
  /\ IF Piped
     THEN \E n \in {pipes} \union (IF Live(fd1) THEN {} ELSE openPipes \union {0}) :
            openPipes' = openPipes \ {n}
     ELSE UNCHANGED openPipes
  /\ UNCHANGED <<vars, mainAt, isForeground, runs, fd, fd1, pipes, lines, misuses>>

exitShell ==
  /\ Running(SHELL) /\ shellAt = "exit"
  /\ exitProcess
  /\ shellAt' = "gone"
  /\ UNCHANGED <<mainAt, line, isForeground, runs, fd, fd1, pipes, openPipes, lines, misuses>>

shell == \/ awaitKey \/ scanfNoPrint \/ openPipe \/ load \/ loadSecond \/ builtIn
         \/ waitCommands \/ closePipe \/ exitShell

-----------------------------------------------------------------------------
\* A command ends when it likes.  A built-in behind a pipe is loaded as a process
\* too, and makes its one call there: on the shell that waits for it, unblock ends
\* the wait, which does not look at its children again.
BuiltInCall ==
  LET woken == /\ shellAt = "close" /\ isForeground[line.comm0]
               /\ state[SHELL] # "READY" /\ state'[SHELL] = "READY"
  IN  \/ runs[current] = "kill" /\ SysKill /\ UNCHANGED misuses
      \/ runs[current] = "block" /\ SysBlock /\ UNCHANGED misuses
      \/ /\ runs[current] = "unblock" /\ SysUnblock
         /\ misuses' = IF woken THEN misuses \union {"wokenShell"} ELSE misuses

Command ==
  /\ mode = "user" /\ current \notin {IDLE_PID, INIT_PID, SHELL}
  /\ \/ exitProcess /\ UNCHANGED <<runs, misuses>>
     \/ BuiltInCall /\ runs' = [runs EXCEPT ![current] = Unknown]
  /\ UNCHANGED <<mainAt, shellAt, line, isForeground, fd, fd1, pipes, openPipes, lines>>

\* Interrupts come as in Scheduler; with its processCDT a process loses its fd.
Interrupt ==
  /\ TimerInterrupt \/ unblockIO \/ TimerHandler
  /\ runs' = [p \in Pid |-> IF state'[p] = "NONE" THEN Unknown ELSE runs[p]]
  /\ fd' = [p \in Pid |-> IF state'[p] = "NONE" THEN 0 ELSE fd[p]]
  /\ UNCHANGED <<mainAt, shellAt, line, isForeground, fd1, pipes, openPipes, lines, misuses>>

ShellNext == mainLoad \/ mainRest \/ shell \/ Command \/ Interrupt

ShellSpec == ShellInit /\ [][ShellNext]_shVars

-----------------------------------------------------------------------------
(* Properties.                                                             *)

\* A command never finds the pipe it was given closed: the shell closes a pipe only
\* after its wait(), which ends when the last child is dead.  Three things void it:
\* a command once run with & is no longer waited for, a command of the line that
\* unblocks the shell ends its wait(), and a process killed twice makes wait()
\* count one child too few.
PipeInUseIsOpen ==
  misuses \intersect {"detached", "wokenShell"} = {} /\ "killDead" \notin lapses =>
    \A p \in Pid : Live(p) /\ fd[p] # 0 => fd[p] \in openPipes

\* Whenever the shell is at its prompt it has the terminal, so that it can read
\* the next line: a foreground command has given it back, however it ended and
\* whoever blocked and unblocked it.  The last two of the three void it.
PromptHasTerminal ==
  "wokenShell" \notin misuses /\ "killDead" \notin lapses => (AtPrompt => foreground[SHELL])

\* help describes unblock as unblocking a process: the shell that runs it stays.
UnblockOnlyUnblocks == line.comm0 = "unblock" => shellAt # "gone"
=============================================================================
