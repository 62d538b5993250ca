-------------------------------- MODULE Clock --------------------------------
(***************************************************************************)
(* Reading the real-time clock: Kernel/drivers/time.c and getTimeGen() of  *)
(* libasm.asm, and the command time.  Each unit is a register of its own,  *)
(* and the clock runs on between two reads; nothing asks the chip whether  *)
(* an update is under way.                                                 *)
(*                                                                         *)
(* getTimeOfDay(), which sleep() and the scheduler use, reads the year     *)
(* first and the seconds last in one system call; the command time reads   *)
(* the day first, with a system call for each unit, and may be delayed for *)
(* long between them.                                                      *)
(***************************************************************************)
EXTENDS Integers, Sequences, SequencesExt

CONSTANTS
  Lowest, Highest,   \* the first and the last value of each unit
  MaxTicks       \* bound: seconds that pass during a reading

YEAR == "YEAR"
MONTH == "MONTH"
DAY == "DAY"
HOURS == "HOURS"
MINUTES == "MINUTES"
SECONDS == "SECONDS"
Units == <<YEAR, MONTH, DAY, HOURS, MINUTES, SECONDS>>

ClockAssumption ==
  /\ MaxTicks \in Nat
  /\ \A u \in ToSet(Units) :
       Lowest[u] \in 0..99 /\ Highest[u] \in 0..99 /\ Lowest[u] < Highest[u]

VARIABLES
  clock,     \* the time in the chip
  reader,    \* who reads
  fields,    \* what was read of each unit, in the order of the reads
  ticks,     \* seconds since the reading began
  moments    \* history: the times the clock had during the reading

clockVars == <<clock, reader, fields, ticks, moments>>

\* Time is written unit by unit, years first.
Earlier(s, t) ==
  \E n \in DOMAIN Units :
    /\ s[Units[n]] < t[Units[n]]
    /\ \A m \in 1..(n - 1) : s[Units[m]] = t[Units[m]]

ClockInit ==
  /\ \E full \in SUBSET ToSet(Units) :
       clock = [u \in ToSet(Units) |-> IF u \in full THEN Highest[u] ELSE Lowest[u]]
  /\ reader = "nobody" /\ fields = << >> /\ ticks = 0 /\ moments = {}

-----------------------------------------------------------------------------
\* A second later: units at their last value begin again.
After(t) ==
  LET carry(n) == \A m \in (n + 1)..Len(Units) : t[Units[m]] = Highest[Units[m]]
      unit(u) == CHOOSE n \in DOMAIN Units : Units[n] = u
  IN  [u \in ToSet(Units) |-> IF ~carry(unit(u)) THEN t[u]
                              ELSE IF t[u] = Highest[u] THEN Lowest[u] ELSE t[u] + 1]

Tick ==
  /\ ticks < MaxTicks
  /\ Earlier(clock, After(clock))
  /\ clock' = After(clock)
  /\ ticks' = ticks + 1
  /\ moments' = moments \union {clock'}
  /\ UNCHANGED <<reader, fields>>

-----------------------------------------------------------------------------
(* The chip keeps its registers in BCD.                                    *)

Register(u) == 16 * (clock[u] \div 10) + (clock[u] % 10)
bcdToDecimal(al) == (al \div 16) * 10 + (al % 16)
getTimeGen(u) == bcdToDecimal(Register(u))

\* Mutant: the seconds first.
getTimeOfDay_mutant == <<SECONDS, MINUTES, HOURS, DAY, MONTH, YEAR>>

\* The order of the reads.
getTimeOfDay == <<YEAR, MONTH, DAY, HOURS, MINUTES, SECONDS>>
time == <<DAY, MONTH, YEAR, HOURS, MINUTES, SECONDS>>
Order == IF reader = "time" THEN time ELSE getTimeOfDay

Begin(r) ==
  /\ reader = "nobody"
  /\ reader' = r
  /\ fields' = << >> /\ ticks' = 0 /\ moments' = {clock}
  /\ UNCHANGED clock

getTime ==
  /\ reader # "nobody" /\ Len(fields) < Len(Order)
  /\ fields' = Append(fields, getTimeGen(Order[Len(fields) + 1]))
  /\ UNCHANGED <<clock, reader, ticks, moments>>

\* sleep() or the scheduler has its sum, or the last unit is printed.
Deliver ==
  /\ reader # "nobody" /\ Len(fields) = Len(Order)
  /\ reader' = "nobody" /\ fields' = << >> /\ ticks' = 0 /\ moments' = {}
  /\ UNCHANGED clock

ClockNext == Tick \/ Begin("getTimeOfDay") \/ Begin("time") \/ getTime \/ Deliver

ClockSpec == ClockInit /\ [][ClockNext]_clockVars

-----------------------------------------------------------------------------
Complete == reader # "nobody" /\ Len(fields) = Len(Order)
Reading == [u \in ToSet(Units) |-> fields[CHOOSE n \in DOMAIN Order : Order[n] = u]]

\* No reading is ahead of the clock, even when the clock turns over in the middle
\* of the reads: then it is too early, by up to the largest unit that turned over,
\* and as long as the minute lasts it is exact.  The command time is excepted at
\* midnight: it reads the day before the month and the year, and may print the
\* last day of the month that has just begun.
NeverAhead ==
  Complete /\ (reader = "time" => \A t \in moments : t[DAY] = clock[DAY]) =>
    /\ ~Earlier(clock, Reading)
    /\ (\A t \in moments : t[MINUTES] = clock[MINUTES]) => Reading \in moments
=============================================================================
