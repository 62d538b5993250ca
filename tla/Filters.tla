------------------------------- MODULE Filters -------------------------------
(***************************************************************************)
(* The commands that pass text on: cat.c, filter.c and wc.c.  They keep    *)
(* all they read in a buffer on the stack and print it line by line, as    *)
(* write() and printStringLen() do: up to the first zero, and one          *)
(* character further than the length.                                      *)
(***************************************************************************)
EXTENDS Integers, Sequences, FiniteSets, SequencesExt

CONSTANTS
  Vocals, Others,   \* the letters
  SIZE,             \* of the buffer, 1000
  MaxText           \* bound: characters read

FiltersAssumption ==
  /\ SIZE \in Nat \ {0} /\ MaxText \in Nat
  /\ Vocals \intersect Others = {}
  /\ (Vocals \union Others) \intersect {"NL", "BS", "EOF", "0"} = {}

VARIABLES
  command,
  buffer,       \* from the place before it to the one behind it
  i, j, line,
  at,
  text,         \* history: what was read
  out           \* what was printed; the count of wc

filterVars == <<command, buffer, i, j, line, at, text, out>>

Places == -1..SIZE
isVocal(c) == c \in Vocals

FiltersInit ==
  /\ command \in {"cat", "filter", "wc"}
  /\ buffer = [p \in Places |-> "0"]
  /\ i = 0 /\ j = 0 /\ line = 0
  /\ at = "loop" /\ text = << >> /\ out = << >>

\* What write() passes on of the len + 1 characters from p on.
write(b, p, len) ==
  LET chars == [k \in 1..(len + 1) |-> IF p + k - 1 \in Places THEN b[p + k - 1] ELSE "0"]
      ends == {k \in DOMAIN chars : chars[k] \in {"0", "EOF"}}
  IN  SubSeq(chars, 1, (IF ends = {} THEN len + 2
                        ELSE CHOOSE k \in ends : \A e \in ends : k <= e) - 1)

Put(b, p, c) == [b EXCEPT ![p] = c]

\* getChar(): a key, or what is in the pipe.
Read(c) ==
  /\ at = "loop" /\ Len(text) < MaxText
  /\ text' = Append(text, c)

-----------------------------------------------------------------------------
\* The buffer is full: what was just read takes the place behind it.
Overflow(c) ==
  /\ i >= SIZE
  /\ Read(c)
  /\ at' = c
  /\ UNCHANGED <<command, buffer, i, j, line, out>>

\* A character and the one before it are taken back, in the line before or
\* before the buffer if need be.
\* Mutant: the length of the line begins again with the first line only.
cat_mutant(c) ==
  /\ command = "cat" /\ i < SIZE
  /\ Read(c)
  /\ buffer' = IF c = "BS" THEN Put(Put(buffer, i, "0"), i - 1, "0") ELSE Put(buffer, i, c)
  /\ i' = IF c = "BS" THEN i - 1 ELSE i + 1
  /\ IF c = "NL"
     THEN /\ out' = out \o write(buffer', line, j + 1)
          /\ j' = 0 /\ UNCHANGED line
     ELSE j' = j + 1 /\ UNCHANGED <<out, line>>
  /\ at' = IF i' < 0 THEN "outside" ELSE at
  /\ UNCHANGED command
cat(c) ==
  /\ command = "cat" /\ i < SIZE
  /\ Read(c)
  /\ buffer' = IF c = "BS" THEN Put(Put(buffer, i, "0"), i - 1, "0") ELSE Put(buffer, i, c)
  /\ i' = IF c = "BS" THEN i - 1 ELSE i + 1
  /\ IF c = "NL"
     THEN /\ out' = out \o write(buffer', line, j + 1)
          /\ j' = 0 /\ line' = i'
     ELSE j' = j + 1 /\ UNCHANGED <<out, line>>
  /\ at' = IF i' < 0 THEN "outside" ELSE at
  /\ UNCHANGED command

\* A backspace is taken out again.  The vocal it would erase is never in the
\* buffer, but may lie before it.
filter(c) ==
  /\ command = "filter" /\ i < SIZE
  /\ Read(c)
  /\ LET kept == ~isVocal(c) /\ c # "BS"
     IN  /\ buffer' = IF kept THEN Put(buffer, i, c)
                      ELSE IF c = "BS" THEN Put(buffer, i, "0") ELSE buffer
         /\ i' = IF kept THEN i + 1 ELSE i
  /\ IF c = "NL"
     THEN /\ out' = out \o write(buffer', line, j + 1)
          /\ j' = 0 /\ line' = i'
     ELSE j' = (IF isVocal(c) THEN j ELSE j + 1) /\ UNCHANGED <<out, line>>
  /\ at' \in IF c = "BS" /\ i = 0 THEN {at, "outside"} ELSE {at}
  /\ UNCHANGED command

\* wc counts in i.
wc(c) ==
  /\ command = "wc" /\ i < SIZE
  /\ Read(c)
  /\ i' = IF c = "NL" THEN i + 1 ELSE i
  /\ UNCHANGED <<command, buffer, j, line, at, out>>

\* The end of the text, a zero or the EOF.
Eof ==
  /\ at = "loop"
  /\ at' = "EOF"
  /\ UNCHANGED <<command, buffer, i, j, line, text, out>>

\* Behind the loop: the last character and the last line.
Finish ==
  /\ at \notin {"loop", "outside", "exit"}
  /\ buffer' = Put(buffer, i, at)
  /\ i' = i + 1
  /\ out' = IF command = "wc" THEN <<i'>> ELSE out \o write(buffer', line, j + 1)
  /\ at' = "exit"
  /\ UNCHANGED <<command, j, line, text>>

FiltersNext ==
  \/ \E c \in Vocals \union Others \union {"NL", "BS"} :
       Overflow(c) \/ cat(c) \/ filter(c) \/ wc(c)
  \/ Eof \/ Finish

FiltersSpec == FiltersInit /\ [][FiltersNext]_filterVars

-----------------------------------------------------------------------------
\* What cat and filter make of the next character: cat corrects the text, filter
\* takes out vocals and backspaces.
Passed(com, t, c) ==
  IF com = "cat" /\ c = "BS" THEN (IF t = << >> THEN t ELSE Front(t))
  ELSE IF com = "filter" /\ (isVocal(c) \/ c = "BS") THEN t
  ELSE Append(t, c)

\* And of a whole text.
PassedOn(com, t) ==
  LET upTo[n \in 0..Len(t)] == IF n = 0 THEN << >> ELSE Passed(com, upTo[n - 1], t[n])
  IN  upTo[Len(t)]

\* No backspace finds its line empty.
WithinLines(t) ==
  \A n \in DOMAIN t : t[n] = "BS" =>
    LET before == PassedOn("cat", SubSeq(t, 1, n - 1))
    IN  before # << >> /\ before[Len(before)] # "NL"

Newlines(t) == Cardinality({n \in DOMAIN t : t[n] = "NL"})

\* Up to the size of the buffer, cat prints the text with its corrections,
\* filter prints it without vocals (and does not erase), and wc prints the
\* number of line ends plus one, although printing goes one character too far.
PassesTextOn ==
  at = "exit" /\ Len(text) < SIZE =>
    CASE command = "cat" -> WithinLines(text) => out = PassedOn("cat", text)
      [] command = "filter" -> out = PassedOn("filter", text)
      [] OTHER -> out = <<Newlines(text) + 1>>
=============================================================================
