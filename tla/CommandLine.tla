----------------------------- MODULE CommandLine -----------------------------
(***************************************************************************)
(* From keys to a command: scanfNoPrint() and the first half of            *)
(* processInput() in shell.c, with strstrip(), strtok() and strcmp() of    *)
(* libc.c.  Shell starts from what this finds in a line.                   *)
(*                                                                         *)
(* A line is cut in place: strtok() writes zeros into the buffer and the   *)
(* tokens are positions in it.  "SP" is a blank, "BAR" and "AMP" are | and *)
(* &, "BS" erases, and "0" is the terminator.                              *)
(***************************************************************************)
EXTENDS Integers, Sequences, FiniteSets, SequencesExt

CONSTANTS
  Plain,      \* characters without a meaning
  LINE_SIZE,  \* SIZE of shell.h, 100
  MAX_ARGS,   \* 11
  MaxKeys     \* bound: the keys of a line

LineAssumption ==
  /\ Plain \intersect {"SP", "BAR", "AMP", "BS", "0"} = {}
  /\ LINE_SIZE \in Nat /\ LINE_SIZE > 1 /\ MAX_ARGS \in Nat /\ MAX_ARGS > 1 /\ MaxKeys \in Nat

VARIABLES
  input,                 \* the buffer: its characters, up to the terminator
  tokens,                \* where tokens[0], tokens[1]... begin
  pipe, end, ampersand,
  parsing,
  typed,                 \* history: the keys that were read
  full                   \* history: a full buffer ended the line

lineVars == <<input, tokens, pipe, end, ampersand, parsing, typed, full>>
keys == <<typed, full>>
parse == <<tokens, pipe, end, ampersand>>

LineInit ==
  /\ input = << >> /\ tokens = << >>
  /\ pipe = -1 /\ end = -1 /\ ampersand = -1
  /\ parsing = "read" /\ typed = << >> /\ full = FALSE

-----------------------------------------------------------------------------
(* scanfNoPrint.                                                           *)

\* getChar() also gives -1 while the shell is in the background and 0 for a key
\* without a character: the loop passes them over, which is no step here.
getChar ==
  /\ parsing = "read" /\ Len(typed) < MaxKeys
  /\ \E c \in Plain \union {"SP", "BAR", "AMP", "BS"} :
       /\ typed' = Append(typed, c)
       /\ input' = CASE Len(input) = LINE_SIZE - 1 -> input
                     [] c = "BS" -> IF input = << >> THEN input ELSE Front(input)
                     [] OTHER -> Append(input, c)
  \* A full buffer ends the line, and the key that was read is lost.
  /\ full' = (Len(input) = LINE_SIZE - 1)
  /\ parsing' = IF full' THEN "line" ELSE "read"
  /\ UNCHANGED parse

\* An empty line ends the shell.
enter ==
  /\ parsing = "read" /\ input # << >>
  /\ parsing' = "line"
  /\ UNCHANGED <<input, parse, keys>>

-----------------------------------------------------------------------------
(* processInput.  Positions count from 1; the terminator is behind the end. *)

Char(b, p) == IF p > Len(b) THEN "0" ELSE b[p]

\* The string that begins at p.
String(b, p) ==
  LET stop == CHOOSE q \in p..(Len(b) + 1) :
                Char(b, q) = "0" /\ \A r \in p..(q - 1) : Char(b, r) # "0"
  IN  SubSeq(b, p, stop - 1)

\* The first position from s on that is not c.
strstrip(s, c) ==
  CHOOSE q \in s..(Len(input) + 1) :
    Char(input, q) # c /\ \A r \in s..(q - 1) : Char(input, r) = c

\* Blanks are overwritten until a character follows one: there the next token
\* begins.
\* Mutant: one blank is overwritten, and the next token begins behind it.
strtok_mutant(s, delim) ==
  LET blank == CHOOSE q \in s..(Len(input) + 1) :
                 /\ Char(input, q) \in {delim, "0"}
                 /\ \A r \in s..(q - 1) : input[r] # delim
  IN  [next |-> IF Char(input, blank) = "0" THEN blank ELSE blank + 1,
       cut |-> [p \in DOMAIN input |-> IF p = blank THEN "0" ELSE input[p]]]
strtok(s, delim) ==
  LET blank(r) == Char(input, r) = delim
      next == CHOOSE q \in s..(Len(input) + 1) :
                /\ Char(input, q) = "0" \/ (~blank(q) /\ \E r \in s..(q - 1) : blank(r))
                /\ \A r \in s..(q - 1) : blank(r) \/ \A x \in s..r : ~blank(x)
  IN  [next |-> next,
       cut |-> [p \in DOMAIN input |->
                  IF p \in s..(next - 1) /\ blank(p) THEN "0" ELSE input[p]]]

processInput ==
  /\ parsing = "line"
  /\ tokens' = <<strstrip(1, "SP")>>
  /\ parsing' = "split"
  /\ UNCHANGED <<input, pipe, end, ampersand, keys>>

\* One round of the loop: tokens[i] is found, and tokens[i - 1] ends.
split ==
  /\ parsing = "split"
  /\ LET i == Len(tokens)
         token == strtok(tokens[i], "SP")
         word == String(token.cut, tokens[i])
         last == Char(token.cut, token.next) = "0"
     IN  /\ input' = token.cut
         /\ tokens' = Append(tokens, token.next)
         /\ pipe' = IF i > 1 /\ word = <<"BAR">> THEN i - 1 ELSE pipe
         /\ ampersand' = IF last /\ i > 1 /\ word = <<"AMP">> THEN i - 1 ELSE ampersand
         /\ end' = IF last THEN (IF ampersand' = -1 THEN i ELSE i - 1) ELSE end
         /\ parsing' = IF last \/ i + 1 = MAX_ARGS THEN "done" ELSE parsing
  /\ UNCHANGED keys

LineNext == getChar \/ enter \/ processInput \/ split

LineSpec == LineInit /\ [][LineNext]_lineVars

-----------------------------------------------------------------------------
(* What the line says.                                                     *)

\* The keys with what they erase taken out.
Corrected(l, c) ==
  IF c = "BS" THEN (IF l = << >> THEN l ELSE Front(l)) ELSE Append(l, c)
Line(t) ==
  LET upTo[k \in 0..Len(t)] == IF k = 0 THEN << >> ELSE Corrected(upTo[k - 1], t[k])
  IN  upTo[Len(t)]

\* The words between the blanks of a line, in order.
isBlank(l, k) == k \notin DOMAIN l \/ l[k] = "SP"
Begins(l) == {k \in DOMAIN l : ~isBlank(l, k) /\ isBlank(l, k - 1)}
Rank(l, k) == Cardinality({x \in Begins(l) : x <= k})
WordAt(l, k) ==
  SubSeq(l, k, CHOOSE e \in k..Len(l) : isBlank(l, e + 1) /\ \A x \in k..e : ~isBlank(l, x))
Words(l) ==
  [n \in 1..Cardinality(Begins(l)) |-> WordAt(l, CHOOSE k \in Begins(l) : Rank(l, k) = n)]

Positions(w, c) == {n \in 2..Len(w) : w[n] = <<c>>}

\* The arguments, the place of the last "|" and a final "&".
TakenFor(words) ==
  LET amp == words # << >> /\ Len(words) \in Positions(words, "AMP")
      args == IF amp THEN Front(words) ELSE words
      bars == Positions(words, "BAR")
  IN  /\ (ampersand # -1) = amp
      /\ end = IF words = << >> THEN 1 ELSE Len(args)
      /\ words # << >> => \A n \in 1..end : String(input, tokens[n]) = args[n]
      /\ words = << >> => String(input, tokens[1]) = << >>
      /\ pipe = IF bars = {} THEN -1
                ELSE (CHOOSE n \in bars : \A x \in bars : x <= n) - 1

\* A line that fits the buffer and has at most MAX_ARGS - 1 words is taken for the
\* words that were typed, whatever was erased on the way and however many
\* blanks there are.
ParsedAsTyped ==
  LET words == Words(Line(typed))
  IN  parsing = "done" /\ ~full /\ Len(words) < MAX_ARGS => TakenFor(words)
=============================================================================
