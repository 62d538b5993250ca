------------------------------- MODULE Numbers -------------------------------
(***************************************************************************)
(* Numbers as text: itoa() and gtoa() of the user library, itoa() of the   *)
(* kernel, and atoi(), which reads the arguments of the commands.  Shell   *)
(* commands print pids and take them back, and phylo hands a pointer to    *)
(* its processes in this way.                                              *)
(*                                                                         *)
(* Characters are their codes; an int has Bits bits.                       *)
(***************************************************************************)
EXTENDS Integers, Sequences, FiniteSets, SequencesExt

CONSTANTS
  Bits,       \* 32
  Bases,
  Limits,     \* the values of length, enough for a number or not; NoLength for itoa
  NoLength,
  Junk        \* what may lie behind an argument

NumbersAssumption ==
  /\ Bits \in Nat /\ Bits > 1
  /\ Bases \subseteq 2..32 /\ 10 \in Bases /\ Limits \subseteq Nat \union {NoLength}
  /\ NoLength \in Int /\ NoLength < 0
  /\ Junk \subseteq Seq(0..127)

VARIABLES stage, value, base, length, numeral, behind, result

numberVars == <<stage, value, base, length, numeral, behind, result>>

Power(b, k) ==
  LET p[n \in 0..k] == IF n = 0 THEN 1 ELSE b * p[n - 1]
  IN  p[k]

Half == Power(2, Bits - 1)
Ints == -Half..(Half - 1)

\* Cut to an int.
Wrap(n) == LET m == n % (2 * Half) IN IF m >= Half THEN m - 2 * Half ELSE m

\* C's division, towards zero.
Quotient(n, d) == IF n < 0 THEN -((-n) \div d) ELSE n \div d
Remainder(n, d) == n - d * Quotient(n, d)

\* The negative of the least int is itself.
abs(n) == IF n < 0 THEN Wrap(-n) ELSE n

NumbersInit ==
  /\ stage = "value"
  /\ value \in Ints /\ base \in Bases /\ length \in Limits
  /\ numeral = << >> /\ behind \in Junk /\ result = 0

-----------------------------------------------------------------------------
Digit(r) == IF r >= 10 THEN 65 + (r - 10) ELSE 48 + r

\* What is left of n after each division.
Divided(n, b, max) ==
  LET left[k \in 0..max] == IF k = 0 THEN n ELSE Quotient(left[k - 1], b)
  IN  left

\* The loop of itoa and gtoa: low digits first, while something is left and there
\* are less than max.
Digits(n, b, max) ==
  LET left == Divided(n, b, max)
      count == CHOOSE k \in 0..max :
                 (left[k] = 0 \/ k = max) /\ \A l \in 0..(k - 1) : left[l] # 0
  IN  [k \in 1..count |-> Digit(Remainder(left[k - 1], b))]

\* Mutant: the sign is not reversed with the digits.
gtoa_mutant(v, b, max) ==
  LET digits == Digits(abs(v), b, max)
      shown == IF digits = << >> THEN <<48>> ELSE digits
  IN  IF v < 0 /\ b = 10 THEN Append(Reverse(shown), 45) ELSE Reverse(shown)
gtoa(v, b, max) ==
  LET digits == Digits(abs(v), b, max)
      shown == IF digits = << >> THEN <<48>> ELSE digits
  IN  Reverse(IF v < 0 /\ b = 10 THEN Append(shown, 45) ELSE shown)

\* The user library's itoa has no limit, and an int never has more digits.
itoa(v, b) == gtoa(v, b, Bits)

\* The first loop of atoi looks for signs up to the terminator.  After each it moves
\* the string on as well, and so passes over one character, which may be the
\* terminator.
Over(s, p) == p > Len(s) \/ s[p] = 0
LookedAt(s) ==
  LET place[k \in 0..Len(s)] ==
        IF k = 0 THEN 1
        ELSE LET p == place[k - 1]
             IN  IF Over(s, p) THEN p ELSE IF s[p] = 45 THEN p + 2 ELSE p + 1
  IN  place
Signs(s) ==
  LET place == LookedAt(s)
  IN  Cardinality({k \in DOMAIN place : ~Over(s, place[k]) /\ s[place[k]] = 45})

isNumber(c) == c >= 48 /\ c <= 57

\* The value of the first n digits.
Value(s, n) ==
  LET val[k \in 0..n] == IF k = 0 THEN 0 ELSE Wrap(val[k - 1] * 10 + (s[k] - 48))
  IN  val[n]

\* The number at the start of what is left.
atoi(s) ==
  LET signs == Signs(s)
      str == SubSeq(s, signs + 1, Len(s))
      count == CHOOSE n \in 0..Len(str) :
                 /\ n = Len(str) \/ ~isNumber(str[n + 1])
                 /\ \A k \in 1..n : isNumber(str[k])
  IN  Wrap(Value(str, count) * (IF signs % 2 = 0 THEN 1 ELSE -1))

-----------------------------------------------------------------------------
toText ==
  /\ stage = "value"
  /\ numeral' = IF length = NoLength THEN itoa(value, base) ELSE gtoa(value, base, length)
  /\ stage' = "text"
  /\ UNCHANGED <<value, base, length, behind, result>>

\* An argument lies in a line, with a terminator and what follows it.
toNumber ==
  /\ stage = "text" /\ base = 10
  /\ result' = atoi(numeral \o <<0>> \o behind)
  /\ stage' = "number"
  /\ UNCHANGED <<value, base, length, numeral, behind>>

NumbersNext == toText \/ toNumber

NumbersSpec == NumbersInit /\ [][NumbersNext]_numberVars

-----------------------------------------------------------------------------
Least == -Half
Amount == IF value < 0 THEN -value ELSE value
Enough == length = NoLength \/ Power(base, length) > Amount

\* What a text in some base means.
Meaning(t, b) ==
  LET upTo[k \in 0..Len(t)] ==
        IF k = 0 THEN 0
        ELSE IF t[k] = 45 THEN upTo[k - 1]
        ELSE upTo[k - 1] * b + (IF t[k] >= 65 THEN t[k] - 55 ELSE t[k] - 48)
  IN  upTo[Len(t)]

\* A number that is printed in decimal is read back as it was, whatever lies
\* behind it in memory, and one printed in another base stands for its amount;
\* a length that is too short keeps the low digits.  The least int has no
\* positive counterpart and its digits come out as other characters.
ReadBack ==
  value # Least =>
    /\ stage = "number" /\ Enough => result = value
    /\ stage # "value" =>
         Meaning(numeral, base) = IF Enough THEN Amount ELSE Amount % Power(base, length)
=============================================================================
