-------------------------------- MODULE Video --------------------------------
(***************************************************************************)
(* The text screen: Kernel/drivers/video.c.  write() to the terminal runs  *)
(* printStringLen() with interrupts off, so that strings do not mix; one   *)
(* round of its loop is one step here.  Colours are left out.              *)
(*                                                                         *)
(* Next to the screen the model keeps the text as a terminal without end   *)
(* would show it: an endless roll of paper, of which the screen is to be   *)
(* the last rows.                                                          *)
(***************************************************************************)
EXTENDS Integers, Sequences, SequencesExt

CONSTANTS
  width, height,   \* 80 and 25
  Letters,         \* characters that are shown
  Blank,
  Strings,         \* the strings written
  Lengths,         \* the values of maxLen
  MaxRows,         \* bound: rows of the paper
  MaxX             \* bound: how far behind its row the cursor is followed

VideoAssumption ==
  /\ width \in Nat \ {0} /\ height \in Nat /\ height >= 2
  /\ MaxRows \in Nat /\ MaxRows > height
  /\ MaxX \in Nat /\ MaxX > width
  /\ Blank \notin Letters
  /\ Letters \intersect {"NL", "BS", "EOF", "ESC", "FF"} = {}
  /\ Lengths \subseteq Nat
  /\ Strings \subseteq Seq(Letters \union {"NL", "BS", "EOF", "ESC", "FF"})

VARIABLES
  video,              \* the characters of the video memory, row after row
  currentX, currentY,
  string,             \* what is left of the string
  left,               \* maxLen - i, how many more rounds after this one
  paper, row, col,    \* history: the text, and where it continues
  slipped             \* history: a backspace at the start of a row

videoVars == <<video, currentX, currentY, string, left, paper, row, col, slipped>>
cursor == <<currentX, currentY>>
roll == <<paper, row, col>>

Cells == 0..(width * height - 1)
PaperCells == 0..(width * MaxRows - 1)

VideoInit ==
  /\ video = [c \in Cells |-> Blank]
  /\ currentX = 0 /\ currentY = 0
  /\ string = << >> /\ left = 0
  /\ paper = [c \in PaperCells |-> Blank] /\ row = 0 /\ col = 0
  /\ slipped = {}

\* Memory after c was stored at the cursor; what is behind the last row is not
\* shown.
Stored(c) ==
  [p \in Cells |-> IF p = currentY * width + currentX THEN c ELSE video[p]]

\* Mutant: the last row is not cleared.
scroll_mutant(v) == [p \in Cells |-> IF p + width \in Cells THEN v[p + width] ELSE v[p]]
scroll(v) == [p \in Cells |-> IF p + width \in Cells THEN v[p + width] ELSE Blank]

\* The text goes on the paper, which is given up once the cursor has slipped.
Write(p, r, c) ==
  IF slipped = {} THEN paper' = p /\ row' = r /\ col' = c ELSE UNCHANGED roll

\* The cursor at the start of the next row; the rows move up at the last one.
NextRow(v) ==
  /\ currentX' = 0
  /\ IF currentY + 1 = height
     THEN currentY' = currentY /\ video' = scroll(v)
     ELSE currentY' = currentY + 1 /\ video' = v

\* A cursor behind the end of its row does not find it.
increment(v) ==
  IF currentX + 1 = width THEN NextRow(v)
  ELSE currentX' = currentX + 1 /\ video' = v /\ UNCHANGED currentY

-----------------------------------------------------------------------------
(* The loop of printStringLen.                                             *)

printStringLen ==
  /\ string = << >>
  /\ string' \in Strings /\ left' \in Lengths
  /\ UNCHANGED <<video, cursor, roll, slipped>>

\* The loop goes on: a string ends at its length or after maxLen + 1 characters.
Continue ==
  /\ string' = IF left = 0 THEN << >> ELSE Tail(string)
  /\ left' = IF left = 0 THEN 0 ELSE left - 1

Seen == string # << >>
EndString == string' = << >> /\ left' = 0

new_line ==
  /\ Seen /\ Head(string) = "NL" /\ row < MaxRows - 1
  /\ NextRow(video)
  /\ Write(paper, row + 1, 0)
  /\ Continue
  /\ UNCHANGED slipped

\* At the start of a row the cursor is put behind the end of the row before,
\* where it came from; otherwise it goes back and the character is erased.
backspace ==
  /\ Seen /\ Head(string) = "BS"
  /\ IF currentX = 0 /\ currentY > 0
     THEN /\ currentX' = width /\ currentY' = currentY - 1
          /\ slipped' = {"backAtStart"}
          /\ UNCHANGED roll
     ELSE /\ currentX' = IF currentX = 0 THEN 0 ELSE currentX - 1
          /\ LET back == IF col = 0 THEN 0 ELSE col - 1
             IN  Write([paper EXCEPT ![row * width + back] = Blank], row, back)
          /\ UNCHANGED <<currentY, slipped>>
  /\ video' = [p \in Cells |-> IF p = currentY' * width + currentX' THEN Blank ELSE video[p]]
  /\ EndString

\* checkIfEscapeSequence: the rest of the string is dropped.
escape ==
  /\ Seen /\ Head(string) = "ESC"
  /\ IF Len(string) > 1 /\ string[2] = "FF"
     THEN /\ currentX' = 0 /\ currentY' = 0
          /\ video' = [p \in Cells |-> Blank]
          /\ Write([p \in PaperCells |-> Blank], 0, 0)
     ELSE UNCHANGED <<video, cursor, roll>>
  /\ EndString
  /\ UNCHANGED slipped

eof ==
  /\ Seen /\ Head(string) = "EOF"
  /\ EndString
  /\ UNCHANGED <<video, cursor, roll, slipped>>

show ==
  /\ Seen /\ Head(string) \in Letters
  /\ row < MaxRows - 1 /\ currentX < MaxX
  /\ increment(Stored(Head(string)))
  /\ LET next == row * width + col + 1
     IN  Write([paper EXCEPT ![next - 1] = Head(string)], next \div width, next % width)
  /\ Continue
  /\ UNCHANGED slipped

VideoNext == printStringLen \/ new_line \/ backspace \/ escape \/ eof \/ show

VideoSpec == VideoInit /\ [][VideoNext]_videoVars

-----------------------------------------------------------------------------
\* The screen shows the last rows of the text and the cursor is where the text
\* goes on: wrapping, scrolling, erasing and clearing agree, until a backspace
\* at the start of a row takes the cursor off it.
ScreenShowsText ==
  slipped = {} =>
    LET top == IF row < height THEN 0 ELSE row - height + 1
    IN  /\ currentX = col /\ currentY = row - top
        /\ \A p \in Cells : video[p] = paper[p + top * width]
=============================================================================
