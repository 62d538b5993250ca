------------------------------- MODULE MCParts -------------------------------
(* The parts that share no state with the others, each explored from its   *)
(* own initial states in one run: part says which, and the variables of    *)
(* the others rest.                                                        *)
EXTENDS ProcessMemory, Clock, Video, CommandLine, Filters, Numbers, BootImage, TLC

VARIABLE part

\* A screen of two rows.
VideoStrings ==
  UNION {[1..n -> {"a", "NL", "BS", "EOF", "ESC", "FF"}] : n \in 1..2} \union {<<"a", "b", "a">>}

\* Every unit of the clock turns over, and passes from 9 to 10 in BCD.
ClockUnits == ToSet(Units)
MCLowest == [u \in ClockUnits |-> IF u \in {DAY, MONTH} THEN 1 ELSE 9]
MCHighest == [u \in ClockUnits |-> IF u = DAY THEN 2 ELSE 10]

\* Modules of up to two and a half buffers; the largest do not fit.
ImageContents == UNION {[1..n -> {1, 2}] : n \in 0..5}
ImageKernel == <<3, 1>>
ImageAddresses == <<20, 24>>

\* A length that is too short for most numbers, and itoa, which has none.
NumbersLimits == {1, -1}
NumbersNoLength == -1

\* What may lie behind an argument: a sign and a digit, in either order.
NumbersJunk == {<< >>, <<45, 53>>, <<57, 45>>}

ASSUME PartsAssumption ==
  /\ VideoAssumption /\ ClockAssumption /\ MemoryAssumption
  /\ FiltersAssumption /\ NumbersAssumption /\ ImageAssumption /\ LineAssumption

\* The variables that rest; whatever they hold, no property looks at it.
VideoRests ==
  /\ video = << >> /\ currentX = 0 /\ currentY = 0 /\ string = << >> /\ left = 0
  /\ paper = << >> /\ row = 0 /\ col = 0 /\ slipped = {"rests"}
ClockRests ==
  clock = << >> /\ reader = "nobody" /\ fields = << >> /\ ticks = 0 /\ moments = {}
BooksRest ==
  /\ owner = 0 /\ state = 0 /\ creator = 0 /\ bPointer = 0 /\ fd = 0 /\ mmRegs = 0 /\ mmRegsQty = 0
  /\ given = {} /\ slips = {"rests"}
TextsRest ==
  /\ command = "wc" /\ buffer = << >> /\ i = 0 /\ j = 0 /\ line = 0
  /\ at = "loop" /\ text = << >> /\ out = << >>
NumbersRest ==
  /\ stage = "value" /\ value = 0 /\ base = 10 /\ length = NoLength
  /\ numeral = << >> /\ behind = << >> /\ result = 0
ImageRests ==
  /\ files = << >> /\ readable = TRUE /\ target = << >> /\ memory = << >>
  /\ currentModule = 0 /\ moduleCount = 0 /\ module = 1 /\ phase = "check"
LineRests ==
  /\ input = << >> /\ tokens = << >> /\ pipe = -1 /\ end = -1 /\ ampersand = -1
  /\ parsing = "read" /\ typed = << >> /\ full = FALSE

MCInit ==
  /\ part \in {"screen", "time", "books", "texts", "numbers", "image", "line"}
  /\ IF part = "screen" THEN VideoInit ELSE VideoRests
  /\ IF part = "time" THEN ClockInit ELSE ClockRests
  /\ IF part = "books" THEN Init ELSE BooksRest
  /\ IF part = "texts" THEN FiltersInit ELSE TextsRest
  /\ IF part = "numbers" THEN NumbersInit ELSE NumbersRest
  /\ IF part = "image" THEN ImageInit ELSE ImageRests
  /\ IF part = "line" THEN LineInit ELSE LineRests

\* A behaviour of the memory ends with the first slip after which nothing is
\* claimed.  Bounds: one block is passed as fd, and nothing slips when one is.
BooksBound == Cardinality(given') <= 1 /\ (slips' = {} \/ given' = {})

MCNext ==
  /\ IF part = "screen" THEN VideoNext ELSE UNCHANGED videoVars
  /\ IF part = "time" THEN ClockNext ELSE UNCHANGED clockVars
  /\ IF part = "books" THEN slips \subseteq {"full"} /\ Next /\ BooksBound
     ELSE UNCHANGED vars
  /\ IF part = "texts" THEN FiltersNext ELSE UNCHANGED filterVars
  /\ IF part = "numbers" THEN NumbersNext ELSE UNCHANGED numberVars
  /\ IF part = "image" THEN ImageNext ELSE UNCHANGED imageVars
  /\ IF part = "line" THEN LineNext ELSE UNCHANGED lineVars
  /\ UNCHANGED part

allVars ==
  <<part, vars, clockVars, videoVars, filterVars, numberVars, imageVars, lineVars>>

MCSpec == MCInit /\ [][MCNext]_allVars

MCSymmetry == Permutations(Pids) \union Permutations(Blocks)
=============================================================================
