\* Three processes and four blocks, of which two fit in the register of a process;
\* a screen of two rows of two.  Texts are up to two characters longer than
\* the buffer, ints have eight bits.  A line may
\* be full and have more words than MAX_ARGS allows.
CONSTANTS
  Pids = {p1, p2, p3}
  Blocks = {b1, b2, b3, b4}
  Boot = Boot
  NULL = NULL
  MAX_MALLOCS = 3
  MaxSlips = 1
  Lowest <- MCLowest
  Highest <- MCHighest
  MaxTicks = 2
  width = 2
  height = 2
  Letters = {"a", "b"}
  Blank = " "
  Strings <- VideoStrings
  Lengths = {0, 2}
  MaxRows = 4
  MaxX = 4
  Vocals = {"a"}
  Others = {"x"}
  SIZE = 5
  MaxText = 7
  Plain = {"a"}
  LINE_SIZE = 7
  MAX_ARGS = 4
  MaxKeys = 7
  Bits = 8
  Bases = {2, 10, 16}
  Limits <- NumbersLimits
  NoLength <- NumbersNoLength
  Junk <- NumbersJunk
  Radix = 4
  Word = 2
  BUFFER_SIZE = 2
  Kernel <- ImageKernel
  bss = 4
  BssSize = 8
  Contents <- ImageContents
  moduleAddresses <- ImageAddresses
  memoryModuleAddress = 28
  Top = 32
SPECIFICATION MCSpec
SYMMETRY MCSymmetry
CHECK_DEADLOCK FALSE
INVARIANTS
  ScreenShowsText
  ParsedAsTyped
  PassesTextOn
  ReadBack
  NeverAhead
  LoadedAsPacked
  BooksExact
PROPERTIES
  OnlyOwnFreed
