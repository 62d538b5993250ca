\* Ten headers' worth of heap; requests that split, fit exactly and almost fit.
\* Eight pages of two cells; requests of no page, one, two, three (rounded to
\* four), the whole heap and more than the heap.
CONSTANTS
  HeapEnd = 20
  portBYTE_ALIGNMENT = 2
  xHeapStructSize = 2
  Requests = {0, 1, 3, 5, 8}
  LEVEL = 3
  PAGE_SIZE = 2
  Sizes = {0, 3, 5, 16, 17}
SPECIFICATION MCSpec
INVARIANTS
  HeapConsistent
  NoFalseFailure
  TreeConsistent
PROPERTIES
  KeepsPromise
  TreeKeepsPromise
