\* realloc's test for free memory behind a block.
SPECIFICATION HeapSpec
CONSTANTS
  HeapSize = 14
  Sizes = {0, 1, 2, 4, 7}
INVARIANTS
  GrowsIntoFreeMemory
CHECK_DEADLOCK FALSE
