\* Scarce: three columns, palette rows and sectors of heap, and five calls, which
\* use them all up.  The game: four of its loads in any order.
SPECIFICATION MCSpec
CONSTANTS
  Slots <- MCSlots
  Files <- MCFiles
  Calls <- MCCalls
  Tim <- MCTim
  ImageVX <- MCImageVX
  ImageVY <- MCImageVY
  DirOf <- MCDirOf
  PoolStart = 2
  PoolEnd = 5
  ClutStart = 4
  ClutW = 2
  VramH = 7
  Reserved <- MCReserved
  HeapBytes = 6144
  MaxCalls = 5
INVARIANTS
  LoadsAreContained
  ImagesAreKept
PROPERTIES
  ImplementsImageStore
  LoadsReturn
