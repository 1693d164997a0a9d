\* Three blocks for four threads; a heap, a boot; pads of two kinds
\* or a mouse on one port, a multitap on the other.
SPECIFICATION MCSpec
CONSTANTS
  Slots = 3
  Tasks = {a, b, c, d}
  Points = 2
  OpensInCritical = TRUE
  HeapSize = 14
  Sizes = {0, 1, 2, 4, 7}
  First = {"free", "flying", "mouse"}
  Second = {"tap"}
  WordSize = 256
  ArgSize = 2
  Others = {"p", "x"}
  CnfFiles <- Discs
  DefaultCnf <- Configuration
  Leftovers <- Arguments
INVARIANTS
  ThreadsApart
  HeapIsAccounted
  DiscBoots
  PadsAreShown
PROPERTIES
  ImplementsHeapStore
