\* Both ports, chains of up to two sectors, a directory of two.
SPECIFICATION Spec
CONSTANTS
  Counts = {0, 2}
  DirSectors = 2
  BrokenSectors = 1
  OnePortAtATime = TRUE
INVARIANTS
  RequestsAreAnswered
PROPERTIES
  RequestsEnd
