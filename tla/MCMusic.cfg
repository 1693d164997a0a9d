\* Rows of pitch or of volume, and a module moved in eight cells of memory.
SPECIFICATION MCSpec
CONSTANTS
  PeriodTable <- Periods
  Notes = 3
  Tunings = 2
  Instruments <- Samples
  RowSet <- LoudRows
  Volumes = {65535}
  Lowest = 108
  Highest = 907
  HasCalls = TRUE
  Cells = 8
  Header = 1
  Tables <- OrderTables
  Upwards = TRUE
INVARIANTS
  NotesArePlayed
  MusicKeepsItsVolume
  PlayerFindsModule
