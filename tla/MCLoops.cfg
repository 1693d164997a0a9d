\* main.c's text lengths and none, in NTSC; three scenes, a shell and songs beside it.
SPECIFICATION MCSpec
CONSTANTS
  TextLengths = {0, 1, 47}
  tickPerSecond = 60
  MaxScenes = 1
  FPS = 3
  ONE = 13
  DiscKinds = {"none", "audio", "game"}
  MaxFaults = 1
  Songs <- FewSongs
  Rows = 3
  OrdersAsked = {1, 7}
  RowsAsked = {1, 18}
  AsksForBoth = FALSE
INVARIANTS
  ShellBootsGames
  SongKeepsTime
PROPERTIES
  ImplementsBlink
  ScenesBlinkOn
  ShellAnswers
  SongIsFollowed
