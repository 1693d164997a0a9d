\* Flakes in NTSC and PAL, images around page borders, texts of six characters,
\* seven frames on a table of six entries.
SPECIFICATION MCSpec
CONSTANTS
  Axes <- MCAxes
  Rates = {50, 60}
  Images <- MCImages
  Positions <- MCPositions
  FreeEntries = {1, 3, 256}
  Texts <- MCTexts
  charData <- MCCharData
  charHeight = 19
  SCREEN_WIDTH = 10
  ArgX = 2
  ArgY = 0
  FONTVRAM_X = 960
  FONTVRAM_Y = 32
  TEXTABLE_SIZE = 6
  Frames <- MCFrames
INVARIANTS
  ImageIsDrawn
  TextIsRead
  FrameIsPainted
PROPERTIES
  SnowFalls
  PictureGoesOn
