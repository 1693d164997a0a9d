\* main.c's scene, in NTSC.
SPECIFICATION Spec
CONSTANTS
  TextLengths = {47}
  tickPerSecond = 60
  MaxScenes = 1
PROPERTIES
  HalfSecondPause
