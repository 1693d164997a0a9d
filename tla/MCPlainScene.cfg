\* One scene with NormalBar.
SPECIFICATION SceneSpec
CONSTANTS
  Slots <- MCSlots
  Files <- MCFiles
  Calls <- MCCalls
  Tim <- MCTim
  ImageVX <- MCImageVX
  ImageVY <- MCImageVY
  DirOf <- MCDirOf
  PoolStart = 320
  PoolEnd = 960
  ClutStart = 480
  SceneInfos <- MCPlainScenes
  Nobody = "nobody"
  FontFile = "font"
  BarFile <- MCBarFile
  ContinueFile = "ctc"
  EffectFile <- MCEffectFile
  MAX_ACTORS = 2
  ActorSlots <- MCActorSlots
  Added <- MCAdded
  MaxScenes = 1
INVARIANTS
  ContinueIconDrawn
CHECK_DEADLOCK FALSE
