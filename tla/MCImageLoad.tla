---------------------------- MODULE MCImageLoad ----------------------------
(***************************************************************************)
(* ImageLoad twice, one in each behaviour: with everything scarce, columns *)
(* for three images, palette rows for three, heap for one buffer and a     *)
(* half, so that every limit is reached within a few calls; and with the   *)
(* layout and the files of the disc: image.c, scene.h, font.h and          *)
(* effects.h for the positions, the TIM headers under CDROM/GFX for the    *)
(* sizes, main.c for the heap.  Of the one that stays in its initial state *)
(* nothing is asked.                                                       *)
(***************************************************************************)
EXTENDS ImageLoad

(* Scarce: one file has no palette. *)
MCTim ==
  [ left  |-> [w |-> 1, h |-> 4, bytes |-> 2049, indexed |-> TRUE],
    right |-> [w |-> 2, h |-> 3, bytes |-> 2048, indexed |-> TRUE],
    fixed |-> [w |-> 1, h |-> 1, bytes |-> 100,  indexed |-> FALSE] ]
MCFiles == DOMAIN MCTim
MCCalls == {<<"a", "left">>, <<"b", "right">>, <<"c", "fixed">>}
MCSlots == {"a", "b", "c"}
MCImageVX == [left |-> -1, right |-> -1, fixed |-> 2]
MCImageVY == [left |-> -1, right |-> -1, fixed |-> 4]
MCDirOf   == [left |-> "Left", right |-> "Right", fixed |-> "None"]
MCReserved == { [x |-> 0, y |-> 0, w |-> 2, h |-> 4] }

(* The game: its files, and its frame buffer and debug font.               *)
GameTim ==
  [ snowy   |-> [w |-> 160, h |-> 480, bytes |-> 154144, indexed |-> TRUE],
    font    |-> [w |-> 41,  h |-> 58,  bytes |-> 4820,   indexed |-> TRUE],
    charbar |-> [w |-> 80,  h |-> 116, bytes |-> 18624,  indexed |-> TRUE],
    ctc     |-> [w |-> 2,   h |-> 16,  bytes |-> 128,    indexed |-> TRUE],
    snow    |-> [w |-> 1,   h |-> 8,   bytes |-> 80,     indexed |-> TRUE] ]
GameCalls ==
  { <<"background", "snowy">>, <<"font", "font">>, <<"bar", "charbar">>,
    <<"continue", "ctc">>, <<"effect", "snow">> }

VARIABLES
  part,                                       \* "scarce" or "game"
  gStart, gEnd, gClut, gImages, gStatus, gPc, gSlot, gPath, gFp, gBuffer, gHeap,
  gRead, gDrive, gGpu, gVram, gBefore, gPast, gCalls      \* the game's

gameVars == <<gStart, gEnd, gClut, gImages, gStatus, gPc, gSlot, gPath, gFp, gBuffer, gHeap,
              gRead, gDrive, gGpu, gVram, gBefore, gPast, gCalls>>

Game == INSTANCE ImageLoad WITH
  Slots <- {c[1] : c \in GameCalls}, Files <- DOMAIN GameTim, Calls <- GameCalls, Tim <- GameTim,
  ImageVX <- [snowy |-> -1, font |-> 960, charbar |-> -1, ctc |-> 320, snow |-> 960],
  ImageVY <- [snowy |-> -1, font |-> 32, charbar |-> -1, ctc |-> 480, snow |-> 256],
  DirOf <- [snowy |-> "Left", font |-> "None", charbar |-> "Right", ctc |-> "None",
            snow |-> "None"],
  PoolStart <- 320, PoolEnd <- 960, ClutStart <- 480, ClutW <- 256, VramH <- 512,
  Reserved <- { [x |-> 0, y |-> 0, w |-> 320, h |-> 480],
                [x |-> 960, y |-> 0, w |-> 64, h |-> 32] },
  HeapBytes <- 1048575, MaxCalls <- 4,
  vramStart <- gStart, vramEnd <- gEnd, clutStack <- gClut, images <- gImages,
  status <- gStatus, pc <- gPc, slot <- gSlot, path <- gPath, fp <- gFp, buffer <- gBuffer,
  heapFree <- gHeap, readStatus <- gRead, drive <- gDrive, gpu <- gGpu, vram <- gVram,
  before <- gBefore, past <- gPast, calls <- gCalls

MCInit ==
  /\ part \in {"scarce", "game"}
  /\ (part = "scarce" \/ slot = "a") /\ LoadInit
  /\ (part = "game" \/ gSlot = "font") /\ Game!LoadInit

Scarce(A) == part = "scarce" /\ A /\ UNCHANGED <<part, gameVars>>
InGame(A) == part = "game" /\ A /\ UNCHANGED <<part, vars>>

(* A behaviour stops after its last call, or in uninitialized memory.      *)
MCNext ==
  \/ Scarce(LoadNext) \/ Scarce(pc \in {"idle", "undefined"} /\ UNCHANGED vars)
  \/ InGame(Game!LoadNext) \/ InGame(gPc \in {"idle", "undefined"} /\ UNCHANGED gameVars)

mcVars == <<part, vars, gameVars>>
MCSpec ==
  /\ MCInit /\ [][MCNext]_mcVars
  /\ WF_mcVars(Scarce(Step) \/ InGame(Game!Step))
  /\ WF_mcVars(Scarce(DriveDone) \/ InGame(Game!DriveDone))
  /\ WF_mcVars(Scarce(GpuDone) \/ InGame(Game!GpuDone))

-----------------------------------------------------------------------------
(* ImageLoad's LoadReturns (image.c, file.c), scarce and in the game, where *)
(* the images are kept and the loads contained as they are when scarce.    *)
LoadsReturn ==
  /\ [](part = "game" => Game!ImagesAreKept /\ Game!LoadsAreContained)
  /\ (part = "scarce" /\ pc = "open") ~> pc \in {"idle", "undefined"}
  /\ (part = "game" /\ gPc = "open") ~> gPc \in {"idle", "undefined"}

=============================================================================
