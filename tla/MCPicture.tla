----------------------------- MODULE MCPicture -----------------------------
(***************************************************************************)
(* What a frame draws, each part with a behaviour of its own: the flakes,  *)
(* an image that lies across pages of VRAM, a text, and the tables the GPU *)
(* walks.  They share no variable; of those that stay in an initial state  *)
(* nothing is asked.                                                       *)
(***************************************************************************)
EXTENDS Snow, DrawImage, DrawText, Frame

VARIABLE part      \* which one moves

(* The flake: the sprite of SNOW.TIM, one word wide and eight rows high,   *)
(* with every velocity, from the edges of the screen and from its middle.  *)
MCAxes ==
  { [edge |-> 320, size |-> 1, starts |-> {0, 160, 319}, velocities |-> 10 .. 19],
    [edge |-> 480, size |-> 8, starts |-> {0, 240, 479}, velocities |-> 20 .. 49] }

(* The image: its edges and sizes come from the values around a page       *)
(* border and from the images of the game, at the corner of the screen and *)
(* where a flake leaves it, with one, three and all entries of the texture *)
(* table left.                                                             *)
MCImages ==
  { r \in [mode : {"4bit", "8bit", "16bit"}, x : {320, 383, 384, 400, 447, 480, 895, 959},
           y : {0, 32, 255, 256, 480}, w : {1, 2, 40, 63, 64, 65, 80, 129, 160, 256},
           h : {1, 16, 116, 256, 257, 480}] :
      r.x + r.w =< 1024 /\ r.y + r.h =< 512 }
MCPositions == {<<0, 0>>, <<319, -8>>}
Dot == [mode |-> "4bit", x |-> 320, y |-> 0, w |-> 1, h |-> 1]

(* The text: on a screen of ten pixels, lines fill up exactly, by one      *)
(* pixel too many, and by a space.  The glyphs are the narrowest of the    *)
(* font and one of its widest.                                             *)
MCCharData == [narrow |-> [u |-> 0, v |-> 40, w |-> 2], wide |-> [u |-> 154, v |-> 0, w |-> 5]]
MCTexts == UNION { [1 .. n -> {"narrow", "wide", "space", "newline"}] : n \in 0 .. 6 }

(* The frame: a table of six entries, text and images that fit exactly, an *)
(* image one slice too many, one and two glyphs too many, nothing at all.  *)
Bar == [slices |-> 1, page |-> "bar", semi |-> TRUE]
Background(n) == [slices |-> n, page |-> "background", semi |-> FALSE]
Nothing == [glyphs |-> 0, images |-> <<>>]
MCFrames ==
  { Nothing,
    [glyphs |-> 1, images |-> <<Bar, Background(2)>>],
    [glyphs |-> 2, images |-> <<Bar, Background(2)>>],
    [glyphs |-> 2, images |-> <<Background(3), Bar>>],
    [glyphs |-> 5, images |-> <<Bar>>],
    [glyphs |-> 6, images |-> <<Bar, Background(2)>>],
    [glyphs |-> 7, images |-> <<Bar>>] }

MCInit ==
  /\ part \in {"flake", "image", "text", "frame"}
  /\ part = "flake" \/ (/\ tickPerSecond = 60 /\ axis = CHOOSE a \in Axes : a.edge = 320
                        /\ position = 0 /\ velocity = 10)
  /\ Init
  /\ part = "image" \/ (image = Dot /\ pos = <<0, 0>> /\ free = 1)
  /\ DrawInit
  /\ part = "text" \/ (text = <<>> /\ displayType = NORMAL)
  /\ TextInit
  /\ part = "frame" \/ frame = Nothing
  /\ FrameInit

Flake(A) == part = "flake" /\ A /\ UNCHANGED <<part, drawVars, textVars, frameVars>>
Image(A) == part = "image" /\ A /\ UNCHANGED <<part, vars, textVars, frameVars>>
Write(A) == part = "text" /\ A /\ UNCHANGED <<part, vars, drawVars, frameVars>>
Shown(A) == part = "frame" /\ A /\ UNCHANGED <<part, vars, drawVars, textVars>>

MCNext ==
  \/ Flake(SnowSystem_Update)
  \/ Image(DrawNext) \/ Image(result # "none" /\ UNCHANGED drawVars)
  \/ Write(TextNext) \/ Shown(FrameNext)

(* The main loop, and with it each of these, goes on; so does the GPU.     *)
mcVars == <<part, vars, drawVars, textVars, frameVars>>
MCSpec ==
  /\ MCInit /\ [][MCNext]_mcVars
  /\ WF_mcVars(Flake(SnowSystem_Update) \/ Image(DrawNext) \/ Write(TextNext)
               \/ Shown(Cpu))
  /\ WF_mcVars(Shown(Walk))

-----------------------------------------------------------------------------
(* Snow's SnowsForever, DrawImage's CallReturns, DrawText's TextIsWritten, *)
(* Frame's TablesStableWhileDrawn and FrameCompletes (effects.c, image.c,  *)
(* font.c, renderer.c): every part of the picture comes to its end, with   *)
(* the tables left alone while the GPU walks them.                         *)
PictureGoesOn ==
  /\ []<>(part = "flake" => Ftoi(position) = 0)
  /\ []<>(part = "flake" => Ftoi(position) = axis.edge - 1)
  /\ <>(part = "image" => result # "none")
  /\ <>[](part = "text" /\ textPc = "called" => written = 1 /\ AllDrawn)
  /\ (part = "frame" /\ pc = "drawsync" /\ TextFits(frame)) ~> pc = "vsync"
  /\ TablesStableWhileDrawn

=============================================================================
