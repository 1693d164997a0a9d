------------------------------ MODULE MCLoops ------------------------------
(***************************************************************************)
(* The loops that run once a frame and must go on: the continue icon, in   *)
(* the one scene main.c shows and in three scenes one after another, the   *)
(* shell before a disc boots, and a song of the module player, left alone  *)
(* or moved by its program.  They share no variable, so one moves in each  *)
(* behaviour and the others stay in an initial state, of which nothing is  *)
(* asked.                                                                  *)
(***************************************************************************)
EXTENDS ContinueBlink, Shell, ModSong

VARIABLES
  part,                                                     \* which one moves
  sCounter, sLength, sAlpha, sIncrement, sTimer, sDrawn, sHeld, sScenes   \* ContinueBlink

sceneVars == <<sCounter, sLength, sAlpha, sIncrement, sTimer, sDrawn, sHeld, sScenes>>

(* Songs of three rows, two patterns and two channels in which all cells   *)
(* but two are empty.  A pattern has one loop at most, of one repeat or    *)
(* more; a jump and a break do not meet in one row.                        *)
Cells == {"p", "q"} \X (0 .. 2) \X {1, 2}
Some  == {<<"B", 1>>, <<"B", 7>>, <<"D", 1>>, <<"D", 18>>, <<"E6", 2>>, <<"EE", 1>>,
          <<"F", 2>>, <<"F", 40>>}

WithCells(a, x, b, y) ==
  [table |-> <<"p", "q", "p">>,
   rows  |-> [p \in {"p", "q"} |-> [r \in 0 .. 2 |-> [c \in {1, 2} |->
                IF <<p, r, c>> = a THEN x ELSE IF <<p, r, c>> = b THEN y
                ELSE <<"-", 0>>]]]]

Together(a, x, b, y) ==
  /\ (a[1] = b[1] => {x[1], y[1]} # {"E6"})
  /\ ((a[1] = b[1] /\ a[2] = b[2]) => {x[1], y[1]} # {"B", "D"})

AllSongs ==
  {WithCells(s[1], s[2], s[3], s[4]) :
     s \in {s \in Cells \X Some \X Cells \X Some : Together(s[1], s[2], s[3], s[4])}}
FewSongs ==
  {WithCells(<<"p", 1, 1>>, x, <<"q", 2, 2>>, y) :
     x \in {<<"B", 2>>, <<"EE", 2>>, <<"F", 2>>}, y \in {<<"D", 1>>, <<"F", 1>>}}
Parked == WithCells(<<"p", 1, 1>>, <<"B", 2>>, <<"q", 2, 2>>, <<"D", 1>>)

Scenes == INSTANCE ContinueBlink WITH      \* each left at any frame, in PAL
  TextLengths <- {0, 1, 3}, tickPerSecond <- 50, MaxScenes <- 3,
  stringCounter <- sCounter, stringLength <- sLength, continueAlpha <- sAlpha,
  continueAlphaIncrement <- sIncrement, continueTimer <- sTimer,
  drawn <- sDrawn, held <- sHeld, scenes <- sScenes
Alone == INSTANCE ModSong WITH
  Songs <- AllSongs, OrdersAsked <- {}, RowsAsked <- {}

ASSUME Alone!SongsAssumption

MCInit ==
  /\ part \in {"icon", "scenes", "shell", "song", "asked"}
  /\ (part = "icon" \/ stringLength = 0) /\ Init
  /\ (part = "scenes" \/ sLength = 0) /\ Scenes!Init
  /\ (part = "shell" \/ disc = "none") /\ ShellInit
  /\ IF part = "song" THEN Alone!SongInit
     ELSE SongInit /\ (part = "asked" \/ song = Parked)

Icon(A) == part = "icon" /\ A /\ UNCHANGED <<part, sceneVars, shellVars, songVars>>
Scene(A) == part = "scenes" /\ A /\ UNCHANGED <<part, vars, shellVars, songVars>>
Shell(A) == part = "shell" /\ A /\ UNCHANGED <<part, vars, sceneVars, songVars>>
Song(A) == part \in {"song", "asked"} /\ A /\ UNCHANGED <<part, vars, sceneVars, shellVars>>

MCNext ==
  \/ Icon(Next) \/ Scene(Scenes!Next)
  \/ Shell(ShellNext) \/ Shell(left /\ UNCHANGED shellVars)   \* the disc runs
  \/ part = "song" /\ Song(Alone!SongNext)
  \/ part = "asked" /\ Song(SongNext)

(* Each loop runs on, as its module says.                                  *)
Loop ==
  \/ Icon(Renderer_DrawScene) \/ Scene(Scenes!Renderer_DrawScene)
  \/ Shell(Frame) \/ Song(MOD_Poll)
mcVars == <<part, vars, sceneVars, shellVars, songVars>>
MCSpec ==
  /\ MCInit /\ [][MCNext]_mcVars
  /\ WF_mcVars(Loop) /\ WF_mcVars(Shell(Leave))
  /\ WF_mcVars(Shell(DriveAnswers)) /\ WF_mcVars(Shell(DmaEnds))

-----------------------------------------------------------------------------
(* ContinueBlink's NoFlicker and BlinksForever (scene.c, timer.c), of      *)
(* scenes that meet the static variables as the last one left them.        *)
ScenesBlinkOn ==
  /\ Scenes!NoFlicker
  /\ []<>(part = "scenes" => sDrawn = 0)
  /\ []<>(part = "scenes" => sDrawn = Scenes!FullAlpha)

(* Shell's DiscBoots and NoDiscIsShown (shell/cdrom.c, shell/main.c).      *)
ShellAnswers ==
  /\ (part = "shell" /\ disc = "game") ~> (left \/ dropped \/ disc # "game")
  /\ (part = "shell" /\ disc \in {"none", "audio"}) ~>
       (wasError \/ disc \notin {"none", "audio"} \/ scheduleBoot \/ dropped)

(* ModSong's PositionAskedFor and SongGoesOn (modplayer.c).                *)
SongIsFollowed ==
  /\ PositionAskedFor
  /\ \A o \in 1 .. 3 : []((part = "song" /\ ~Jumps) => <>(rowPointer[1] + 1 = o))

=============================================================================
