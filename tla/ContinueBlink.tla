--------------------------- MODULE ContinueBlink ---------------------------
(***************************************************************************)
(* The part of Renderer_DrawScene (scene.c) that shows the continue icon   *)
(* once the text is written, with the typewriter counter of                *)
(* Renderer_DrawText (font.c) and the tick timer (timer.c).                *)
(*                                                                         *)
(* The counter and the alpha belong to the scene; the increment and the    *)
(* timer are static variables of Renderer_DrawScene and outlive it.  The   *)
(* program as it is shows one scene (MaxScenes = 1); with more, scene.h's  *)
(* interface is used again and the static variables are met as the last    *)
(* scene left them.                                                        *)
(***************************************************************************)
EXTENDS Integers

CONSTANTS
  TextLengths,      \* lengths of the texts scenes show
  tickPerSecond,    \* set once, by Renderer_Init: 60 in NTSC, 50 in PAL
  MaxScenes         \* bound: scenes shown in one behaviour

ASSUME TextAssumption == TextLengths \subseteq Nat
ASSUME TicksAssumption == tickPerSecond \in {50, 60}
ASSUME ScenesAssumption == MaxScenes \in Nat \ {0}

VARIABLES
  stringCounter, stringLength,  \* characters shown, and strlen(text)
  continueAlpha,            \* of the scene
  continueAlphaIncrement, continueTimer,  \* static in Renderer_DrawScene
  drawn,    \* the brightness the icon was last drawn with, Hidden if it was not
  held,     \* history: frames in a row it was drawn with full brightness
  scenes    \* scenes shown so far, for the bound

vars == <<stringCounter, stringLength, continueAlpha,
          continueAlphaIncrement, continueTimer, drawn, held, scenes>>

Hidden == -1
FullAlpha == 128

-----------------------------------------------------------------------------
(* timer.c *)

Timer == [counter : Nat, end : Nat, counting : BOOLEAN]

Timer_Start(tickCount) == [counter |-> 0, end |-> tickCount, counting |-> TRUE]

Running(t) == t.counting /\ t.counter < t.end
Expires(t) == t.counting /\ t.counter >= t.end

(* What Timer_Update makes of timer t; it answers Finished iff Expires(t). *)
Timer_Update(t) ==
  [counter |-> IF Running(t) THEN t.counter + 1 ELSE t.counter,
   end |-> t.end, counting |-> Running(t)]

-----------------------------------------------------------------------------

(* Scene_Init has set up the first scene; the static variables have their   *)
(* initial values.                                                          *)
Init ==
  /\ stringLength \in TextLengths
  /\ stringCounter = 0
  /\ continueAlpha = 0
  /\ continueAlphaIncrement = 2
  /\ continueTimer = [counter |-> 0, end |-> 0, counting |-> FALSE]
  /\ drawn = Hidden
  /\ held = 0
  /\ scenes = 1

(* Scene_Init for the next scene, with a text of n characters. *)
Scene_InitKeepsAlpha(n) ==   \* mutant: continueAlpha is not reset
  /\ scenes < MaxScenes
  /\ scenes' = scenes + 1
  /\ stringLength' = n
  /\ stringCounter' = 0
  /\ drawn' = Hidden
  /\ held' = 0
  /\ UNCHANGED <<continueAlpha, continueAlphaIncrement, continueTimer>>

Scene_Init(n) ==
  /\ scenes < MaxScenes
  /\ scenes' = scenes + 1
  /\ stringLength' = n
  /\ stringCounter' = 0
  /\ continueAlpha' = 0
  /\ drawn' = Hidden
  /\ held' = 0
  /\ UNCHANGED <<continueAlphaIncrement, continueTimer>>

(* Renderer_DrawText shows one more character, until all are shown. *)
TypeWriter ==
  stringCounter' = IF stringCounter < stringLength THEN stringCounter + 1
                                                   ELSE stringCounter
TextFinished == stringCounter' = stringLength

Clamp(a) == IF a >= FullAlpha THEN FullAlpha ELSE IF a =< 0 THEN 0 ELSE a

(* Ticks of the pause at full brightness: tickPerSecond >> 2. *)
PauseTicks == tickPerSecond \div 4

(* The alpha has reached the top and the pause has not begun. *)
StartsPauseAgain(alpha) ==   \* mutant: whether the timer counts is not asked
  alpha > 0 /\ alpha >= FullAlpha

StartsPause(alpha) == alpha > 0 /\ alpha >= FullAlpha /\ ~continueTimer.counting

(* The direction of the alpha, before the timer is asked. *)
Turn(alpha) ==
  IF alpha =< 0 THEN 2
  ELSE IF StartsPause(alpha) THEN 0
  ELSE continueAlphaIncrement

(* A frame with the text finished: draw the icon, move the alpha, turn at   *)
(* the bottom, pause at the top, and go down when the pause is over.        *)
DrawContinue ==
  LET shown == Clamp(continueAlpha)
      alpha == shown + continueAlphaIncrement
      timer == IF StartsPause(alpha) THEN Timer_Start(PauseTicks)
                                     ELSE continueTimer
  IN /\ drawn' = shown
     /\ held' = IF shown = FullAlpha THEN held + 1 ELSE 0
     /\ continueAlpha' = alpha
     /\ continueTimer' = Timer_Update(timer)
     /\ continueAlphaIncrement' = IF Expires(timer) THEN -2 ELSE Turn(alpha)

(* A frame with the text still being written.  The timer is left alone. *)
Reset ==
  /\ continueAlpha' = 0
  /\ continueAlphaIncrement' = 2
  /\ drawn' = Hidden
  /\ held' = 0
  /\ UNCHANGED continueTimer

Renderer_DrawScene ==
  /\ TypeWriter
  /\ \/ TextFinished /\ DrawContinue
     \/ ~TextFinished /\ Reset
  /\ UNCHANGED <<stringLength, scenes>>

Next == Renderer_DrawScene \/ \E n \in TextLengths : Scene_Init(n)

(* The main loop of main.c draws a frame every time round. *)
Spec == Init /\ [][Next]_vars /\ WF_vars(Renderer_DrawScene)

-----------------------------------------------------------------------------

(* What the variables hold; the alpha passes 0 by at most one step, and     *)
(* never passes full brightness.                                            *)
TypeOK ==
  /\ stringLength \in TextLengths
  /\ stringCounter \in 0 .. stringLength
  /\ continueAlpha \in -2 .. FullAlpha
  /\ continueAlphaIncrement \in {-2, 0, 2}
  /\ continueTimer \in Timer
  /\ drawn \in Hidden .. FullAlpha
  /\ held \in Nat
  /\ scenes \in 1 .. MaxScenes

(* While a scene is shown the icon never jumps: it appears dark, stays      *)
(* until the scene ends, and changes by at most one step a frame, whatever  *)
(* the last scene left in the static variables (scene.c:114-151).           *)
NoFlicker ==
  [][scenes' = scenes =>
       \/ drawn' = Hidden /\ drawn = Hidden
       \/ drawn' = 0 /\ drawn = Hidden
       \/ drawn # Hidden /\ drawn' # Hidden /\ drawn' - drawn \in {-2, 0, 2}]_vars

(* The icon keeps blinking, and no scene stops it for good: it is dark      *)
(* again and again, and at full brightness again and again                  *)
(* (scene.c:114-151, timer.c:14-26).                                        *)
BlinksForever == []<>(drawn = 0) /\ []<>(drawn = FullAlpha)

(* "Pause the blinking for half a second" (scene.c:134): when the icon      *)
(* begins to dim, it has been at full brightness for that long.             *)
HalfSecondPause ==
  [][drawn = FullAlpha /\ drawn' < drawn => 2 * held >= tickPerSecond]_vars

(* Seen in steps of 2, one scene's icon blinks as Blink says, with one      *)
(* frame more at full brightness than the pause has ticks                   *)
(* (scene.c:133-145, timer.c:14-26).                                        *)
Ascending == drawn = Hidden \/ drawn = FullAlpha \/ continueAlpha > drawn
Seen ==
  INSTANCE Blink WITH Full <- FullAlpha \div 2, Hold <- PauseTicks + 1,
                      level <- IF drawn = Hidden THEN Hidden ELSE drawn \div 2,
                      rising <- Ascending
ImplementsBlink == Seen!Spec

=============================================================================
