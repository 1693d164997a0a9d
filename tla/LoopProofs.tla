----------------------------- MODULE LoopProofs -----------------------------
(***************************************************************************)
(* Proofs about the loops that run once a frame: the continue icon never   *)
(* jumps, however many scenes are shown, and one scene's icon blinks as    *)
(* Blink says (ContinueBlink); the shell boots nothing but a disc with a   *)
(* program, and from a black screen (Shell); a song's voices keep to the   *)
(* volume the program gave the music and its rows play the notes they ask  *)
(* for (ModVoice); the player finds the module wherever it was moved       *)
(* (ModLoad); a row lasts its speed and its delay, and the one after it is *)
(* the one asked for (ModSong).                                            *)
(***************************************************************************)
EXTENDS ContinueBlink, Shell, ModSong, ModVoice, ModLoad, WellFoundedInduction, TLAPS

(* The pause has 12 or 15 ticks; the proofs need no more than this. *)
LEMMA PauseRange == PauseTicks \in 1 .. 15
  BY TicksAssumption, SMT DEF PauseTicks

(* What Timer_Update makes of a timer, field by field. *)
LEMMA TimerUpdate ==
  ASSUME NEW t \in Timer
  PROVE  LET u == Timer_Update(t)
         IN /\ u \in Timer
            /\ u.counting <=> Running(t)
            /\ u.end = t.end
            /\ u.counter = IF Running(t) THEN t.counter + 1 ELSE t.counter
<1>1. Running(t) \in BOOLEAN
  BY DEF Running
<1> QED BY <1>1, SMT DEF Timer_Update, Timer

-----------------------------------------------------------------------------
(* Any number of scenes.  A scene may begin with the timer of the last one  *)
(* still counting; it then runs out long before the alpha can reach the     *)
(* top, because the alpha and twice the ticks left never exceed twice the   *)
(* pause.                                                                   *)

TimerInv ==
  /\ continueTimer.counter =< continueTimer.end
  /\ continueTimer.counting => continueTimer.end = PauseTicks

Even(a) == a = 2 * (a \div 2)

AlphaInv ==
  /\ Even(continueAlpha)
  /\ continueAlphaIncrement = 2 => continueAlpha =< FullAlpha - 2
  /\ continueAlphaIncrement = 0 => /\ continueTimer.counting
                                   /\ continueAlpha \in {0, FullAlpha}
  /\ continueAlphaIncrement = -2 => ~continueTimer.counting
  /\ continueTimer.counting /\ continueAlphaIncrement = 2
       => continueAlpha + 2 * (continueTimer.end - continueTimer.counter)
            =< 2 * PauseTicks

(* What the next frame will draw differs from the last by one step. *)
ShownInv ==
  /\ drawn = Hidden => continueAlpha = 0
  /\ drawn # Hidden => /\ stringCounter = stringLength
                       /\ Clamp(continueAlpha) - drawn \in {-2, 0, 2}

Inv == TypeOK /\ TimerInv /\ AlphaInv /\ ShownInv

(* Init establishes the invariant. *)
LEMMA InitInv == Init => Inv
  BY TextAssumption, ScenesAssumption, PauseRange, SMT
     DEF Init, Timer, Inv, TypeOK, TimerInv, AlphaInv, ShownInv, Hidden, FullAlpha,
         Clamp, Even

(* A frame with the text finished keeps it. *)
LEMMA DrawContinueInv ==
  ASSUME Inv, DrawContinue, TextFinished, TypeWriter,
         UNCHANGED <<stringLength, scenes>>
  PROVE  Inv'
<1> DEFINE shown == Clamp(continueAlpha)
           alpha == shown + continueAlphaIncrement
           timer == IF StartsPause(alpha) THEN Timer_Start(PauseTicks)
                                          ELSE continueTimer
<1>1. /\ drawn' = shown
      /\ held' = IF shown = FullAlpha THEN held + 1 ELSE 0
      /\ continueAlpha' = alpha
      /\ continueTimer' = Timer_Update(timer)
      /\ continueAlphaIncrement' = IF Expires(timer) THEN -2 ELSE Turn(alpha)
  BY DEF DrawContinue
<1>2. /\ shown = Clamp(continueAlpha) /\ shown \in 0 .. FullAlpha
      /\ alpha = shown + continueAlphaIncrement
      /\ continueAlphaIncrement \in {-2, 0, 2}
  BY SMT DEF Clamp, Inv, TypeOK, FullAlpha
<1>3. alpha \in -2 .. FullAlpha /\ Even(alpha)
  BY PauseRange, SMT
     DEF Clamp, Inv, TypeOK, AlphaInv, TimerInv, FullAlpha, Even
<1>4. /\ StartsPause(alpha) => /\ timer \in Timer /\ timer.counting
                              /\ timer.counter = 0 /\ timer.end = PauseTicks
      /\ ~StartsPause(alpha) => timer = continueTimer
  BY PauseRange, SMT DEF Timer, Timer_Start
<1> HIDE DEF shown, alpha, timer
<1>5. /\ timer \in Timer /\ timer.counter =< timer.end
      /\ timer.counting => timer.end = PauseTicks
  BY <1>4, PauseRange, SMT DEF Inv, TypeOK, TimerInv
<1>6. /\ continueTimer' \in Timer
      /\ continueTimer'.counting <=> Running(timer)
      /\ continueTimer'.end = timer.end
      /\ continueTimer'.counter = IF Running(timer) THEN timer.counter + 1
                                                     ELSE timer.counter
  BY <1>1, <1>5, TimerUpdate
<1>7. TimerInv'
  BY <1>5, <1>6, SMT DEF TimerInv, Timer, Running, PauseTicks
<1>8. continueAlphaIncrement' \in {-2, 0, 2}
  BY <1>1, SMT DEF Turn, Inv, TypeOK
<1>9. TypeOK'
  BY <1>1, <1>2, <1>3, <1>6, <1>8, TextAssumption, SMT
     DEF Inv, TypeOK, FullAlpha, Hidden, TypeWriter
<1>10. AlphaInv'
  <2>1. CASE StartsPause(alpha)
    <3>1. Running(timer) /\ ~Expires(timer) /\ continueAlphaIncrement' = 0
          /\ alpha = FullAlpha
      BY <2>1, <1>1, <1>3, <1>4, PauseRange, SMT
         DEF StartsPause, Running, Expires, Turn, FullAlpha
    <3> QED BY <3>1, <1>1, <1>3, <1>6, SMT DEF AlphaInv, FullAlpha
  <2>2. CASE ~StartsPause(alpha) /\ continueTimer.counting
    BY <2>2, <1>1, <1>2, <1>3, <1>4, <1>6, PauseRange, SMT
       DEF Timer, Inv, TypeOK, TimerInv, AlphaInv, Running, Expires, Turn,
           FullAlpha, Clamp, PauseTicks
  <2>3. CASE ~StartsPause(alpha) /\ ~continueTimer.counting
    <3>1. alpha < FullAlpha
      BY <2>3, <1>3, SMT DEF StartsPause, FullAlpha
    <3>2. ~continueTimer'.counting /\ continueAlphaIncrement' = Turn(alpha)
      BY <2>3, <1>1, <1>4, <1>6 DEF Running, Expires
    <3>3. Turn(alpha) = IF alpha =< 0 THEN 2 ELSE continueAlphaIncrement
      BY <2>3 DEF Turn
    <3>4. continueAlphaIncrement \in {-2, 2}
      BY <2>3, <1>2, SMT DEF Inv, AlphaInv
    <3>5. continueAlphaIncrement = 2 => alpha =< FullAlpha - 2
      BY <2>3, <3>1, <1>3, SMT DEF FullAlpha, Even
    <3> QED BY <3>1, <3>2, <3>3, <3>4, <3>5, <1>1, <1>3, SMT
               DEF AlphaInv, FullAlpha
  <2> QED BY <2>1, <2>2, <2>3
<1>11. ShownInv'
  <2>1. stringCounter' = stringLength'
    BY DEF TextFinished
  <2>2. shown # Hidden /\ Clamp(alpha) - shown \in {-2, 0, 2}
    <3>1. /\ shown \in 0 .. FullAlpha /\ alpha \in -2 .. FullAlpha
          /\ alpha - shown \in {-2, 0, 2}
      BY <1>2, <1>3, SMT DEF FullAlpha
    <3> QED BY <3>1, <1>3, SMT DEF Clamp, FullAlpha, Hidden, Even
  <2>3. Clamp(continueAlpha') - drawn' \in {-2, 0, 2} /\ drawn' # Hidden
    BY <1>1, <2>2
  <2> QED BY <2>1, <2>3 DEF ShownInv, Clamp, FullAlpha
<1> QED BY <1>7, <1>9, <1>10, <1>11 DEF Inv

(* So does a frame with the text unfinished, which starts the alpha over.   *)
LEMMA ResetInv ==
  ASSUME Inv, Reset, TypeWriter, UNCHANGED <<stringLength, scenes>>
  PROVE  Inv'
  BY PauseRange, TextAssumption, SMT
     DEF Timer, Inv, TypeOK, TimerInv, AlphaInv, ShownInv, Reset, TypeWriter, Hidden,
         FullAlpha, Clamp, Even

(* And the next scene, which finds the increment and the timer as they are. *)
LEMMA SceneInv ==
  ASSUME Inv, NEW n \in TextLengths, Scene_Init(n)
  PROVE  Inv'
  BY PauseRange, TextAssumption, ScenesAssumption, SMT
     DEF Timer, Inv, TypeOK, TimerInv, AlphaInv, ShownInv, Scene_Init, Hidden,
         FullAlpha, Clamp, Even

LEMMA NextInv == Inv /\ [Next]_vars => Inv'
<1> SUFFICES ASSUME Inv, [Next]_vars PROVE Inv'
  OBVIOUS
<1>1. CASE Renderer_DrawScene
  BY <1>1, DrawContinueInv, ResetInv DEF Renderer_DrawScene
<1>2. CASE \E n \in TextLengths : Scene_Init(n)
  BY <1>2, SceneInv
<1>3. CASE UNCHANGED vars
  BY <1>3 DEF vars, Inv, TypeOK, TimerInv, AlphaInv, ShownInv
<1> QED BY <1>1, <1>2, <1>3 DEF Next

(* The alpha and the timer stay in their ranges, however many scenes are    *)
(* shown, each left at any frame (scene.c:114-151, timer.c:3-26).           *)
THEOREM TypeCorrect == Spec => []TypeOK
<1>1. Inv => TypeOK
  BY DEF Inv
<1> QED BY <1>1, InitInv, NextInv, PTL DEF Spec

(* A scene's icon never jumps, whatever the last scene left in the static   *)
(* variables (scene.c:114-151).                                             *)
THEOREM NeverFlickers == Spec => NoFlicker
<1> DEFINE Smooth ==
      scenes' = scenes =>
        \/ drawn' = Hidden /\ drawn = Hidden
        \/ drawn' = 0 /\ drawn = Hidden
        \/ drawn # Hidden /\ drawn' # Hidden /\ drawn' - drawn \in {-2, 0, 2}
<1>1. Inv /\ [Next]_vars => [Smooth]_vars
  <2> SUFFICES ASSUME Inv, Next PROVE Smooth
    OBVIOUS
  <2>1. CASE Renderer_DrawScene
    <3>1. CASE TextFinished /\ DrawContinue
      <4>1. drawn' = Clamp(continueAlpha)
        BY <3>1 DEF DrawContinue
      <4> QED BY <4>1, SMT DEF Inv, ShownInv, Clamp, Hidden, FullAlpha, TypeOK
    <3>2. CASE ~TextFinished /\ Reset
      BY <2>1, <3>2, TextAssumption, SMT
         DEF Inv, TypeOK, ShownInv, Reset, TypeWriter, TextFinished,
             Renderer_DrawScene, Hidden
    <3> QED BY <2>1, <3>1, <3>2 DEF Renderer_DrawScene
  <2>2. CASE \E n \in TextLengths : Scene_Init(n)
    BY <2>2, SMT DEF Scene_Init, Inv, TypeOK
  <2> QED BY <2>1, <2>2 DEF Next
<1> QED BY <1>1, InitInv, NextInv, PTL DEF Spec, NoFlicker

-----------------------------------------------------------------------------
(* One scene.  The icon goes through the phases below, each of which fixes  *)
(* every variable but how far it has come.                                  *)

Pausing == continueTimer.counting

HiddenPhase ==
  /\ drawn = Hidden /\ continueAlpha = 0 /\ continueAlphaIncrement = 2
  /\ ~Pausing /\ held = 0
RisePhase ==
  /\ drawn \in 0 .. 124 /\ Even(drawn) /\ continueAlpha = drawn + 2
  /\ continueAlphaIncrement = 2 /\ ~Pausing /\ held = 0
TopPhase ==
  /\ Pausing /\ continueTimer.end = PauseTicks
  /\ continueTimer.counter \in 1 .. PauseTicks
  /\ drawn = IF continueTimer.counter = 1 THEN 126 ELSE 128
  /\ continueAlpha = 128 /\ continueAlphaIncrement = 0
  /\ held = continueTimer.counter - 1
TopEndPhase ==
  /\ ~Pausing /\ drawn = 128 /\ continueAlpha = 128
  /\ continueAlphaIncrement = -2 /\ held = PauseTicks
FallPhase ==
  /\ \/ drawn = 128 /\ held = PauseTicks + 1
     \/ drawn \in 4 .. 126 /\ Even(drawn) /\ held = 0
  /\ ~Pausing /\ continueAlpha = drawn - 2 /\ continueAlphaIncrement = -2
BottomPhase ==
  /\ drawn = 2 /\ held = 0 /\ ~Pausing
  /\ continueAlpha = 0 /\ continueAlphaIncrement = 2

Shown == stringCounter = stringLength /\ drawn # Hidden
PhaseInv ==
  /\ continueTimer \in Timer
  /\ \/ HiddenPhase
     \/ Shown /\ (RisePhase \/ TopPhase \/ TopEndPhase \/ FallPhase
                  \/ BottomPhase)

(* A frame that leaves the timer alone. *)
LEMMA DrawIdle ==
  ASSUME continueTimer \in Timer, DrawContinue, ~Pausing,
         NEW a \in Int, a = Clamp(continueAlpha) + continueAlphaIncrement,
         a < FullAlpha
  PROVE  /\ drawn' = Clamp(continueAlpha)
         /\ held' = IF drawn' = FullAlpha THEN held + 1 ELSE 0
         /\ continueAlpha' = a
         /\ continueTimer' \in Timer /\ ~Pausing'
         /\ continueAlphaIncrement' = IF a =< 0 THEN 2
                                                ELSE continueAlphaIncrement
<1>1. ~StartsPause(a)
  BY SMT DEF StartsPause, FullAlpha
<1>2. /\ drawn' = Clamp(continueAlpha)
      /\ held' = IF drawn' = FullAlpha THEN held + 1 ELSE 0
      /\ continueAlpha' = a
      /\ continueTimer' = Timer_Update(continueTimer)
      /\ continueAlphaIncrement' = IF Expires(continueTimer) THEN -2
                                                              ELSE Turn(a)
  BY <1>1 DEF DrawContinue
<1>3. ~Expires(continueTimer) /\ ~Running(continueTimer)
  BY DEF Expires, Running, Pausing
<1> QED BY <1>1, <1>2, <1>3, TimerUpdate DEF Turn, Pausing

(* The icon appears. *)
LEMMA StepHidden ==
  ASSUME continueTimer \in Timer, HiddenPhase, DrawContinue
  PROVE  RisePhase' /\ continueTimer' \in Timer /\ drawn' # Hidden /\ Seen!Appear
<1>1. /\ drawn' = 0 /\ held' = 0 /\ continueAlpha' = 2
      /\ continueTimer' \in Timer /\ ~Pausing' /\ continueAlphaIncrement' = 2
  BY DrawIdle, SMT DEF HiddenPhase, Clamp, FullAlpha
<1>2. RisePhase' /\ drawn' # Hidden
  BY <1>1, SMT DEF RisePhase, Even, Hidden
<1>3. Seen!Appear
  BY <1>1, SMT DEF Seen!Appear, Seen!Hidden, Seen!Dark, HiddenPhase, Hidden,
                   Ascending, FullAlpha
<1> QED BY <1>1, <1>2, <1>3

(* It brightens by one step, short of the top. *)
LEMMA StepRise ==
  ASSUME continueTimer \in Timer, RisePhase, drawn < 124, DrawContinue
  PROVE  RisePhase' /\ continueTimer' \in Timer /\ drawn' # Hidden
         /\ Seen!Brighten
<1>1. drawn \in 0 .. 122
  BY SMT DEF RisePhase, Even
<1>2. /\ drawn' = drawn + 2 /\ held' = 0 /\ continueAlpha' = drawn + 4
      /\ continueTimer' \in Timer /\ ~Pausing' /\ continueAlphaIncrement' = 2
  <2>1. drawn + 4 = Clamp(continueAlpha) + continueAlphaIncrement
        /\ Clamp(continueAlpha) = drawn + 2
    BY <1>1, SMT DEF RisePhase, Clamp, FullAlpha
  <2> QED BY <1>1, <2>1, DrawIdle, SMT DEF RisePhase, FullAlpha
<1>3. RisePhase' /\ drawn' # Hidden
  BY <1>1, <1>2, SMT DEF RisePhase, Even, Hidden
<1>4. Seen!Brighten
  BY <1>1, <1>2, SMT DEF Seen!Brighten, Seen!Dark, RisePhase, Hidden, Even,
                         Ascending, FullAlpha
<1> QED BY <1>2, <1>3, <1>4

(* The last step below the top starts the timer, which counts one tick in   *)
(* the same frame.                                                          *)
LEMMA StepPause ==
  ASSUME continueTimer \in Timer, RisePhase, drawn = 124, DrawContinue
  PROVE  TopPhase' /\ continueTimer' \in Timer /\ drawn' # Hidden
         /\ Seen!Brighten
<1> DEFINE t == Timer_Start(PauseTicks)
<1>1. Clamp(continueAlpha) = 126 /\ StartsPause(128)
  BY SMT DEF RisePhase, Clamp, FullAlpha, StartsPause, Pausing
<1>2. t \in Timer /\ Running(t) /\ ~Expires(t) /\ t.counter = 0
      /\ t.end = PauseTicks
  BY PauseRange, SMT DEF Timer, Timer_Start, Running, Expires
<1>3. /\ drawn' = 126
      /\ held' = 0
      /\ continueAlpha' = 128
      /\ continueTimer' = Timer_Update(t)
      /\ continueAlphaIncrement' = Turn(128)
  <2>1. Clamp(continueAlpha) + continueAlphaIncrement = 128
    BY <1>1, SMT DEF RisePhase
  <2> QED BY <1>1, <1>2, <2>1, SMT DEF DrawContinue, FullAlpha
<1>4. Turn(128) = 0
  BY <1>1, SMT DEF Turn
<1>5. /\ continueTimer' \in Timer /\ Pausing'
      /\ continueTimer'.end = PauseTicks /\ continueTimer'.counter = 1
  BY <1>2, <1>3, TimerUpdate, SMT DEF Pausing
<1>6. TopPhase' /\ drawn' # Hidden
  BY <1>3, <1>4, <1>5, PauseRange, SMT DEF TopPhase, Hidden, PauseTicks
<1>7. Seen!Brighten
  BY <1>3, SMT DEF Seen!Brighten, Seen!Dark, RisePhase, Hidden, Ascending,
                   FullAlpha
<1> QED BY <1>5, <1>6, <1>7

(* A tick of the pause, or its end; the icon is drawn at full brightness.   *)
LEMMA StepTop ==
  ASSUME continueTimer \in Timer, TopPhase, DrawContinue
  PROVE  /\ TopPhase' \/ TopEndPhase'
         /\ continueTimer' \in Timer /\ drawn' # Hidden
         /\ Seen!Brighten \/ Seen!Stay
<1> DEFINE c == continueTimer.counter
<1>1. ~StartsPause(128) /\ Turn(128) = 0
  BY SMT DEF StartsPause, Turn, TopPhase, Pausing
<1>2. /\ drawn' = 128 /\ held' = held + 1 /\ continueAlpha' = 128
      /\ continueTimer' = Timer_Update(continueTimer)
      /\ continueAlphaIncrement' = IF Expires(continueTimer) THEN -2 ELSE 0
  <2>1. Clamp(continueAlpha) = 128
        /\ Clamp(continueAlpha) + continueAlphaIncrement = 128
    BY SMT DEF TopPhase, Clamp, FullAlpha
  <2> QED BY <1>1, <2>1 DEF DrawContinue, FullAlpha
<1>3. /\ continueTimer' \in Timer
      /\ Pausing' <=> Running(continueTimer)
      /\ continueTimer'.end = PauseTicks
      /\ continueTimer'.counter = IF Running(continueTimer) THEN c + 1 ELSE c
  BY <1>2, TimerUpdate DEF TopPhase, Pausing
<1>4. c \in 1 .. PauseTicks /\ held = c - 1 /\ held' = c
  BY <1>2, PauseRange, SMT DEF TopPhase
<1>5. TopPhase' \/ TopEndPhase'
  <2>1. CASE c < PauseTicks
    <3>1. Running(continueTimer) /\ ~Expires(continueTimer)
      BY <2>1, <1>4, PauseRange, SMT
         DEF Running, Expires, TopPhase, Pausing
    <3>2. continueTimer'.counter = c + 1 /\ Pausing'
          /\ continueAlphaIncrement' = 0
      BY <3>1, <1>2, <1>3
    <3>3. PauseTicks' = PauseTicks
      BY DEF PauseTicks
    <3>4. /\ continueTimer'.counter \in 1 .. PauseTicks
          /\ continueTimer'.counter # 1
          /\ held' = continueTimer'.counter - 1
      BY <3>2, <2>1, <1>2, <1>4, PauseRange, SMT
    <3> QED BY <3>2, <3>3, <3>4, <1>2, <1>3, Zenon DEF TopPhase
  <2>2. CASE ~(c < PauseTicks)
    <3>1. Expires(continueTimer) /\ ~Running(continueTimer) /\ c = PauseTicks
      BY <2>2, <1>4, PauseRange, SMT
         DEF Running, Expires, TopPhase, Pausing
    <3>2. ~Pausing' /\ continueAlphaIncrement' = -2
      BY <3>1, <1>2, <1>3
    <3>3. PauseTicks' = PauseTicks
      BY DEF PauseTicks
    <3> QED BY <3>1, <3>2, <3>3, <1>2, <1>4 DEF TopEndPhase
  <2> QED BY <2>1, <2>2
<1>6. Seen!Brighten \/ Seen!Stay
  <2>1. CASE c = 1
    <3>1. drawn = 126 /\ held' = 1
      BY <2>1, <1>4, SMT DEF TopPhase
    <3> QED BY <3>1, <1>2, SMT
               DEF Seen!Brighten, Seen!Dark, TopPhase, Hidden, Ascending,
                   FullAlpha
  <2>2. CASE c # 1
    <3>1. drawn = 128 /\ held < PauseTicks + 1
      BY <2>2, <1>4, PauseRange, SMT DEF TopPhase
    <3> QED BY <3>1, <1>2, SMT
               DEF Seen!Stay, Hidden, Ascending, FullAlpha
  <2> QED BY <2>1, <2>2
<1>7. drawn' # Hidden
  BY <1>2, SMT DEF Hidden
<1> QED BY <1>3, <1>5, <1>6, <1>7

(* The frame after the pause is still drawn at full brightness. *)
LEMMA StepTopEnd ==
  ASSUME continueTimer \in Timer, TopEndPhase, DrawContinue
  PROVE  FallPhase' /\ continueTimer' \in Timer /\ drawn' # Hidden /\ Seen!Stay
<1>1. /\ drawn' = 128 /\ held' = PauseTicks + 1 /\ continueAlpha' = 126
      /\ continueTimer' \in Timer /\ ~Pausing' /\ continueAlphaIncrement' = -2
  BY DrawIdle, PauseRange, SMT DEF TopEndPhase, Clamp, FullAlpha
<1>2. FallPhase' /\ drawn' # Hidden
  BY <1>1, PauseRange, SMT DEF FallPhase, Hidden, PauseTicks
<1>3. Seen!Stay
  BY <1>1, PauseRange, SMT
     DEF Seen!Stay, TopEndPhase, Hidden, Ascending, FullAlpha
<1> QED BY <1>1, <1>2, <1>3

(* It dims by one step, down to the last but one. *)
LEMMA StepFall ==
  ASSUME continueTimer \in Timer, FallPhase, DrawContinue
  PROVE  /\ FallPhase' \/ BottomPhase'
         /\ continueTimer' \in Timer /\ drawn' # Hidden
         /\ Seen!Dim
<1>1. drawn \in 4 .. 128 /\ Even(drawn)
  BY SMT DEF FallPhase, Even
<1>2. /\ drawn' = drawn - 2 /\ held' = 0 /\ continueAlpha' = drawn - 4
      /\ continueTimer' \in Timer /\ ~Pausing'
      /\ continueAlphaIncrement' = IF drawn = 4 THEN 2 ELSE -2
  <2>1. drawn - 4 = Clamp(continueAlpha) + continueAlphaIncrement
        /\ Clamp(continueAlpha) = drawn - 2
    BY <1>1, SMT DEF FallPhase, Clamp, FullAlpha
  <2> QED BY <1>1, <2>1, DrawIdle, SMT DEF FallPhase, FullAlpha
<1>3. FallPhase' \/ BottomPhase'
  BY <1>1, <1>2, SMT DEF FallPhase, BottomPhase, Even
<1>4. Seen!Dim
  BY <1>1, <1>2, PauseRange, SMT
     DEF Seen!Dim, Seen!Dark, FallPhase, Hidden, Even, Ascending, FullAlpha
<1>5. drawn' # Hidden
  BY <1>1, <1>2, SMT DEF Hidden
<1> QED BY <1>2, <1>3, <1>4, <1>5

(* The last step down, after which it rises again. *)
LEMMA StepBottom ==
  ASSUME continueTimer \in Timer, BottomPhase, DrawContinue
  PROVE  RisePhase' /\ continueTimer' \in Timer /\ drawn' # Hidden /\ Seen!Dim
<1>1. /\ drawn' = 0 /\ held' = 0 /\ continueAlpha' = 2
      /\ continueTimer' \in Timer /\ ~Pausing' /\ continueAlphaIncrement' = 2
  BY DrawIdle, SMT DEF BottomPhase, Clamp, FullAlpha
<1>2. RisePhase' /\ drawn' # Hidden
  BY <1>1, SMT DEF RisePhase, Even, Hidden
<1>3. Seen!Dim
  BY <1>1, SMT DEF Seen!Dim, Seen!Dark, BottomPhase, Hidden, Ascending, FullAlpha
<1> QED BY <1>1, <1>2, <1>3

(* A frame with the text unfinished comes only before the icon appears. *)
LEMMA StepReset ==
  ASSUME PhaseInv, Inv, Reset, TypeWriter, ~TextFinished, UNCHANGED stringLength
  PROVE  PhaseInv' /\ UNCHANGED <<drawn, continueAlpha, held>>
<1>1. stringCounter # stringLength
  BY TextAssumption, SMT DEF TypeWriter, TextFinished, Inv, TypeOK
<1>2. HiddenPhase
  BY <1>1 DEF PhaseInv, Shown
<1>3. HiddenPhase' /\ UNCHANGED <<drawn, continueAlpha, held>>
  BY <1>2 DEF HiddenPhase, Reset, Pausing
<1> QED BY <1>3 DEF PhaseInv, Reset

(* One scene's icon blinks as Blink says: it appears dark, brightens step   *)
(* by step, stays at full brightness for one frame more than the pause has  *)
(* ticks, dims step by step, and starts over (scene.c:114-151,              *)
(* timer.c:3-26).                                                           *)
THEOREM Blinks == ASSUME MaxScenes = 1 PROVE Spec => ImplementsBlink
<1>1. Init => PhaseInv /\ Seen!Init
  BY SMT DEF Init, PhaseInv, HiddenPhase, Pausing, Timer, Seen!Init,
             Seen!Hidden, Hidden, Ascending
<1>2. Inv /\ PhaseInv /\ [Next]_vars => PhaseInv' /\ [Seen!Next]_(Seen!blinkVars)
  <2> SUFFICES ASSUME Inv, PhaseInv, [Next]_vars
               PROVE  PhaseInv' /\ [Seen!Next]_(Seen!blinkVars)
    OBVIOUS
  <2>1. CASE Renderer_DrawScene
    <3>1. CASE TextFinished /\ DrawContinue
      <4>1. stringCounter' = stringLength'
        BY <2>1, <3>1 DEF TextFinished, Renderer_DrawScene
      <4>2. continueTimer \in Timer
        BY DEF PhaseInv
      <4>3. CASE HiddenPhase
        BY <3>1, <4>1, <4>2, <4>3, StepHidden DEF PhaseInv, Shown, Seen!Next
      <4>4. CASE RisePhase /\ drawn < 124
        BY <3>1, <4>1, <4>2, <4>4, StepRise DEF PhaseInv, Shown, Seen!Next
      <4>5. CASE RisePhase /\ drawn = 124
        BY <3>1, <4>1, <4>2, <4>5, StepPause DEF PhaseInv, Shown, Seen!Next
      <4>6. CASE TopPhase
        BY <3>1, <4>1, <4>2, <4>6, StepTop DEF PhaseInv, Shown, Seen!Next
      <4>7. CASE TopEndPhase
        BY <3>1, <4>1, <4>2, <4>7, StepTopEnd DEF PhaseInv, Shown, Seen!Next
      <4>8. CASE FallPhase
        BY <3>1, <4>1, <4>2, <4>8, StepFall DEF PhaseInv, Shown, Seen!Next
      <4>9. CASE BottomPhase
        BY <3>1, <4>1, <4>2, <4>9, StepBottom DEF PhaseInv, Shown, Seen!Next
      <4>10. RisePhase => drawn < 124 \/ drawn = 124
        BY SMT DEF RisePhase
      <4> QED BY <4>3, <4>4, <4>5, <4>6, <4>7, <4>8, <4>9, <4>10 DEF PhaseInv
    <3>2. CASE ~TextFinished /\ Reset
      BY <2>1, <3>2, StepReset
         DEF Renderer_DrawScene, Seen!blinkVars, Ascending
    <3> QED BY <2>1, <3>1, <3>2 DEF Renderer_DrawScene
  <2>2. CASE \E n \in TextLengths : Scene_Init(n)
    BY <2>2, SMT DEF Scene_Init, Inv, TypeOK
  <2>3. CASE UNCHANGED vars
    <3>1. PhaseInv'
      BY <2>3 DEF vars, PhaseInv, HiddenPhase, RisePhase, TopPhase, TopEndPhase,
                  FallPhase, BottomPhase, Pausing, Shown
    <3>2. UNCHANGED Seen!blinkVars
      BY <2>3 DEF vars, Seen!blinkVars, Ascending
    <3> QED BY <3>1, <3>2
  <2> QED BY <2>1, <2>2, <2>3 DEF Next
<1> QED BY <1>1, <1>2, InitInv, NextInv, PTL DEF Spec, ImplementsBlink, Seen!Spec

-----------------------------------------------------------------------------
(* The shell and its drive keep step: *)

Orders == {<<>>, <<1>>, <<2>>, <<3>>, <<5>>, <<3, 2>>, <<3, 5>>, <<3, 1>>, <<1, 3, 2>>}
Stopping == {"READ_PVD_DMA", "READ_PVD_PAUSE", "READ_ROOT_DMA", "READ_ROOT_PAUSE"}
Fails == cause = 5 \/ owed \in {<<5>>, <<3, 5>>}

(* What the drive has still to show after the interrupt it shows. *)
DriveInv ==
  /\ owed \in Orders /\ cause \in {0, 1, 2, 3, 5}
  /\ cause = 1 => owed \in {<<>>, <<3, 2>>, <<5>>}
  /\ cause \in {2, 5} => owed = <<>>
  /\ cause = 3 => owed \in {<<>>, <<1>>, <<2>>, <<5>>}
  /\ wait > 0 => cause = 0 /\ owed = <<>>
  /\ state \notin Stopping => owed # <<1, 3, 2>> /\ (cause = 1 => owed = <<>>)

(* What was read is of the disc in the drive while nobody exchanges it. *)
Contents == (DiscKinds \cup {"none"}) \X {"none", "pvd", "root", "other"} \X BOOLEAN
SectorInv ==
  /\ dma \in BOOLEAN /\ place \in {"none", "pvd", "root"}
  /\ sector \in Contents /\ (sector[3] => disc = sector[1])
  /\ buffer \in Contents /\ (buffer[3] => disc = buffer[1])
  /\ dma => state \in {"READ_PVD_DMA", "READ_ROOT_DMA", "RESET"} /\ cause # 2
  /\ state = "SUCCESS_DATA" => FoundBoot(sector)

(* An error beyond the twentieth needs a fault of the drive. *)
RetryInv ==
  /\ retries \in Nat /\ wait \in 0 .. FPS
  /\ faults \in 0 .. MaxFaults
  /\ state # "RESET" => retries <= 20
  /\ state = "RESET" => retries <= 21 + MaxFaults - faults
  /\ state = "RESET" /\ Fails => retries <= 20 + MaxFaults - faults

CdInv ==
  /\ state \in States \ {"ERROR"} /\ disc \in DiscKinds
  /\ DriveInv /\ SectorInv /\ RetryInv

(* The orders as the drive works through them. *)
LEMMA Tails ==
  ASSUME NEW o \in Orders, o # <<>>
  PROVE  /\ Head(o) = 1 => Tail(o) = <<>> \/ (o = <<1, 3, 2>> /\ Tail(o) = <<3, 2>>)
         /\ Head(o) \in {2, 5} => Tail(o) = <<>>
         /\ Head(o) = 3 => Tail(o) \in {<<>>, <<1>>, <<2>>, <<5>>}
         /\ Head(o) \in {1, 2, 3, 5}
         /\ Tail(o) \in Orders \ {<<1, 3, 2>>}
         /\ Head(o) = 5 \/ Tail(o) = <<5>> => o \in {<<5>>, <<3, 5>>}
         /\ Tail(o) # <<3, 5>>
<1>1. CASE o = <<1>>  BY <1>1, SMT DEF Orders
<1>2. CASE o = <<2>>  BY <1>2, SMT DEF Orders
<1>3. CASE o = <<3>>  BY <1>3, SMT DEF Orders
<1>4. CASE o = <<5>>  BY <1>4, SMT DEF Orders
<1>5. CASE o = <<3, 2>>  BY <1>5, SMT DEF Orders
<1>6. CASE o = <<3, 5>>  BY <1>6, SMT DEF Orders
<1>7. CASE o = <<3, 1>>  BY <1>7, SMT DEF Orders
<1>8. CASE o = <<1, 3, 2>>  BY <1>8, SMT DEF Orders
<1> QED BY <1>1, <1>2, <1>3, <1>4, <1>5, <1>6, <1>7, <1>8 DEF Orders

LEMMA Triples ==
  ASSUME NEW A, NEW B, NEW a \in A, NEW b \in B, NEW c \in BOOLEAN
  PROVE  /\ <<a, b, c>> \in A \X B \X BOOLEAN
         /\ <<a, b, c>>[1] = a /\ <<a, b, c>>[2] = b /\ <<a, b, c>>[3] = c
BY SMT

LEMMA Parts ==
  ASSUME NEW A, NEW B, NEW x \in A \X B \X BOOLEAN
  PROVE  x[1] \in A /\ x[2] \in B /\ x[3] \in BOOLEAN
BY SMT

(* What the DMA leaves in the drive, what the drive may hold of its disc,  *)
(* and what the shell has of a disc that was taken out.                    *)
LEMMA EmptySector == Empty \in Contents /\ ~Empty[3]
<1>1. "none" \in DiscKinds \cup {"none"} /\ "none" \in {"none", "pvd", "root", "other"}
  OBVIOUS
<1> QED BY <1>1, Triples DEF Empty, Contents

LEMMA ReadySector ==
  ASSUME disc \in DiscKinds, place \in {"none", "pvd", "root"}, NEW x \in Ready
  PROVE  x \in Contents /\ x[1] = disc
<1>1. disc \in DiscKinds \cup {"none"} /\ place \in {"none", "pvd", "root", "other"}
      /\ "other" \in {"none", "pvd", "root", "other"}
  OBVIOUS
<1>2. x = <<disc, place, TRUE>> \/ x = <<disc, "other", TRUE>>
  BY DEF Ready
<1>3. CASE x = <<disc, place, TRUE>>
  BY <1>1, <1>3, Triples DEF Contents
<1>4. CASE x = <<disc, "other", TRUE>>
  BY <1>1, <1>4, Triples DEF Contents
<1> QED BY <1>2, <1>3, <1>4

LEMMA TakenSector ==
  ASSUME NEW x \in Contents
  PROVE  LET y == <<x[1], x[2], FALSE>>
         IN  y \in Contents /\ ~y[3] /\ (FoundBoot(x) => FoundBoot(y))
<1>1. x[1] \in DiscKinds \cup {"none"} /\ x[2] \in {"none", "pvd", "root", "other"}
  BY Parts DEF Contents
<1> QED BY <1>1, Triples DEF Contents, FoundBoot

LEMMA CdInit == ShellInit => CdInv
<1> SUFFICES ASSUME ShellInit PROVE CdInv
  OBVIOUS
<1>1. DriveInv
  <2>1. owed \in Orders /\ cause = 0 /\ wait = 0 /\ state = "RESET"
    BY DEF ShellInit, Orders
  <2>2. owed # <<1, 3, 2>>
    BY SMT DEF ShellInit
  <2> QED BY <2>1, <2>2, SMT DEF DriveInv, Stopping
<1>2. SectorInv
  BY EmptySector DEF SectorInv, ShellInit
<1>3. RetryInv
  <2>1. <<3, 2>> \notin {<<5>>, <<3, 5>>}
    BY SMT
  <2> QED BY <2>1, ShellAssumption, SMT DEF ShellInit, RetryInv, Fails
<1> QED BY <1>1, <1>2, <1>3 DEF ShellInit, CdInv, States

LEMMA CdDrive == CdInv /\ DriveAnswers => CdInv'
<1> SUFFICES ASSUME CdInv, DriveAnswers PROVE CdInv'
  OBVIOUS
<1>a. owed \in Orders /\ owed # <<>>
  BY DEF CdInv, DriveInv, DriveAnswers
<1>b. /\ cause' = Head(owed) /\ owed' = Tail(owed) /\ cause = 0
      /\ (Head(owed) = 2 => ~dma)
      /\ buffer' = buffer \/ buffer' \in Ready
      /\ UNCHANGED <<state, wait, retries, sector, dma, place, disc, faults>>
  BY DEF DriveAnswers, cd
<1>1. Fails' => Fails
  BY <1>a, <1>b, Tails DEF Fails
<1>2. DriveInv'
  <2>1. /\ owed' \in Orders /\ cause' \in {0, 1, 2, 3, 5}
        /\ owed' # <<1, 3, 2>>
    BY <1>a, <1>b, Tails
  <2>2. cause' = 1
          => owed' = <<>> \/ (owed' = <<3, 2>> /\ owed = <<1, 3, 2>>)
    <3>1. Head(owed) = 1
            => Tail(owed) = <<>> \/ (owed = <<1, 3, 2>> /\ Tail(owed) = <<3, 2>>)
      BY <1>a, Tails
    <3>2. cause' = Head(owed) /\ owed' = Tail(owed)
      BY <1>b
    <3> QED BY <3>1, <3>2, Zenon
  <2>3. cause' \in {2, 5} => owed' = <<>>
    BY <1>a, <1>b, Tails
  <2>4. cause' = 3 => owed' \in {<<>>, <<1>>, <<2>>, <<5>>}
    BY <1>a, <1>b, Tails
  <2>5. ~(wait > 0)
    BY <1>a DEF CdInv, DriveInv
  <2>6. state \notin Stopping => owed # <<1, 3, 2>>
    BY DEF CdInv, DriveInv
  <2>7. <<>> # <<3, 2>>
    BY SMT
  <2> QED BY <1>b, <2>1, <2>2, <2>3, <2>4, <2>5, <2>6, <2>7 DEF CdInv, DriveInv
<1>3. SectorInv'
  <2>1. ASSUME NEW x \in Ready PROVE x \in Contents /\ x[1] = disc
    BY ReadySector DEF CdInv, SectorInv
  <2> QED BY <1>b, <2>1 DEF CdInv, SectorInv, FoundBoot
<1>4. RetryInv'
  BY <1>b, <1>1 DEF CdInv, RetryInv
<1> QED BY <1>b, <1>2, <1>3, <1>4 DEF CdInv

LEMMA CdDma == CdInv /\ DmaEnds => CdInv'
<1> SUFFICES ASSUME CdInv, DmaEnds PROVE CdInv'
  OBVIOUS
<1>b. /\ dma /\ dma' = FALSE /\ sector' = buffer /\ buffer' = Empty
      /\ UNCHANGED <<state, wait, retries, cause, place, disc, owed, faults>>
  BY DEF DmaEnds, cd, drive
<1>1. Fails' <=> Fails
  BY <1>b DEF Fails
<1>2. DriveInv'
  BY <1>b DEF CdInv, DriveInv
<1>3. SectorInv'
  <2>1. state # "SUCCESS_DATA"
    BY <1>b, SMT DEF CdInv, SectorInv
  <2> QED BY <1>b, <2>1, EmptySector DEF CdInv, SectorInv
<1>4. RetryInv'
  BY <1>b, <1>1 DEF CdInv, RetryInv
<1> QED BY <1>b, <1>2, <1>3, <1>4 DEF CdInv

(* Whatever disc is put in, at whatever moment. *)
LEMMA CdReplace ==
  ASSUME CdInv, NEW d \in DiscKinds, Replace(d) PROVE CdInv'
<1>1. /\ disc' = d /\ UNCHANGED <<state, wait, retries, dma, cause, place>>
      /\ sector' = <<sector[1], sector[2], FALSE>> /\ buffer' = <<buffer[1], buffer[2], FALSE>>
      /\ \/ owed' = owed /\ faults' = faults
         \/ owed # <<>> /\ faults > 0 /\ owed' = <<5>> /\ faults' = faults - 1
  BY DEF Replace, cd, drive
<1>2. DriveInv'
  <2>1. <<5>> \in Orders /\ <<5>> # <<1, 3, 2>>
    BY SMT DEF Orders
  <2>2. DriveInv
    BY DEF CdInv
  <2> QED BY <1>1, <2>1, <2>2 DEF DriveInv
<1>3. SectorInv'
  <2>1. SectorInv
    BY DEF CdInv
  <2>2. sector' \in Contents /\ ~sector'[3] /\ (FoundBoot(sector) => FoundBoot(sector'))
    BY <1>1, <2>1, TakenSector DEF SectorInv
  <2>3. buffer' \in Contents /\ ~buffer'[3]
    BY <1>1, <2>1, TakenSector DEF SectorInv
  <2> QED BY <1>1, <2>1, <2>2, <2>3 DEF SectorInv
<1>4. RetryInv'
  <2>1. owed' = owed => (Fails' <=> Fails)
    BY <1>1 DEF Fails
  <2> QED BY <1>1, <2>1, ShellAssumption, SMT DEF CdInv, RetryInv
<1> QED BY <1>1, <1>2, <1>3, <1>4 DEF CdInv

(* What a command leaves owed. *)
LEMMA DriveCommands ==
  ASSUME NEW c \in {"INIT", "GETTN", "GETID", "SETMODE", "SETLOC", "READN"},
         CdInv, Command(c)
  PROVE  /\ owed' \in Orders \ {<<>>, <<1, 3, 2>>}
         /\ faults' \in 0 .. MaxFaults /\ faults' <= faults
         /\ c = "INIT" /\ owed' \in {<<5>>, <<3, 5>>} => faults' = faults - 1
<1>1. ASSUME NEW o \in Answers(c)
      PROVE  o \in Orders \ {<<>>, <<1, 3, 2>>} /\ (c = "INIT" => o = <<3, 2>>)
  BY <1>1, SMT DEF Answers, Orders
<1>2. ASSUME NEW o \in Errors
      PROVE  o \in Orders \ {<<>>, <<1, 3, 2>>} /\ faults # 0
  BY <1>2, SMT DEF Errors, Orders
<1>3. <<3, 2>> \notin {<<5>>, <<3, 5>>}
  BY SMT
<1>4. faults \in 0 .. MaxFaults
  BY DEF CdInv, RetryInv
<1>5. CASE owed' \in Answers(c) /\ UNCHANGED faults
  BY <1>1, <1>3, <1>4, <1>5, ShellAssumption, SMT
<1>6. CASE owed' \in Errors /\ faults' = faults - 1
  BY <1>2, <1>4, <1>6, ShellAssumption, SMT
<1> QED BY <1>5, <1>6 DEF Command

LEMMA Slack ==
  \A r, m, f, g \in Nat : r <= 21 + m - f /\ g <= f => r <= 21 + m - g
  BY SMT

(* A poll that sends a command keeps the invariant. *)
LEMMA Issued ==
  ASSUME CdInv,
         NEW c \in {"INIT", "GETTN", "GETID", "SETMODE", "SETLOC", "READN"}, Command(c),
         cause' = 0, wait' = 0, dma => state' = "RESET", UNCHANGED <<sectors, disc, dma>>,
         state' \in States \ (Stopping \cup {"ERROR", "SUCCESS_DATA"}),
         place' \in {"none", "pvd", "root"}, retries' \in Nat,
         state' # "RESET" => retries' <= 20,
         state' = "RESET" => c = "INIT" /\ retries' <= 21 + MaxFaults - faults
  PROVE  CdInv'
<1>1. /\ owed' \in Orders \ {<<>>, <<1, 3, 2>>}
      /\ faults' \in 0 .. MaxFaults /\ faults' <= faults
      /\ c = "INIT" /\ owed' \in {<<5>>, <<3, 5>>} => faults' = faults - 1
  BY DriveCommands
<1>2. DriveInv'
  BY <1>1, SMT DEF DriveInv, Stopping
<1>3. SectorInv'
  BY SMT DEF SectorInv, CdInv, sectors
<1>4. RetryInv'
  <2>1. Fails' => owed' \in {<<5>>, <<3, 5>>}
    BY SMT DEF Fails
  <2>2. /\ MaxFaults \in Nat /\ FPS \in Nat /\ faults \in Nat
        /\ faults' \in Nat /\ faults' <= faults /\ faults' \in 0 .. MaxFaults
    BY <1>1, ShellAssumption, SMT DEF CdInv, RetryInv
  <2>3. ASSUME state' = "RESET", Fails' PROVE retries' <= 20 + MaxFaults - faults'
    <3>1. faults' = faults - 1
      BY <1>1, <2>1, <2>3
    <3>2. retries' <= 21 + MaxFaults - faults
      BY <2>3
    <3> QED BY <2>2, <3>1, <3>2, SMT
  <2>4. ASSUME state' = "RESET" PROVE retries' <= 21 + MaxFaults - faults'
    <3>2. retries' <= 21 + MaxFaults - faults
      BY <2>4
    <3>3. retries' \in Nat
      OBVIOUS
    <3> QED BY <2>2, <3>2, <3>3, Slack
  <2>5. 0 \in 0 .. FPS
    BY <2>2, SMT
  <2> QED BY <2>2, <2>3, <2>4, <2>5 DEF RetryInv
<1> QED BY <1>2, <1>3, <1>4 DEF CdInv

(* And one that sends none. *)
LEMMA Quiet ==
  ASSUME CdInv, cause' \in {cause, 0}, wait' \in 0 .. FPS,
         UNCHANGED <<sectors, disc, dma, owed, faults, place>>,
         state' \in States \ {"ERROR"},
         wait' > 0 => cause' = 0 /\ owed = <<>>,
         state' \notin Stopping => state \notin Stopping \/ (owed = <<>> /\ cause' = 0),
         dma => state' \in {"READ_PVD_DMA", "READ_ROOT_DMA", "RESET"},
         state' = "SUCCESS_DATA" => FoundBoot(sector),
         retries' \in Nat, state' # "RESET" => retries' <= 20,
         state' = "RESET" => retries' <= 21 + MaxFaults - faults,
         state' = "RESET" /\ Fails' => retries' <= 20 + MaxFaults - faults
  PROVE  CdInv'
<1>1. <<>> # <<1, 3, 2>>
  BY SMT
<1>2. DriveInv'
  <2>1. DriveInv
    BY DEF CdInv
  <2>2. cause' = 1 => owed' \in {<<>>, <<3, 2>>, <<5>>}
    BY <2>1 DEF DriveInv
  <2>3. cause' \in {2, 5} => owed' = <<>>
    BY <2>1 DEF DriveInv
  <2>4. cause' = 3 => owed' \in {<<>>, <<1>>, <<2>>, <<5>>}
    BY <2>1 DEF DriveInv
  <2>5. state' \notin Stopping => owed' # <<1, 3, 2>> /\ (cause' = 1 => owed' = <<>>)
    BY <1>1, <2>1 DEF DriveInv
  <2>6. owed' \in Orders /\ cause' \in {0, 1, 2, 3, 5}
    BY <2>1 DEF DriveInv
  <2> QED BY <2>2, <2>3, <2>4, <2>5, <2>6 DEF DriveInv
<1>3. SectorInv'
  BY SMT DEF SectorInv, CdInv, sectors, FoundBoot
<1>4. RetryInv'
  BY DEF RetryInv, CdInv
<1> QED BY <1>2, <1>3, <1>4 DEF CdInv

(* The polls of the drive, one interrupt at a time. *)
LEMMA CdPoll ==
  ASSUME NEW fps \in {0, FPS}, CdInv, checkCD(fps)
  PROVE  CdInv'
<1> DEFINE s == AfterDma
<1>s. /\ s \in States \ {"ERROR"}
      /\ s \in Stopping <=> state \in Stopping
      /\ s = "RESET" <=> state = "RESET"
      /\ s = "SUCCESS_DATA" <=> state = "SUCCESS_DATA"
      /\ dma => s \in {"READ_PVD_DMA", "READ_ROOT_DMA", "RESET"}
      /\ s \in {"READ_PVD_PAUSE", "READ_ROOT_PAUSE"} => ~dma
  BY SMT DEF AfterDma, CdInv, SectorInv, States, Stopping
<1>u. UNCHANGED <<sectors, disc>>
  BY DEF checkCD
<1>0. /\ cause \in {0, 1, 2, 3, 5} /\ wait \in 0 .. FPS /\ FPS \in Nat \ {0}
      /\ place \in {"none", "pvd", "root"} /\ faults \in 0 .. MaxFaults /\ MaxFaults \in Nat
      /\ retries \in Nat
      /\ s # "RESET" => retries <= 20
      /\ s = "RESET" => retries <= 21 + MaxFaults - faults
      /\ s = "RESET" /\ Fails => retries <= 20 + MaxFaults - faults
  BY <1>s, ShellAssumption DEF CdInv, DriveInv, RetryInv, SectorInv
<1>1. CASE state = "SUCCESS_DATA"
  <2>1. UNCHANGED <<cd, cause, dma, place, drive>>
    BY <1>1 DEF checkCD
  <2>2. Fails' <=> Fails
    BY <2>1 DEF Fails, drive
  <2> QED BY <1>u, <2>1, <2>2 DEF cd, drive, sectors, CdInv, DriveInv, SectorInv, RetryInv, FoundBoot
<1>2. CASE state # "SUCCESS_DATA" /\ wait > 0
  <2>1. Waiting(AfterDma, fps)
    BY <1>2, <1>0, SMT DEF checkCD
  <2>2. cause = 0 /\ owed = <<>> /\ s # "SUCCESS_DATA"
    BY <1>2, <1>s DEF CdInv, DriveInv
  <2>3. UNCHANGED <<retries, place, dma>> /\ wait' \in 0 .. FPS
    BY <1>0, <2>1, SMT DEF Waiting
  <2>7. ASSUME state' = s, UNCHANGED <<cause, drive>> PROVE CdInv'
    <3>1. cause' = 0 /\ owed' = owed /\ faults' = faults
      BY <2>2, <2>7 DEF drive
    <3>2. ~Fails'
      BY <3>1, <2>2, SMT DEF Fails
    <3> HIDE DEF s
    <3> QED BY <1>0, <1>s, <1>u, <2>2, <2>3, <2>7, <3>1, <3>2, Quiet
  <2>4. CASE wait' > 0
    BY <2>1, <2>4, <2>7, SMT DEF Waiting
  <2>5. CASE wait' = 0
    <3>1. CASE s \in {"RESET", "INIT"}
      <4>1. state' = "RESET" /\ cause' = 0 /\ Command("INIT")
        BY <2>1, <2>5, <3>1, SMT DEF Waiting, initCD
      <4>2. retries' \in Nat /\ retries' <= 21 + MaxFaults - faults
        BY <1>0, <2>3, <3>1, SMT
      <4> QED BY <1>0, <1>u, <2>2, <2>3, <2>5, <4>1, <4>2, Issued DEF States, Stopping
    <3>2. CASE s \in {"GETTN", "GETID"}
      <4>1. state' = s /\ UNCHANGED cause /\ Command(s)
        BY <2>1, <2>5, <3>2, SMT DEF Waiting
      <4> QED BY <1>0, <1>s, <1>u, <2>2, <2>3, <2>5, <3>2, <4>1, Issued DEF States, Stopping
    <3>3. CASE s \notin {"RESET", "INIT", "GETTN", "GETID"}
      BY <2>1, <2>5, <2>7, <3>3, SMT DEF Waiting
    <3> QED BY <3>1, <3>2, <3>3
  <2> QED BY <2>3, <2>4, <2>5, <1>0, SMT
<1>3. CASE state # "SUCCESS_DATA" /\ wait = 0 /\ cause = 0
  <2>1. cause' = 0 /\ state' = s /\ UNCHANGED <<wait, retries, dma, place, drive>>
    BY <1>3 DEF checkCD
  <2> HIDE DEF s
  <2>2. Fails' <=> Fails
    BY <1>3, <2>1, SMT DEF Fails, drive
  <2> QED BY <1>3, <1>s, <1>u, <1>0, <2>1, <2>2, Quiet, SMT DEF drive
<1>4. CASE state # "SUCCESS_DATA" /\ wait = 0 /\ cause = 1
  <2>1. cause' = 0 /\ dataReady(AfterDma)
    BY <1>4, SMT DEF checkCD
  <2> HIDE DEF s
  <2>2. CASE s \in {"READ_PVD", "READ_ROOT"}
    <3>1. /\ dma' = TRUE /\ state' \in {"READ_PVD_DMA", "READ_ROOT_DMA"} /\ Pause
          /\ UNCHANGED <<wait, retries, place>>
      BY <2>1, <2>2, SMT DEF dataReady, s
    <3>2. s \notin Stopping
      BY <2>2, SMT DEF Stopping
    <3>3. owed = <<>>
      BY <1>s, <1>4, <3>2 DEF CdInv, DriveInv
    <3>4. owed' \in {<<3, 2>>, <<1, 3, 2>>, <<5>>}
      BY <3>1, <3>3, SMT DEF Pause
    <3>5. faults' \in 0 .. MaxFaults
      BY <1>0, <3>1, SMT DEF Pause
    <3>6. DriveInv'
      <4>1. {<<3, 2>>, <<1, 3, 2>>, <<5>>} \subseteq Orders
        BY DEF Orders
      <4>2. wait' = 0 /\ cause' = 0 /\ state' \in Stopping
        BY <1>4, <2>1, <3>1 DEF Stopping
      <4>3. ~(0 > 0)
        BY SMT
      <4> QED BY <3>4, <4>1, <4>2, <4>3 DEF DriveInv
    <3>7. SectorInv'
      <4>1. cause' # 2 /\ state' # "SUCCESS_DATA"
        BY <2>1, <3>1, SMT
      <4> QED BY <1>u, <3>1, <4>1 DEF CdInv, SectorInv, sectors, FoundBoot
    <3>8. RetryInv' /\ state' \in States \ {"ERROR"}
      <4>1. state' \in States \ {"ERROR"} /\ state' # "RESET"
        BY <3>1, SMT DEF States
      <4>2. retries' \in Nat /\ retries' <= 20 /\ wait' \in 0 .. FPS
        BY <1>0, <2>2, <3>1, SMT
      <4> QED BY <3>5, <4>1, <4>2 DEF RetryInv
    <3>9. disc' \in DiscKinds
      BY <1>u DEF CdInv
    <3> QED BY <3>6, <3>7, <3>8, <3>9 DEF CdInv
  <2>3. CASE s \notin {"READ_PVD", "READ_ROOT"}
    <3>1. state' = s /\ UNCHANGED <<dma, owed, faults, wait, retries, place>>
      BY <2>1, <2>3, SMT DEF dataReady, drive, s
    <3>2. Fails' => Fails
      BY <2>1, <3>1, SMT DEF Fails
    <3> QED BY <1>0, <1>s, <1>u, <1>4, <2>1, <3>1, <3>2, Quiet, SMT
  <2> QED BY <2>2, <2>3
<1>5. CASE state # "SUCCESS_DATA" /\ wait = 0 /\ cause = 2
  <2>1. cause' = 0 /\ complete(AfterDma)
    BY <1>5, SMT DEF checkCD
  <2> HIDE DEF s
  <2>2. owed = <<>> /\ ~dma /\ dma' = dma
    BY <1>5, <2>1 DEF CdInv, DriveInv, SectorInv, complete
  <2>3. CASE s = "RESET"
    <3>1. state' = "INIT" /\ retries' = 0 /\ Command("INIT") /\ UNCHANGED <<wait, place>>
      BY <2>1, <2>3, SMT DEF complete, s
    <3> QED BY <1>0, <1>u, <1>5, <2>1, <2>2, <3>1, Issued, SMT DEF States, Stopping
  <2>4. CASE s = "INIT"
    <3>1. state' = "GETTN" /\ retries' = 0 /\ Command("GETTN") /\ UNCHANGED <<wait, place>>
      BY <2>1, <2>4, SMT DEF complete, s
    <3> QED BY <1>0, <1>u, <1>5, <2>1, <2>2, <3>1, Issued, SMT DEF States, Stopping
  <2>5. CASE s = "GETID"
    <3>1. state' = "SETMODE" /\ Command("SETMODE") /\ UNCHANGED <<wait, retries, place>>
      BY <2>1, <2>5, SMT DEF complete, s
    <3> QED BY <1>0, <1>u, <1>5, <2>1, <2>2, <2>5, <3>1, Issued, SMT DEF States, Stopping
  <2>6. CASE s = "READ_PVD_PAUSE" /\ IsVolume(sector)
    <3>1. /\ state' = "SETLOC_TO_ROOT" /\ place' = "root" /\ Command("SETLOC")
          /\ UNCHANGED <<wait, retries>>
      BY <2>1, <2>6, SMT DEF complete, s
    <3> QED BY <1>0, <1>u, <1>5, <2>1, <2>2, <2>6, <3>1, Issued, SMT DEF States, Stopping
  <2>7. CASE s = "READ_ROOT_PAUSE" /\ FoundBoot(sector)
    <3>1. state' = "SUCCESS_DATA" /\ UNCHANGED <<wait, retries, place, owed, faults>>
      BY <2>1, <2>7, SMT DEF complete, drive, s
    <3>2. FoundBoot(sector)
      BY <2>7
    <3> QED BY <1>0, <1>s, <1>u, <1>5, <2>1, <2>2, <2>7, <3>1, <3>2, Quiet, SMT DEF States, Stopping
  <2>8. CASE s \in {"READ_PVD_PAUSE", "READ_ROOT_PAUSE"} /\ ~IsVolume(sector) /\ ~FoundBoot(sector)
    <3>1. state' = "RESET" /\ wait' = 1 /\ UNCHANGED <<retries, place, owed, faults>>
      BY <2>1, <2>8, SMT DEF complete, drive, s
    <3>2. ~Fails' /\ 1 \in 0 .. FPS
      BY <1>0, <2>1, <2>2, <3>1, SMT DEF Fails
    <3>3. retries <= 20 + MaxFaults - faults /\ retries <= 21 + MaxFaults - faults
      BY <1>0, <2>8, SMT
    <3> QED BY <1>0, <1>u, <1>5, <2>1, <2>2, <2>8, <3>1, <3>2, <3>3, Quiet, SMT DEF States, Stopping
  <2>9. ASSUME s \notin {"RESET", "INIT", "GETID"},
               ~(s = "READ_PVD_PAUSE" /\ IsVolume(sector)),
               ~(s = "READ_ROOT_PAUSE" /\ FoundBoot(sector)),
               ~(s \in {"READ_PVD_PAUSE", "READ_ROOT_PAUSE"}
                   /\ ~IsVolume(sector) /\ ~FoundBoot(sector))
        PROVE  CdInv'
    <3>1. state' = s /\ UNCHANGED <<wait, retries, place, owed, faults>>
      BY <2>1, <2>9, SMT DEF complete, drive, s
    <3>2. ~Fails'
      BY <2>1, <2>2, <3>1, SMT DEF Fails
    <3> QED BY <1>0, <1>s, <1>u, <1>5, <2>1, <2>2, <3>1, <3>2, Quiet, SMT
  <2> QED BY <2>3, <2>4, <2>5, <2>6, <2>7, <2>8, <2>9
<1>6. CASE state # "SUCCESS_DATA" /\ wait = 0 /\ cause = 3
  <2>1. cause' = 0 /\ acknowledge(AfterDma)
    BY <1>6, SMT DEF checkCD
  <2> HIDE DEF s
  <2>2. UNCHANGED <<wait, retries, dma>>
    BY <2>1 DEF acknowledge
  <2>3. CASE s \in {"GETTN", "SETMODE", "SETLOC_TO_PVD", "SETLOC_TO_ROOT"}
    <3>1. /\ state' \in {"GETID", "SETLOC_TO_PVD", "READ_PVD", "READ_ROOT"}
          /\ place' \in {place, "pvd"}
          /\ \E c \in {"GETID", "SETLOC", "READN"} : Command(c)
      BY <2>1, <2>3, SMT DEF acknowledge, s
    <3>2. PICK c \in {"GETID", "SETLOC", "READN"} : Command(c)
      BY <3>1
    <3>3. ~dma
      BY <1>s, <2>3
    <3>4. c \in {"INIT", "GETTN", "GETID", "SETMODE", "SETLOC", "READN"}
      BY <3>2
    <3>5. state' \in States \ (Stopping \cup {"ERROR", "SUCCESS_DATA"}) /\ state' # "RESET"
      BY <3>1, SMT DEF States, Stopping
    <3>6. retries' <= 20 /\ retries' \in Nat
      BY <1>0, <2>2, <2>3, SMT
    <3>7. place' \in {"none", "pvd", "root"} /\ wait' = 0
      BY <1>0, <1>6, <2>2, <3>1, SMT
    <3> QED BY <1>u, <2>1, <2>2, <3>2, <3>3, <3>4, <3>5, <3>6, <3>7, Issued
  <2>4. CASE s \notin {"GETTN", "SETMODE", "SETLOC_TO_PVD", "SETLOC_TO_ROOT"}
    <3>1. state' = s /\ UNCHANGED <<place, owed, faults>>
      BY <2>1, <2>4, SMT DEF acknowledge, drive, s
    <3>2. Fails' => Fails
      BY <2>1, <3>1, SMT DEF Fails
    <3> QED BY <1>0, <1>s, <1>u, <1>6, <2>1, <2>2, <3>1, <3>2, Quiet, SMT
  <2> QED BY <2>3, <2>4
<1>7. CASE state # "SUCCESS_DATA" /\ wait = 0 /\ cause = 5
  <2>1. cause' = 0 /\ discError(AfterDma)
    BY <1>7, SMT DEF checkCD
  <2>2. /\ state' = IF retries = 20 THEN "RESET" ELSE s
        /\ retries' = retries + 1 /\ wait' = 1 /\ UNCHANGED <<dma, place, owed, faults>>
    BY <2>1 DEF discError, drive
  <2> HIDE DEF s
  <2>3. Fails /\ owed = <<>>
    BY <1>7 DEF Fails, CdInv, DriveInv
  <2>4. ~Fails'
    BY <2>1, <2>2, <2>3, SMT DEF Fails
  <2>5. /\ state' \in States \ {"ERROR"} /\ state' # "SUCCESS_DATA"
        /\ dma => state' \in {"READ_PVD_DMA", "READ_ROOT_DMA", "RESET"}
    BY <1>s, <1>7, <2>2, SMT DEF States
  <2>6. state' # "RESET" => retries' <= 20
    BY <1>0, <2>2, SMT
  <2>7. state' = "RESET" => retries' <= 21 + MaxFaults - faults
    BY <1>0, <2>2, <2>3, SMT
  <2>8. retries' \in Nat /\ 1 \in 0 .. FPS
    BY <1>0, <2>2, SMT
  <2> QED BY <1>u, <2>1, <2>2, <2>3, <2>4, <2>5, <2>6, <2>7, <2>8, Quiet, SMT
<1> QED BY <1>0, <1>1, <1>2, <1>3, <1>4, <1>5, <1>6, <1>7, SMT

-----------------------------------------------------------------------------
(* What it shows of them. *)

(* A fade of one second moves in every frame, and is over before the last  *)
(* of two seconds.                                                         *)
LEMMA DivBounds ==
  ASSUME NEW a \in Nat, NEW b \in Nat \ {0}
  PROVE  a \div b \in Nat /\ b * (a \div b) <= a /\ a < b * (a \div b) + b
  BY SMT

LEMMA FadeEnds ==
  /\ QuarterSecond \in Nat /\ OneSecond \in Nat \ {0}
  /\ \A k \in Nat : OneSecond * k < ONE => k < 2 * FPS - 1
<1> DEFINE q == QuarterSecond  s == OneSecond
<1>0. FPS \in Nat /\ FPS >= 1 /\ ONE \in Nat /\ FPS <= ONE
  BY ShellAssumption, SMT
<1>1. q \in Nat /\ FPS * q <= 4 * ONE /\ 4 * ONE < FPS * q + FPS
  BY <1>0, DivBounds DEF QuarterSecond
<1>2. s \in Nat /\ q <= 4 * s + 3
  BY <1>1, SMT DEF OneSecond
<1> HIDE DEF q, s
<1>3. FPS * (4 * s + 3 - q) >= 0
  BY <1>0, <1>1, <1>2, SMT
<1>4. FPS * (4 * s + 3 - q) = 4 * (FPS * s) + 3 * FPS - FPS * q
  BY <1>0, <1>1, <1>2, SMT
<1>p. FPS * s \in Nat /\ FPS * q \in Nat
  BY <1>0, <1>1, <1>2, SMT
<1>5. ONE < FPS * s + FPS
  <2> DEFINE fs == FPS * s  fq == FPS * q
  <2>1. 4 * fs + 3 * FPS - fq >= 0 /\ 4 * ONE < fq + FPS /\ fs \in Nat /\ fq \in Nat
    BY <1>1, <1>3, <1>4, <1>p
  <2> HIDE DEF fs, fq
  <2>2. ONE < fs + FPS
    BY <1>0, <2>1, SMT
  <2> QED BY <2>2 DEF fs
<1>6. s >= 1
  BY <1>0, <1>2, <1>5, SMT
<1>7. ASSUME NEW k \in Nat, s * k < ONE, k >= 2 * FPS - 1 PROVE FALSE
  <2>1. s * (k - (2 * FPS - 1)) >= 0
    BY <1>0, <1>2, <1>7, SMT
  <2>2. s * (k - (2 * FPS - 1)) = s * k - 2 * (FPS * s) + s
    BY <1>0, <1>2, SMT
  <2>3. (FPS - 1) * (s - 1) >= 0
    BY <1>0, <1>2, <1>6, SMT
  <2>4. (FPS - 1) * (s - 1) = FPS * s - FPS - s + 1
    BY <1>0, <1>2, SMT
  <2> DEFINE fs == FPS * s  sk == s * k
  <2>5. /\ sk - 2 * fs + s >= 0 /\ fs - FPS - s + 1 >= 0 /\ ONE < fs + FPS
        /\ sk < ONE /\ fs \in Nat
    BY <1>5, <1>7, <1>p, <2>1, <2>2, <2>3, <2>4
  <2>6. sk \in Nat
    BY <1>2, SMT
  <2> HIDE DEF fs, sk
  <2> QED BY <1>0, <1>2, <2>5, <2>6, SMT
<1> QED BY <1>0, <1>1, <1>2, <1>6, <1>7, SMT DEF q, s

Colours == {"black", "between", "idle", "error", "success", "white"}
Lerp == [bg : Colours, to : Colours, p : 0 .. ONE, speed : Nat]

ScreenInv ==
  /\ counter \in 0 .. FPS + 1 /\ bootFrames \in 0 .. 4 * FPS + 1
  /\ scheduleBoot \in BOOLEAN /\ wasError \in BOOLEAN /\ wasSuccess \in BOOLEAN
  /\ left \in BOOLEAN /\ lerp \in Lerp
  /\ scheduleBoot => /\ wasSuccess /\ state = "SUCCESS_DATA"
                     /\ retries >= 10 => wasError
  /\ bootFrames >= 1 => /\ scheduleBoot /\ counter > FPS
                        /\ wasError <=> retries >= 10
  /\ left <=> bootFrames = 4 * FPS + 1

(* The last fade, on its way or done. *)
Black == lerp.bg = "black" /\ lerp.speed = 0
Darkens(k) ==
  /\ lerp.speed = OneSecond /\ k < 2 * FPS
  /\ lerp.p = ONE \/ OneSecond * k <= lerp.p
FadeInv ==
  bootFrames > 2 * FPS => lerp.to = "black" /\ (Black \/ Darkens(bootFrames - 2 * FPS))

LEMMA ScreenInit == ShellInit => ScreenInv /\ FadeInv
<1> SUFFICES ASSUME ShellInit PROVE ScreenInv /\ FadeInv
  OBVIOUS
<1>1. QuarterSecond \in Nat /\ lerp = [bg |-> "black", to |-> "idle", p |-> 0, speed |-> QuarterSecond]
  BY FadeEnds DEF ShellInit, QuarterSecond
<1>2. lerp \in Lerp
  BY <1>1, ShellAssumption, SMT DEF Lerp, Colours
<1>3. ScreenInv
  <2>1. FPS \in Nat \ {0}
    BY ShellAssumption
  <2>2. /\ counter = 0 /\ bootFrames = 0 /\ scheduleBoot = FALSE /\ wasError = FALSE
        /\ wasSuccess = FALSE /\ left = FALSE
    BY DEF ShellInit
  <2>3. 0 \in 0 .. FPS + 1 /\ 0 \in 0 .. 4 * FPS + 1 /\ 0 # 4 * FPS + 1 /\ ~(0 >= 1)
    BY <2>1, SMT
  <2> QED BY <1>2, <2>2, <2>3 DEF ScreenInv
<1>4. FadeInv
  BY ShellAssumption, SMT DEF ShellInit, FadeInv
<1> QED BY <1>3, <1>4

LEMMA PollKeepsSuccess ==
  ASSUME NEW fps, checkCD(fps), state = "SUCCESS_DATA"
  PROVE  state' = state /\ retries' = retries
  BY SMT DEF checkCD, cd

(* What does not touch the screen. *)
LEMMA ScreenRests ==
  ASSUME ScreenInv, FadeInv, UNCHANGED screen,
         state = "SUCCESS_DATA" => state' = state /\ retries' = retries
  PROVE  ScreenInv' /\ FadeInv'
  BY SMT DEF screen, ScreenInv, FadeInv, Black, Darkens

(* What does not touch the drive. *)
LEMMA CdRests ==
  ASSUME CdInv, UNCHANGED <<cd, sectors, dma, cause, place, disc, drive>>
  PROVE  CdInv'
<1>1. Fails' <=> Fails
  BY DEF Fails, drive
<1> QED BY <1>1 DEF cd, drive, sectors, CdInv, DriveInv, SectorInv, RetryInv, FoundBoot

LEMMA LeaveScreen ==
  ASSUME ScreenInv, FadeInv, Leave
  PROVE  ScreenInv' /\ FadeInv'
<1>1. /\ left' = TRUE /\ bootFrames = 4 * FPS /\ bootFrames' = bootFrames + 1 /\ Booting
      /\ UNCHANGED <<state, retries, counter, scheduleBoot, wasError, wasSuccess, lerp>>
  BY DEF Leave, cd
<1>2. ScreenInv'
  BY <1>1, ShellAssumption, SMT DEF ScreenInv, Booting
<1>3. Black /\ lerp.to = "black"
  BY <1>1, ShellAssumption, SMT DEF FadeInv, Darkens
<1>4. FadeInv'
  BY <1>1, <1>3 DEF FadeInv, Black
<1> QED BY <1>2, <1>4

(* The updates a fade goes through, field by field. *)
LEMMA Updates ==
  ASSUME NEW C, NEW P, NEW S, NEW l \in [bg : C, to : C, p : P, speed : S],
         NEW x \in C, NEW y \in P, NEW z \in S
  PROVE  LET ends   == [l EXCEPT !.bg = x, !.speed = z]
             goesOn == [l EXCEPT !.bg = x, !.p = y]
             begins == [l EXCEPT !.to = x, !.p = y, !.speed = z]
         IN  /\ {ends, goesOn, begins} \subseteq [bg : C, to : C, p : P, speed : S]
             /\ ends.bg = x /\ ends.to = l.to /\ ends.p = l.p /\ ends.speed = z
             /\ goesOn.bg = x /\ goesOn.to = l.to /\ goesOn.p = y /\ goesOn.speed = l.speed
             /\ begins.bg = l.bg /\ begins.to = x /\ begins.p = y /\ begins.speed = z
<1>1. [l EXCEPT !.bg = x, !.speed = z] \in [bg : C, to : C, p : P, speed : S]
  BY Zenon
<1>2. [l EXCEPT !.bg = x, !.p = y] \in [bg : C, to : C, p : P, speed : S]
  BY Zenon
<1>3. [l EXCEPT !.to = x, !.p = y, !.speed = z] \in [bg : C, to : C, p : P, speed : S]
  BY Zenon
<1>4. LET ends   == [l EXCEPT !.bg = x, !.speed = z]
          goesOn == [l EXCEPT !.bg = x, !.p = y]
          begins == [l EXCEPT !.to = x, !.p = y, !.speed = z]
      IN  /\ ends.bg = x /\ ends.to = l.to /\ ends.p = l.p /\ ends.speed = z
          /\ goesOn.bg = x /\ goesOn.to = l.to /\ goesOn.p = y /\ goesOn.speed = l.speed
          /\ begins.bg = l.bg /\ begins.to = x /\ begins.p = y /\ begins.speed = z
  BY SMT
<1> QED BY <1>1, <1>2, <1>3, <1>4

LEMMA Fields ==
  ASSUME NEW l \in Lerp
  PROVE  l.bg \in Colours /\ l.to \in Colours /\ l.p \in 0 .. ONE /\ l.speed \in Nat
  BY DEF Lerp

(* A fade begins where the colour stands; one that goes on ends in the frame
   after it has come to 1.                                                 *)
LEMMA Begins ==
  ASSUME NEW l \in Lerp, NEW to \in Colours, NEW speed \in Nat
  PROVE  LET m == startLerp(l, to, speed)
         IN  m \in Lerp /\ m.to = to /\ m.p = 0 /\ m.speed = speed
<1>1. 0 \in 0 .. ONE
  BY ShellAssumption, SMT
<1> QED BY <1>1, Updates, Zenon DEF startLerp, Lerp

LEMMA GoesOn ==
  ASSUME NEW l \in Lerp
  PROVE  LET m == applyLerps(l)
         IN  /\ m \in Lerp /\ m.to = l.to
             /\ l.speed = 0 => m = l
             /\ l.speed > 0 /\ l.p >= ONE => m.bg = l.to /\ m.speed = 0
             /\ l.speed > 0 /\ l.p < ONE
                  => /\ m.speed = l.speed
                     /\ m.p = IF l.p + l.speed > ONE THEN ONE ELSE l.p + l.speed
<1> DEFINE m == applyLerps(l)
           bg == IF l.p = 0 THEN l.bg ELSE "between"
           p == IF l.p + l.speed > ONE THEN ONE ELSE l.p + l.speed
<1>0. bg \in Colours /\ p \in 0 .. ONE /\ 0 \in Nat /\ ONE \in Nat
  BY Fields, ShellAssumption, SMT DEF Colours
<1>f. l.to \in Colours /\ l.p \in 0 .. ONE /\ l.speed \in Nat
  BY Fields
<1>1. CASE l.speed = 0
  <2>1. m = l
    BY <1>1, SMT DEF applyLerps
  <2> QED BY <1>1, <1>f, <2>1, SMT
<1>2. CASE l.speed > 0 /\ l.p >= ONE
  <2>1. m = [l EXCEPT !.bg = l.to, !.speed = 0]
    BY <1>2, <1>f, <1>0, SMT DEF applyLerps
  <2> HIDE DEF m
  <2>2. m \in Lerp /\ m.to = l.to /\ m.bg = l.to /\ m.speed = 0
    BY <1>0, <1>f, <2>1, Updates, Zenon DEF Lerp
  <2> QED BY <1>0, <1>2, <1>f, <2>2, SMT DEF m
<1>3. CASE l.speed > 0 /\ l.p < ONE
  <2>1. m = [l EXCEPT !.bg = bg, !.p = p]
    BY <1>3, <1>f, <1>0, SMT DEF applyLerps
  <2> HIDE DEF m, bg, p
  <2>2. m \in Lerp /\ m.to = l.to /\ m.p = p /\ m.speed = l.speed
    BY <1>0, <1>f, <2>1, Updates, Zenon DEF Lerp
  <2> QED BY <1>0, <1>3, <1>f, <2>2, SMT DEF p, m
<1> QED BY <1>0, <1>f, <1>1, <1>2, <1>3, SMT

LEMMA FrameScreen ==
  ASSUME CdInv, CdInv', ScreenInv, FadeInv, Frame
  PROVE  ScreenInv' /\ FadeInv'
<1> DEFINE faded == applyLerps(BootFade)
           fails == retries' >= 10
           good  == state' = "SUCCESS_DATA"
<1>0. FPS \in Nat \ {0} /\ ONE \in Nat /\ retries' \in Nat /\ retries \in Nat
  BY ShellAssumption DEF CdInv, RetryInv
<1>1. /\ ~left /\ ~(Booting /\ bootFrames = 4 * FPS)
      /\ bootFrames' = IF Booting THEN bootFrames + 1 ELSE bootFrames
      /\ counter' = IF counter > FPS THEN counter ELSE counter + 1
      /\ left' = left
  BY DEF Frame
<1>2. isCDError <=> fails
  BY DEF isCDError, CdInv
<1>3. \/ /\ fails /\ ~wasError /\ wasError' = TRUE
         /\ lerp' = startLerp(faded, "error", QuarterSecond)
         /\ UNCHANGED <<wasSuccess, scheduleBoot>>
      \/ /\ ~(fails /\ ~wasError) /\ good /\ ~wasSuccess
         /\ wasSuccess' = TRUE /\ scheduleBoot' = TRUE /\ lerp' = faded
         /\ UNCHANGED wasError
      \/ /\ ~fails /\ ~(good /\ ~wasSuccess) /\ wasError
         /\ wasError' = FALSE /\ lerp' = startLerp(faded, "idle", QuarterSecond)
         /\ UNCHANGED <<wasSuccess, scheduleBoot>>
      \/ /\ ~(fails /\ ~wasError) /\ ~(good /\ ~wasSuccess) /\ ~(~fails /\ wasError)
         /\ lerp' = faded /\ UNCHANGED <<wasError, wasSuccess, scheduleBoot>>
  BY <1>2, SMT DEF Frame, isCDSuccess
<1>4. state = "SUCCESS_DATA" => state' = state /\ retries' = retries
  BY PollKeepsSuccess DEF Frame
<1>5. lerp' \in Lerp
  <2>1. BootFade \in Lerp
    BY FadeEnds, Begins DEF BootFade, ScreenInv, Colours
  <2>2. faded \in Lerp
    BY <2>1, GoesOn
  <2> HIDE DEF faded
  <2>3. \A to \in Colours : startLerp(faded, to, QuarterSecond) \in Lerp
    BY <2>2, Begins, FadeEnds
  <2> QED BY <1>3, <2>2, <2>3 DEF Colours
<1> HIDE DEF faded
<1>6. counter' \in 0 .. FPS + 1 /\ bootFrames' \in 0 .. 4 * FPS + 1 /\ ~(bootFrames' = 4 * FPS + 1)
  BY <1>0, <1>1, SMT DEF ScreenInv
<1>7. /\ scheduleBoot' \in BOOLEAN /\ wasError' \in BOOLEAN /\ wasSuccess' \in BOOLEAN
      /\ left' \in BOOLEAN
  BY <1>1, <1>3 DEF ScreenInv
<1>8. scheduleBoot' => wasSuccess' /\ state' = "SUCCESS_DATA" /\ (retries' >= 10 => wasError')
  BY <1>3, <1>4 DEF ScreenInv
<1>9. bootFrames' >= 1 => scheduleBoot' /\ counter' > FPS /\ (wasError' <=> retries' >= 10)
  <2> SUFFICES ASSUME bootFrames' >= 1
               PROVE  scheduleBoot' /\ counter' > FPS /\ (wasError' <=> retries' >= 10)
    OBVIOUS
  <2>1. scheduleBoot /\ counter > FPS
    BY <1>0, <1>1, SMT DEF ScreenInv, Booting
  <2>2. wasSuccess /\ counter' > FPS /\ wasError \in BOOLEAN
    BY <1>1, <2>1 DEF ScreenInv
  <2>3. (wasError' <=> fails) /\ scheduleBoot'
    <3> HIDE DEF fails, good
    <3>1. CASE fails /\ ~wasError /\ wasError' = TRUE /\ UNCHANGED scheduleBoot
      BY <2>1, <3>1
    <3>2. CASE ~fails /\ wasError /\ wasError' = FALSE /\ UNCHANGED scheduleBoot
      BY <2>1, <3>2
    <3>3. CASE (fails <=> wasError) /\ wasError' = wasError /\ UNCHANGED scheduleBoot
      BY <2>1, <3>3, Zenon
    <3> QED BY <1>3, <2>2, <3>1, <3>2, <3>3, Zenon
  <2> QED BY <2>2, <2>3
<1>10. ScreenInv'
  BY <1>1, <1>5, <1>6, <1>7, <1>8, <1>9 DEF ScreenInv
<1>11. FadeInv'
  <2> SUFFICES ASSUME bootFrames' > 2 * FPS
               PROVE  lerp'.to = "black" /\ (Black' \/ Darkens(bootFrames - 2 * FPS)')
    BY DEF FadeInv
  <2>1. Booting /\ bootFrames' = bootFrames + 1 /\ bootFrames >= 2 * FPS /\ bootFrames < 4 * FPS
        /\ bootFrames \in Nat /\ scheduleBoot
    BY <1>0, <1>1, SMT DEF ScreenInv, Booting
  <2>2. lerp' = faded
    <3>1. bootFrames >= 1
      BY <1>0, <2>1, SMT
    <3>2. wasSuccess /\ (wasError <=> retries >= 10) /\ retries' = retries
      BY <1>4, <2>1, <3>1 DEF ScreenInv
    <3> QED BY <1>3, <3>2
  <2>s. OneSecond \in Nat \ {0} /\ lerp \in Lerp
    BY FadeEnds DEF ScreenInv
  <2>3. CASE bootFrames = 2 * FPS
    <3>1. BootFade = startLerp(lerp, "black", OneSecond)
      BY <1>0, <2>1, <2>3, SMT DEF BootFade
    <3>2. /\ BootFade.to = "black" /\ BootFade.p = 0 /\ BootFade.speed = OneSecond
          /\ BootFade \in Lerp
      <4>1. "black" \in Colours /\ OneSecond \in Nat
        BY <2>s DEF Colours
      <4> QED BY <2>s, <3>1, <4>1, Begins, ZenonT(60)
    <3> DEFINE l == BootFade
    <3>3. lerp' = applyLerps(l)
      BY <2>2 DEF faded
    <3> HIDE DEF l
    <3>4. /\ lerp'.to = "black" /\ lerp'.speed = OneSecond
          /\ lerp'.p = IF OneSecond > ONE THEN ONE ELSE OneSecond
      <4>1. /\ l \in Lerp /\ l.to = "black" /\ l.p = 0 /\ l.speed = OneSecond
            /\ 0 < ONE /\ OneSecond > 0
        BY <1>0, <2>s, <3>2, ShellAssumption, SMT DEF l
      <4>2. /\ applyLerps(l).to = l.to
            /\ l.speed > 0 /\ l.p < ONE
                 => /\ applyLerps(l).speed = l.speed
                    /\ applyLerps(l).p = IF l.p + l.speed > ONE THEN ONE ELSE l.p + l.speed
        BY <4>1, GoesOn, Zenon
      <4> QED BY <2>s, <3>3, <4>1, <4>2, SMT
    <3>5. bootFrames' - 2 * FPS = 1 /\ 1 < 2 * FPS
      BY <1>0, <2>1, <2>3, SMT
    <3> QED BY <2>s, <3>4, <3>5, <1>0, SMT DEF Darkens
  <2>4. CASE bootFrames > 2 * FPS
    <3>1. BootFade = lerp
      BY <1>0, <2>1, <2>4, SMT DEF BootFade
    <3>2. lerp' = applyLerps(lerp) /\ lerp.to = "black" /\ (Black \/ Darkens(bootFrames - 2 * FPS))
      BY <2>2, <2>4, <3>1 DEF faded, FadeInv
    <3> DEFINE k == bootFrames - 2 * FPS
    <3>6. lerp'.to = "black"
      BY <2>s, <3>2, GoesOn
    <3>7. lerp.p \in 0 .. ONE
      BY <2>s, Fields
    <3>8. k \in Nat /\ bootFrames' - 2 * FPS = k + 1
      BY <1>0, <2>1, <2>4, SMT
    <3>3. CASE Black
      <4>1. lerp' = lerp
        BY <2>s, <3>2, <3>3, GoesOn, Zenon DEF Black
      <4> QED BY <3>3, <3>6, <4>1 DEF Black
    <3>4. CASE ~Black /\ lerp.p >= ONE
      <4>1. lerp.speed > 0
        BY <2>s, <3>2, <3>4, SMT DEF Darkens
      <4>2. lerp'.bg = "black" /\ lerp'.speed = 0
        BY <2>s, <3>2, <3>4, <4>1, GoesOn, Zenon
      <4> QED BY <3>6, <4>2 DEF Black
    <3>5. CASE ~Black /\ lerp.p < ONE
      <4>1. lerp.speed = OneSecond /\ OneSecond > 0 /\ OneSecond * k <= lerp.p
        BY <1>0, <2>s, <3>2, <3>5, <3>7, SMT DEF Darkens
      <4>2. OneSecond * k < ONE
        BY <1>0, <2>s, <3>5, <3>7, <3>8, <4>1, SMT
      <4>3. k < 2 * FPS - 1
        BY <3>8, <4>2, FadeEnds
      <4>4. /\ lerp'.speed = OneSecond
            /\ lerp'.p = IF lerp.p + OneSecond > ONE THEN ONE ELSE lerp.p + OneSecond
        BY <2>s, <3>2, <3>5, <4>1, GoesOn, Zenon
      <4>5. OneSecond * (k + 1) = OneSecond * k + OneSecond /\ OneSecond * k \in Nat
        BY <2>s, <3>8, SMT
      <4>6. lerp'.p = ONE \/ OneSecond * (k + 1) <= lerp'.p
        <5> DEFINE o == OneSecond * k  o1 == OneSecond * (k + 1)
        <5>1. o1 = o + OneSecond /\ o \in Nat /\ o <= lerp.p
          BY <4>1, <4>5
        <5> HIDE DEF o, o1
        <5>2. lerp'.p = ONE \/ o1 <= lerp'.p
          BY <1>0, <2>s, <3>7, <4>4, <5>1, SMT
        <5> QED BY <5>2 DEF o1
      <4>7. k + 1 < 2 * FPS
        BY <1>0, <3>8, <4>3, SMT
      <4> QED BY <3>6, <3>8, <4>4, <4>6, <4>7 DEF Darkens
    <3> QED BY <1>0, <3>3, <3>4, <3>5, <3>7, SMT
  <2> QED BY <2>1, <2>3, <2>4, <1>0, SMT
<1> QED BY <1>10, <1>11

LEMMA OrderLengths == \A o \in Orders : Len(o) \in 0 .. 3
  BY SMT DEF Orders

(* Every step of the shell, and what it makes of the invariants. *)
ShellInv == CdInv /\ ScreenInv /\ FadeInv

LEMMA ShellStep == ShellInv /\ [ShellNext]_shellVars => ShellInv'
<1> SUFFICES ASSUME ShellInv, [ShellNext]_shellVars PROVE ShellInv'
  OBVIOUS
<1> USE DEF ShellInv
<1>1. CASE Frame
  <2>1. CdInv'
    BY <1>1, CdPoll DEF Frame
  <2> QED BY <1>1, <2>1, FrameScreen
<1>2. CASE Leave
  <2>1. UNCHANGED <<cd, sectors, dma, cause, place, disc, drive>>
    BY <1>2 DEF Leave
  <2> QED BY <1>2, <2>1, LeaveScreen, CdRests
<1>3. CASE idle
  <2>1. CdInv'
    BY <1>3, CdPoll DEF idle
  <2> QED BY <1>3, <2>1, PollKeepsSuccess, ScreenRests DEF idle
<1>4. CASE DriveAnswers
  BY <1>4, CdDrive, ScreenRests DEF DriveAnswers, cd
<1>5. CASE DmaEnds
  BY <1>5, CdDma, ScreenRests DEF DmaEnds, cd
<1>6. CASE \E d \in DiscKinds : Replace(d)
  <2>1. PICK d \in DiscKinds : Replace(d)
    BY <1>6
  <2> QED BY <2>1, CdReplace, ScreenRests DEF Replace, cd
<1>7. CASE UNCHANGED shellVars
  <2>1. UNCHANGED <<cd, sectors, dma, cause, place, disc, drive, screen>>
    BY <1>7 DEF shellVars
  <2> QED BY <2>1, CdRests, ScreenRests DEF cd
<1> QED BY <1>1, <1>2, <1>3, <1>4, <1>5, <1>6, <1>7 DEF ShellNext

(* The shell boots nothing but a game, from a black screen (shell/main.c,  *)
(* shell/cdrom.c): whatever disc is put in at any moment, and whatever     *)
(* command fails.                                                          *)
THEOREM BootsGames == ShellSpec => []ShellBootsGames
<1>1. ShellInit => ShellInv
  BY CdInit, ScreenInit DEF ShellInv
<1>2. ShellInv => ShellBootsGames
  <2> SUFFICES ASSUME ShellInv PROVE ShellBootsGames
    OBVIOUS
  <2>1. OnlyGamesBoot
    BY DEF ShellInv, CdInv, SectorInv, ScreenInv, OnlyGamesBoot, FoundBoot
  <2>2. BlackAtBoot
    BY ShellAssumption, SMT DEF ShellInv, ScreenInv, FadeInv, Black, Darkens, BlackAtBoot
  <2>3. ShellTypeOK
    <3>1. retries \in 0 .. 21 + MaxFaults
      <4>1. /\ retries \in Nat /\ faults \in 0 .. MaxFaults /\ MaxFaults \in Nat
            /\ retries <= 20 \/ retries <= 21 + MaxFaults - faults
        BY ShellAssumption DEF ShellInv, CdInv, RetryInv
      <4> QED BY <4>1, SMT
    <3>2. Len(owed) <= 4
      <4>1. Len(owed) \in 0 .. 3
        BY OrderLengths DEF ShellInv, CdInv, DriveInv
      <4>2. \A n \in 0 .. 3 : n <= 4
        BY SMT
      <4> QED BY <4>1, <4>2
    <3>3. lerp.p \in 0 .. ONE
      BY Fields DEF ShellInv, ScreenInv
    <3>4. /\ state \in States \ {"ERROR"} /\ wait \in 0 .. FPS /\ cause \in {0, 1, 2, 3, 5}
          /\ disc \in DiscKinds /\ faults \in 0 .. MaxFaults
      BY DEF ShellInv, CdInv, DriveInv, RetryInv
    <3>5. counter \in 0 .. FPS + 1 /\ bootFrames \in 0 .. 4 * FPS + 1
      BY DEF ShellInv, ScreenInv
    <3> QED BY <3>1, <3>2, <3>3, <3>4, <3>5 DEF ShellTypeOK
  <2> QED BY <2>1, <2>2, <2>3 DEF ShellBootsGames
<1> QED BY <1>1, <1>2, ShellStep, PTL DEF ShellSpec

-----------------------------------------------------------------------------
(* The music's volume, wherever polls come from.  No row sets a tremolo    *)
(* waveform, whose number the player takes for the tremolo's depth.        *)

NoTremoloWave == \A r \in RowSet : ~(r.fx = 14 /\ r.x = 7)

(* What a voice is to the SPU, as far as loudness goes. *)
Sounds(v, m) ==
  /\ {"volume", "vibratoWave", "tremolo", "tremoloSize", "tremoloWave", "level", "bent", "amid"}
       \subseteq DOMAIN v
  /\ v.volume \in 0 .. 64 /\ v.vibratoWave \in 0 .. 15 /\ v.tremoloWave = 0
  /\ v.tremolo \in Int /\ v.tremoloSize \in Nat
  /\ v.level \in Nat /\ v.bent \in BOOLEAN /\ v.amid \in BOOLEAN
  /\ ~v.bent /\ ~v.amid => v.level = Level(v.volume, m)
  /\ call[1] = "shifted" /\ ~v.amid => v.volume = 0

(* The volume put aside is the music's, and so is the one there is unless  *)
(* a sound effect plays.                                                   *)
Given(m) == master \in Nat /\ (call[1] # "playing" => master = m)
AsideInv ==
  /\ music \in Nat /\ Given(music)
  /\ call \in {"none", "playing", "setting", "shifted"} \X Nat
  /\ call[1] = "playing" => call[2] = music

VolumeInv ==
  /\ Sounds(voice, music) /\ AsideInv
  /\ row \in RowDigits

LEMMA LevelType == \A n \in 0 .. 64, m \in Nat : Level(n, m) \in Nat
  <1> SUFFICES ASSUME NEW n \in 0 .. 64, NEW m \in Nat PROVE Level(n, m) \in Nat
    OBVIOUS
  <1>1. n * m \in Nat
    BY SMT
  <1> QED BY <1>1, SMT DEF Level

LEMMA SilentSounds ==
  ASSUME NEW m \in Nat
  PROVE  Sounds(Silent, m)
<1>1. Level(0, m) = 0
  BY SMT DEF Level
<1> QED BY <1>1, SMT DEF Silent, Sounds

LEMMA VoiceCopied ==
  ASSUME NEW v, NEW m, Sounds(v, m), voice' = v, music' = m, call' = call
  PROVE  Sounds(voice, music)'
  BY DEF Sounds

LEMMA LoudSounds ==
  ASSUME NEW v, NEW m \in Nat, Sounds(v, m), Given(m), NEW n \in 0 .. 64
  PROVE  Sounds(Loud(v, n), m)
<1> DEFINE level == Level(n, master)
           amid == Amid
<1>1. level \in Nat
  BY LevelType DEF Given
<1>2. amid \in BOOLEAN /\ (call[1] = "shifted" => amid) /\ (~amid => level = Level(n, m))
  BY SMT DEF Amid, Given
<1> HIDE DEF level, amid
<1>3. Sounds([v EXCEPT !.volume = n, !.level = level, !.bent = FALSE, !.amid = amid], m)
  BY <1>1, <1>2, SMT DEF Sounds
<1> QED BY <1>3 DEF Loud, level, amid

LEMMA PitchSounds ==
  ASSUME NEW v, NEW m \in Nat, Sounds(v, m), NEW p
  PROVE  Sounds(Pitch(v, p), m)
  BY SMT DEF Sounds, Pitch

LEMMA WithSampleSounds ==
  ASSUME NEW v, NEW m \in Nat, Sounds(v, m), Given(m), NEW r \in RowDigits
  PROVE  Sounds(WithSample(v, r), m)
<1>1. CASE r.sample = 0
  BY <1>1 DEF WithSample
<1>2. CASE r.sample # 0
  <2> DEFINE n == AtMost(Instruments[r.sample].volume, 63)
             w == [v EXCEPT !.sample = r.sample]
  <2>1. n \in 0 .. 64
    <3>1. Instruments[r.sample].volume \in Nat
      BY <1>2, InstrumentsAssumption DEF RowDigits
    <3> QED BY <3>1, SMT DEF AtMost
  <2> HIDE DEF n
  <2>2. Sounds(w, m)
    BY SMT DEF Sounds
  <2>3. Sounds([v EXCEPT !.sample = r.sample, !.volume = n, !.bent = TRUE, !.amid = Amid], m)
    <3> DEFINE amid == Amid
    <3>1. amid \in BOOLEAN /\ (call[1] = "shifted" => amid)
      BY SMT DEF Amid
    <3> HIDE DEF amid
    <3>2. Sounds([v EXCEPT !.sample = r.sample, !.volume = n, !.bent = TRUE, !.amid = amid], m)
      BY <2>1, <3>1, SMT DEF Sounds
    <3> QED BY <3>2 DEF amid
  <2>4. Sounds(Loud(w, n), m)
    BY <2>1, <2>2, LoudSounds
  <2> QED BY <1>2, <2>3, <2>4 DEF WithSample, n
<1> QED BY <1>1, <1>2

LEMMA WithNoteSounds ==
  ASSUME NEW v, NEW m \in Nat, Sounds(v, m), NEW r \in RowDigits
  PROVE  Sounds(WithNote(v, r), m)
<1> DEFINE note  == NoteOf(r.period) + finetune[v.sample] * Notes
           noted == [v EXCEPT !.note = note,
                              !.vibrato = IF v.vibratoWave < 4 THEN 0 ELSE @,
                              !.tremolo = IF v.tremoloWave < 4 THEN 0 ELSE @]
<1>1. Sounds(noted, m)
  BY SMT DEF Sounds
<1> HIDE DEF note, noted
<1>2. Sounds(Pitch(noted, v.period), m) /\ Sounds(Pitch(noted, Period(note)), m)
  BY <1>1, PitchSounds
<1> QED BY <1>2 DEF WithNote, note, noted

LEMMA Digits ==
  ASSUME NEW r \in RowDigits
  PROVE  /\ r.fx \in 0 .. 15 /\ r.x \in 0 .. 15 /\ r.y \in 0 .. 15
         /\ Value(r) \in 0 .. 255
  BY SMT DEF RowDigits, Value

LEMMA SizeType ==
  ASSUME NEW old \in Nat, NEW low \in Nat, NEW a \in Nat, NEW b \in Nat
  PROVE  Size(old, low, <<a, b>>) \in Nat
  BY SMT DEF Size

LEMMA ExtendedSounds ==
  ASSUME NEW v, NEW m \in Nat, Sounds(v, m), Given(m), NEW r \in RowDigits, r.x # 7
  PROVE  Sounds(Extended(v, r), m)
<1>1. CASE r.x \in {1, 2}
  <2>1. Sounds(Pitch(v, v.period - r.y), m) /\ Sounds(Pitch(v, v.period + r.y), m)
    BY PitchSounds
  <2>2. CASE r.x = 1
    BY <2>1, <2>2, SMT DEF Extended
  <2>3. CASE r.x = 2
    BY <2>1, <2>3, SMT DEF Extended
  <2> QED BY <1>1, <2>2, <2>3
<1>2. CASE r.x = 4
  <2>1. Sounds([v EXCEPT !.vibratoWave = r.y], m)
    BY Digits, SMT DEF Sounds
  <2> QED BY <1>2, <2>1, SMT DEF Extended
<1>3. CASE r.x = 10
  <2>1. AtMost(v.volume + r.y, 63) \in 0 .. 64
    BY Digits, SMT DEF Sounds, AtMost
  <2>2. Sounds(Loud(v, AtMost(v.volume + r.y, 63)), m)
    BY <2>1, LoudSounds
  <2> QED BY <1>3, <2>2, SMT DEF Extended
<1>4. CASE r.x = 11
  <2>1. AtLeast(v.volume - r.y, 0) \in 0 .. 64
    BY Digits, SMT DEF Sounds, AtLeast
  <2>2. Sounds(Loud(v, AtLeast(v.volume - r.y, 0)), m)
    BY <2>1, LoudSounds
  <2> QED BY <1>4, <2>2, SMT DEF Extended
<1>5. CASE r.x \notin {1, 2, 4, 10, 11}
  BY <1>5, SMT DEF Extended
<1> QED BY <1>1, <1>2, <1>3, <1>4, <1>5

LEMMA WithCommandSounds ==
  ASSUME NEW v, NEW m \in Nat, Sounds(v, m), Given(m), NEW r \in RowDigits,
         ~(r.fx = 14 /\ r.x = 7)
  PROVE  Sounds(WithCommand(v, r), m)
<1>d. r.fx \in 0 .. 15 /\ r.x \in 0 .. 15 /\ r.y \in 0 .. 15 /\ Value(r) \in 0 .. 255
  BY Digits
<1>1. CASE r.fx = 3
  <2>1. Sounds([v EXCEPT !.slideSpeed = IF Value(r) = 0 THEN @ ELSE Value(r),
                         !.slideTo = IF r.period = 0 THEN @ ELSE Period(v.note)], m)
    BY SMT DEF Sounds
  <2> QED BY <1>1, <2>1, SMT DEF WithCommand
<1>2. CASE r.fx = 4
  <2>1. Sounds([v EXCEPT !.vibratoSize = Size(@, r.x, <<r.y, r.x>>)], m)
    BY SMT DEF Sounds
  <2> QED BY <1>2, <2>1, SMT DEF WithCommand
<1>3. CASE r.fx = 7
  <2>1. Size(v.tremoloSize, r.x, <<r.y, r.y>>) \in Nat
    <3>1. r.x \in Nat /\ r.y \in Nat /\ v.tremoloSize \in Nat
      BY <1>d, SMT DEF Sounds
    <3> QED BY <3>1, SizeType
  <2>2. Sounds([v EXCEPT !.tremoloSize = Size(@, r.x, <<r.y, r.y>>)], m)
    BY <2>1, SMT DEF Sounds
  <2> QED BY <1>3, <2>2, SMT DEF WithCommand
<1>4. CASE r.fx = 12
  <2>1. (IF Value(r) > 64 THEN 63 ELSE Value(r)) \in 0 .. 64
    BY <1>d, SMT
  <2>2. Sounds(Loud(v, IF Value(r) > 64 THEN 63 ELSE Value(r)), m)
    BY <2>1, LoudSounds
  <2> QED BY <1>4, <2>2, SMT DEF WithCommand
<1>5. CASE r.fx = 14
  BY <1>5, ExtendedSounds, SMT DEF WithCommand
<1>6. CASE r.fx \notin {3, 4, 7, 12, 14}
  BY <1>6, SMT DEF WithCommand
<1> QED BY <1>1, <1>2, <1>3, <1>4, <1>5, <1>6

(* The commands between rows. *)
LEMMA VolumeSlideSounds ==
  ASSUME NEW v, NEW m \in Nat, Sounds(v, m), Given(m), NEW r \in RowDigits
  PROVE  Sounds(VolumeSlide(v, r), m)
<1> DEFINE n == IF Value(r) <= 16 THEN AtLeast(v.volume - Value(r), 0)
                                  ELSE AtMost(v.volume + r.x, 63)
<1>1. n \in 0 .. 64
  BY Digits, SMT DEF Sounds, AtLeast, AtMost
<1> HIDE DEF n
<1>2. Sounds(Loud(v, n), m)
  BY <1>1, LoudSounds
<1> QED BY <1>2 DEF VolumeSlide, n

LEMMA GlideSounds ==
  ASSUME NEW v, NEW m \in Nat, Sounds(v, m)
  PROVE  Sounds(Glide(v), m)
  BY PitchSounds DEF Glide

LEMMA VibratoSounds ==
  ASSUME NEW v, NEW m \in Nat, Sounds(v, m)
  PROVE  Sounds(Vibrato(v), m)
<1> DEFINE bend == (Wave(v.vibratoWave, v.vibrato, v.vibrato < 0) * (v.vibratoSize \div 16)) \div 128
           rate == v.period + (IF v.vibrato < 0 THEN -bend ELSE bend)
           pos  == Onward(v.vibrato, v.vibratoSize % 16)
<1> HIDE DEF bend, rate, pos
<1>1. Sounds([v EXCEPT !.rate = rate, !.vibrato = pos], m)
  BY SMT DEF Sounds
<1> QED BY <1>1 DEF Vibrato, bend, rate, pos

LEMMA WaveType ==
  ASSUME NEW shape \in 0 .. 15, NEW pos \in Int, NEW falling \in BOOLEAN
  PROVE  Wave(shape, pos, falling) \in Int
<1>1. (pos % 32) \in 0 .. 31
  BY SMT
<1>2. (pos % 32) + 1 \in 1 .. 32
  BY <1>1, SMT
<1>3. \A i \in 1 .. 32 : SineTable[i] \in Int
  BY SMT DEF SineTable
<1> DEFINE p == (pos % 32)
<1> HIDE DEF p
<1>4. 255 - 8 * p \in Int /\ 8 * p \in Int
  BY <1>1, SMT DEF p
<1> QED BY <1>2, <1>3, <1>4, SMT DEF Wave, p

LEMMA TremoloSounds ==
  ASSUME NEW v, NEW m \in Nat, Sounds(v, m), Given(m)
  PROVE  Sounds(Tremolo(v), m)
<1> DEFINE wave == Wave(v.vibratoWave, v.tremolo, v.tremolo < 0)
           bend == (wave * v.tremoloWave) \div 64
           n    == AtMost(v.volume + (IF v.tremolo < 0 THEN -bend ELSE bend), 63)
           pos  == Onward(v.tremolo, v.tremoloSize % 16)
           level == Level(n, master)
<1>1. wave \in Int
  <2>1. (v.tremolo < 0) \in BOOLEAN
    BY SMT DEF Sounds
  <2> QED BY <2>1, WaveType DEF Sounds
<1> HIDE DEF wave
<1>2. bend = 0
  BY <1>1, SMT DEF Sounds
<1> HIDE DEF bend
<1>3. n \in 0 .. 64
  BY <1>2, SMT DEF Sounds, AtMost
<1>4. pos \in Int
  BY SMT DEF Sounds, Onward
<1> HIDE DEF n, pos
<1>5. level \in Nat
  BY <1>3, LevelType DEF Given
<1> HIDE DEF level
<1>6. Sounds([v EXCEPT !.level = level, !.bent = TRUE, !.tremolo = pos], m)
  BY <1>4, <1>5, SMT DEF Sounds
<1> QED BY <1>6 DEF Tremolo, bend, wave, n, pos, level

LEMMA EffectSounds ==
  ASSUME NEW v, NEW m \in Nat, Sounds(v, m), Given(m), NEW r \in RowDigits, NEW tick \in 0 .. 5
  PROVE  Sounds(MOD_UpdateEffect(v, r, tick), m)
<1>1. Sounds(Arpeggio(v, r, tick), m)
  BY SMT DEF Sounds, Arpeggio
<1>2. /\ Sounds(Pitch(v, AtLeast(v.period - Value(r), Lowest)), m)
      /\ Sounds(Pitch(v, AtMost(v.period + Value(r), Highest)), m)
  BY PitchSounds
<1>3. Sounds(Glide(v), m) /\ Sounds(Vibrato(v), m) /\ Sounds(Tremolo(v), m)
  BY GlideSounds, VibratoSounds, TremoloSounds
<1>4. Sounds(VolumeSlide(v, r), m)
  BY VolumeSlideSounds
<1>5. Sounds(Glide(VolumeSlide(v, r)), m) /\ Sounds(Vibrato(VolumeSlide(v, r)), m)
  BY <1>4, GlideSounds, VibratoSounds
<1>6. Sounds(Loud(v, 0), m)
  <2>1. 0 \in 0 .. 64
    BY SMT
  <2> QED BY <2>1, LoudSounds
<1> QED BY <1>1, <1>2, <1>3, <1>4, <1>5, <1>6, Zenon DEF MOD_UpdateEffect

LEMMA VolumeInit == VoiceInit => VolumeInv
<1> SUFFICES ASSUME VoiceInit PROVE VolumeInv
  OBVIOUS
<1>1. AsideInv
  BY SMT DEF VoiceInit, AsideInv, Given, Default
<1>2. Sounds(Silent, music)
  BY <1>1, SilentSounds DEF AsideInv
<1> QED BY <1>1, <1>2, SMT DEF VoiceInit, VolumeInv, NoRow, RowDigits

LEMMA VolumeStep ==
  ASSUME NoTremoloWave, VolumeInv, [VoiceNext]_voiceVars
  PROVE  VolumeInv'
<1> USE DEF VolumeInv
<1>m. music \in Nat /\ Sounds(voice, music) /\ Given(music)
  BY DEF AsideInv
<1>1. ASSUME NEW r \in RowSet, MOD_UpdateRow(r) PROVE VolumeInv'
  <2>2. r \in RowDigits
    BY RowsAssumption DEF RowDigits
  <2>3. Sounds(WithSample(voice, r), music)
    BY <1>m, <2>2, WithSampleSounds
  <2>4. Sounds(WithNote(WithSample(voice, r), r), music)
    BY <1>m, <2>2, <2>3, WithNoteSounds
  <2>5. Sounds(WithCommand(WithNote(WithSample(voice, r), r), r), music)
    BY <1>m, <2>2, <2>4, WithCommandSounds DEF NoTremoloWave
  <2>6. UNCHANGED <<master, call, music>> /\ row' = r
    BY <1>1 DEF MOD_UpdateRow
  <2>7. voice' = WithCommand(WithNote(WithSample(voice, r), r), r)
    BY <1>1 DEF MOD_UpdateRow
  <2>8. Sounds(voice, music)'
    BY <2>5, <2>6, <2>7, VoiceCopied
  <2> QED BY <2>2, <2>6, <2>8 DEF AsideInv, Given
<1>2. ASSUME NEW tick \in 0 .. 5, Tick(tick) PROVE VolumeInv'
  <2>2. Sounds(MOD_UpdateEffect(voice, row, tick), music)
    BY <1>m, EffectSounds
  <2>3. UNCHANGED <<row, master, call, music>> /\ voice' = MOD_UpdateEffect(voice, row, tick)
    BY <1>2 DEF Tick
  <2>4. Sounds(voice, music)'
    BY <2>2, <2>3, VoiceCopied
  <2> QED BY <2>3, <2>4 DEF AsideInv, Given
<1>3. ASSUME LoadVoices PROVE VolumeInv'
  <2>1. voice' = Silent /\ row' = NoRow /\ UNCHANGED <<master, call, music>>
    BY <1>3 DEF LoadVoices
  <2>2. Sounds(Silent, music)
    BY <1>m, SilentSounds
  <2>3. Sounds(voice, music)'
    BY <2>1, <2>2, VoiceCopied
  <2>4. NoRow \in RowDigits
    BY SMT DEF NoRow, RowDigits
  <2> QED BY <2>1, <2>3, <2>4 DEF AsideInv, Given
<1>4. ASSUME NEW m \in Volumes, MOD_SetMusicVolume(m) PROVE VolumeInv'
  <2>1. /\ master' = m /\ music' = m /\ call' = <<"setting", 0>> /\ UNCHANGED row
        /\ voice' = [voice EXCEPT !.bent = TRUE]
    BY <1>4 DEF MOD_SetMusicVolume
  <2>2. m \in Nat
    <3>1. m \in 0 .. Loudest
      BY RowsAssumption
    <3> QED BY <3>1, SMT
  <2>3. Sounds(voice, music)'
    BY <1>m, <2>1, SMT DEF Sounds
  <2>4. AsideInv'
    BY <2>1, <2>2, SMT DEF AsideInv, Given
  <2> QED BY <2>1, <2>3, <2>4
<1>5. ASSUME PutAside \/ PutBack PROVE VolumeInv'
  <2>1. UNCHANGED <<voice, row, music>> /\ call'[1] \in {"none", "playing"}
    BY <1>5 DEF PutAside, PutBack
  <2>2. AsideInv'
    BY <1>5, SMT DEF PutAside, PutBack, AsideInv, Given, Default, Amid
  <2>3. Sounds(voice, music)'
    BY <1>m, <2>1, SMT DEF Sounds
  <2> QED BY <2>1, <2>2, <2>3
<1>6. ASSUME ShiftsOut PROVE VolumeInv'
  <2>1. /\ call[1] = "setting" /\ call' = <<"shifted", 0>> /\ UNCHANGED <<row, master, music>>
        /\ voice' = [voice EXCEPT !.volume = 0, !.bent = TRUE, !.amid = FALSE]
    BY <1>6 DEF ShiftsOut
  <2>2. AsideInv'
    BY <2>1, SMT DEF AsideInv, Given
  <2>3. Sounds(voice, music)'
    BY <1>m, <2>1, SMT DEF Sounds
  <2> QED BY <2>1, <2>2, <2>3
<1>7. ASSUME GivesVolume PROVE VolumeInv'
  <2>1. call[1] = "shifted" /\ call' = <<"none", 0>> /\ UNCHANGED <<row, master, music>>
    BY <1>7 DEF GivesVolume
  <2>2. PICK n \in {0, Unshifted} : voice' = [voice EXCEPT !.level = n, !.bent = FALSE]
    BY <1>7 DEF GivesVolume
  <2>3. n \in Nat /\ (voice.volume = 0 => n = 0) /\ Level(0, music) = 0
    <3>1. voice.volume \in Nat /\ master \in Nat
      BY <1>m, SMT DEF Sounds, Given
    <3>2. /\ voice.volume * master \in Nat /\ 0 * music = 0
          /\ voice.volume = 0 => voice.volume * master = 0
      BY <1>m, <3>1, SMT
    <3> QED BY <3>2, SMT DEF Level, Unshifted
  <2>4. AsideInv'
    BY <2>1, SMT DEF AsideInv, Given
  <2>6. ~voice.amid => n = Level(voice.volume, music)
    BY <1>m, <2>1, <2>3 DEF Sounds
  <2>7. Sounds(voice, music)'
    BY <1>m, <2>1, <2>2, <2>3, <2>6, SMT DEF Sounds
  <2> QED BY <2>1, <2>4, <2>7
<1>8. ASSUME UNCHANGED voiceVars PROVE VolumeInv'
  <2>1. UNCHANGED <<voice, row, master, call, music>>
    BY <1>8 DEF voiceVars
  <2>3. Sounds(voice, music)'
    BY <1>m, <2>1 DEF Sounds
  <2> QED BY <2>1, <2>3 DEF AsideInv, Given
<1> QED BY <1>1, <1>2, <1>3, <1>4, <1>5, <1>6, <1>7, <1>8 DEF VoiceNext

(* A voice of the song is as loud as its channel's volume at the volume    *)
(* the program gave the music, and never below 0 (modplayer.h), with every *)
(* row, instrument and volume and with polls and calls in any order.       *)
THEOREM VolumeKept ==
  ASSUME NoTremoloWave
  PROVE  VoiceSpec => []MusicKeepsItsVolume
<1>1. VolumeInv => MusicKeepsItsVolume
  BY SMT DEF VolumeInv, Sounds, MusicKeepsItsVolume, LevelsArePlayable, MusicVolumeHolds
<1>2. VolumeInv /\ [VoiceNext]_voiceVars => VolumeInv'
  BY VolumeStep
<1> QED BY <1>1, <1>2, VolumeInit, PTL DEF VoiceSpec

-----------------------------------------------------------------------------

(* The notes of a song.  Every period a voice comes to is one of the table *)
(* or lies between two of them, so a sample rate is never more than a      *)
(* vibrato away from the table's.                                          *)
TableNotes == 0 .. Tunings * Notes - 1
TablePeriods == Lowest .. Highest

LEMMA TableRanges ==
  /\ Notes \in Nat \ {0} /\ Tunings \in Nat \ {0}
  /\ Lowest \in Nat \ {0} /\ Highest \in Nat /\ Lowest < Highest
  BY NotesAssumption

(* No arpeggio of the song leads out of the table from this note. *)
Room(note) ==
  \A r \in Arpeggios : note + r.x \in TableNotes /\ note + r.y \in TableNotes

Tuned(v) ==
  /\ {"note", "period", "slideTo", "slideSpeed", "volume", "sample", "vibrato", "vibratoSize",
      "vibratoWave", "tremolo", "tremoloSize", "tremoloWave", "rate", "level", "bent",
      "amid"}
       \subseteq DOMAIN v
  /\ v.note \in TableNotes /\ v.sample \in DOMAIN Instruments /\ v.volume \in 0 .. 64
  /\ v.period \in {0} \cup TablePeriods /\ v.slideTo \in {0} \cup TablePeriods
  /\ v.slideSpeed \in 0 .. 255
  /\ v.vibrato \in -32 .. 31 /\ v.vibratoSize \in 0 .. 255 /\ v.vibratoWave \in 0 .. 15
  /\ v.tremolo \in -32 .. 31 /\ v.tremoloSize \in 0 .. 255 /\ v.tremoloWave \in 0 .. 15
  /\ v.rate \in (Lowest - 29) .. (Highest + 29)
  /\ v.period # 0 => Room(v.note)

PlayedInv ==
  /\ row \in RowSet \cup {NoRow}
  /\ voice.period = 0 => row = NoRow
  /\ row.fx \in {3, 5} => voice.slideTo # 0
  /\ asked # -1 => voice.note = asked

Calls == {"none", "playing", "setting", "shifted"}
TuningInv ==
  /\ finetune \in [DOMAIN Instruments -> 0 .. Tunings - 1]
  /\ master \in 0 .. Loudest
  /\ call \in Calls \X (0 .. Loudest)

NotesInv == Tuned(voice) /\ PlayedInv /\ TuningInv

LEMMA TuningRange ==
  ASSUME NEW f \in 0 .. Tunings - 1, NEW i \in 0 .. Notes - 1
  PROVE  i + f * Notes \in TableNotes
<1> DEFINE k == Tunings - 1 - f
<1>1. k \in Nat /\ f \in Nat /\ Notes \in Nat /\ Tunings = f + 1 + k
  BY TableRanges, SMT
<1>2. Tunings * Notes = f * Notes + Notes + k * Notes
  BY <1>1, SMT
<1>3. k * Notes \in Nat /\ f * Notes \in Nat
  BY <1>1, SMT
<1> HIDE DEF k
<1> DEFINE kn == k * Notes
           fn == f * Notes
           tn == Tunings * Notes
<1>4. kn \in Nat /\ fn \in Nat /\ tn = fn + Notes + kn
  BY <1>2, <1>3
<1> HIDE DEF kn, fn, tn
<1>5. i + fn \in 0 .. tn - 1
  BY <1>4, <1>1, SMT
<1> QED BY <1>5 DEF fn, tn, TableNotes

LEMMA PeriodInTable ==
  ASSUME NEW n \in TableNotes
  PROVE  Period(n) \in TablePeriods /\ Period(n) # 0
<1>1. n \in DOMAIN PeriodTable /\ PeriodTable[n] \in Lowest .. Highest
  BY NotesAssumption DEF TableNotes
<1>2. Period(n) = PeriodTable[n]
  BY <1>1 DEF Period
<1> QED BY <1>1, <1>2, TableRanges, SMT DEF TablePeriods

(* The search finds the note a song asks for: the first tuning has each    *)
(* period once, and the one it never looks at is not asked for.            *)
LEMMA FoundNote ==
  ASSUME NEW p, NoteOf(p) # -1
  PROVE  /\ NoteOf(p) \in 0 .. Notes - 2
         /\ NoteOf(p) = CHOOSE i \in 0 .. Notes - 1 : PeriodTable[i] = p
<1> DEFINE hits == {i \in 0 .. Notes - 2 : PeriodTable[i] = p}
<1>1. hits # {}
  BY DEF NoteOf
<1>2. PICK i \in 0 .. Notes - 2 : PeriodTable[i] = p
  BY <1>1
<1>3. i \in 0 .. Notes - 1 /\ \A j \in 0 .. Notes - 1 : PeriodTable[j] = p => j = i
  BY <1>2, NotesAssumption, SMT
<1>4. (CHOOSE j \in 0 .. Notes - 1 : PeriodTable[j] = p) = i
  BY <1>2, <1>3
<1>5. hits = {i}
  <2>1. \A j \in 0 .. Notes - 2 : j \in 0 .. Notes - 1
    BY TableRanges, SMT
  <2> QED BY <1>2, <1>3, <2>1
<1>6. i <= i
  BY <1>2, SMT
<1>7. NoteOf(p) = i
  BY <1>5, <1>6 DEF NoteOf
<1> QED BY <1>2, <1>4, <1>7

LEMMA SongRows == \A r \in RowSet : r \in RowDigits
  BY RowsAssumption DEF RowDigits

LEMMA ArpeggioDigits ==
  ASSUME NEW s \in Arpeggios
  PROVE  s.x \in 0 .. 15 /\ s.y \in 0 .. 15
<1>1. s \in RowSet
  BY DEF Arpeggios
<1>2. s \in RowDigits
  BY <1>1, SongRows
<1> QED BY <1>2, Digits

LEMMA NotedRow ==
  ASSUME KeepsToTable, NEW r \in RowSet, r.period # 0, NEW f \in 0 .. Tunings - 1
  PROVE  /\ NoteOf(r.period) + f * Notes \in TableNotes
         /\ Room(NoteOf(r.period) + f * Notes)
<1> DEFINE i == NoteOf(r.period)
<1>1. i \in 0 .. Notes - 2 /\ i # -1
  BY FoundNote DEF KeepsToTable
<1>2. i \in 0 .. Notes - 1
  BY <1>1, TableRanges, SMT
<1>3. ASSUME NEW s \in Arpeggios PROVE i + s.x \in 0 .. Notes - 1 /\ i + s.y \in 0 .. Notes - 1
  <2>1. i + s.x < Notes /\ i + s.y < Notes
    BY DEF KeepsToTable
  <2>2. s.x \in 0 .. 15 /\ s.y \in 0 .. 15
    BY ArpeggioDigits
  <2> HIDE DEF i
  <2> QED BY <1>2, <2>1, <2>2, TableRanges, SMT
<1> HIDE DEF i
<1>4. f * Notes \in Int
  BY TableRanges, SMT
<1> DEFINE fn == f * Notes
<1> HIDE DEF fn
<1>5. ASSUME NEW s \in Arpeggios
      PROVE (i + fn) + s.x \in TableNotes /\ (i + fn) + s.y \in TableNotes
  <2>1. (i + s.x) + fn \in TableNotes /\ (i + s.y) + fn \in TableNotes
    BY <1>3, TuningRange DEF fn
  <2>2. s.x \in 0 .. 15 /\ s.y \in 0 .. 15
    BY ArpeggioDigits
  <2>3. (i + s.x) + fn = (i + fn) + s.x /\ (i + s.y) + fn = (i + fn) + s.y
    BY <1>2, <1>4, <2>2, SMT DEF fn
  <2> QED BY <2>1, <2>3
<1>6. i + fn \in TableNotes
  BY <1>2, TuningRange DEF fn
<1> QED BY <1>5, <1>6 DEF fn, i, Room

-----------------------------------------------------------------------------
(* What a row makes of a voice. *)
LEMMA LoudTuned ==
  ASSUME NEW v, Tuned(v), NEW n \in 0 .. 64
  PROVE  /\ Tuned(Loud(v, n)) /\ Loud(v, n).period = v.period
         /\ Loud(v, n).note = v.note /\ Loud(v, n).slideTo = v.slideTo
         /\ Loud(v, n).sample = v.sample
<1> DEFINE level == Level(n, master)
<1> HIDE DEF level
<1>1. Loud(v, n) = [v EXCEPT !.volume = n, !.level = level, !.bent = FALSE, !.amid = Amid]
  BY DEF Loud, level
<1> QED BY <1>1, SMT DEF Tuned

LEMMA PitchTuned ==
  ASSUME NEW v, Tuned(v), Room(v.note), NEW p \in TablePeriods
  PROVE  /\ Tuned(Pitch(v, p)) /\ Pitch(v, p).period = p
         /\ Pitch(v, p).note = v.note /\ Pitch(v, p).slideTo = v.slideTo
         /\ Pitch(v, p).sample = v.sample
<1>1. p \in (Lowest - 29) .. (Highest + 29)
  BY TableRanges, SMT DEF TablePeriods
<1>2. Pitch(v, p) = [v EXCEPT !.period = p, !.rate = p]
  BY DEF Pitch
<1> QED BY <1>1, <1>2, SMT DEF Tuned

LEMMA WithSampleTuned ==
  ASSUME NEW v, Tuned(v), NEW r \in RowDigits
  PROVE  LET w == WithSample(v, r)
         IN  /\ Tuned(w) /\ w.period = v.period /\ w.note = v.note /\ w.slideTo = v.slideTo
             /\ w.sample \in DOMAIN Instruments
<1>1. CASE r.sample = 0
  BY <1>1 DEF WithSample, Tuned
<1>2. CASE r.sample # 0
  <2> DEFINE n == AtMost(Instruments[r.sample].volume, 63)
             s == r.sample
             u == [v EXCEPT !.sample = s]
             b == [v EXCEPT !.sample = s, !.volume = n, !.bent = TRUE, !.amid = Amid]
  <2>1. s \in DOMAIN Instruments
    BY <1>2 DEF RowDigits
  <2>2. n \in 0 .. 64
    <3>1. Instruments[r.sample].volume \in Nat
      BY <2>1, InstrumentsAssumption
    <3> QED BY <3>1, SMT DEF AtMost
  <2> HIDE DEF n, s
  <2>3. Tuned(u) /\ u.period = v.period /\ u.note = v.note /\ u.slideTo = v.slideTo /\ u.sample = s
    BY <2>1, SMT DEF Tuned
  <2>4. Tuned(b) /\ b.period = v.period /\ b.note = v.note /\ b.slideTo = v.slideTo /\ b.sample = s
    BY <2>1, <2>2, SMT DEF Tuned
  <2> HIDE DEF u, b
  <2>5. /\ Tuned(Loud(u, n)) /\ Loud(u, n).period = u.period /\ Loud(u, n).note = u.note
        /\ Loud(u, n).slideTo = u.slideTo /\ Loud(u, n).sample = u.sample
    BY <2>2, <2>3, LoudTuned
  <2>6. WithSample(v, r) = IF r.fx = 7 THEN b ELSE Loud(u, n)
    BY <1>2 DEF WithSample, b, u, n, s
  <2> QED BY <2>1, <2>3, <2>4, <2>5, <2>6
<1> QED BY <1>1, <1>2

LEMMA WithNoteTuned ==
  ASSUME KeepsToTable, TuningInv, NEW v, Tuned(v), NEW r \in RowSet,
         r.fx \in {3, 5} => v.period # 0
  PROVE  LET w == WithNote(v, r)
         IN  /\ Tuned(w) /\ w.slideTo = v.slideTo /\ w.sample = v.sample
             /\ r.period = 0 => w = v
             /\ r.period # 0 =>
                  /\ w.period # 0
                  /\ w.note = (CHOOSE i \in 0 .. Notes - 1 : PeriodTable[i] = r.period)
                               + finetune[v.sample] * Notes
<1>1. CASE r.period = 0
  BY <1>1 DEF WithNote
<1>2. CASE r.period # 0
  <2> DEFINE f == finetune[v.sample]
             note == NoteOf(r.period) + f * Notes
             vib == IF v.vibratoWave < 4 THEN 0 ELSE v.vibrato
             tre == IF v.tremoloWave < 4 THEN 0 ELSE v.tremolo
             u == [v EXCEPT !.note = note, !.vibrato = vib, !.tremolo = tre]
             p == IF r.fx \in {3, 5} THEN v.period ELSE Period(note)
  <2>1. f \in 0 .. Tunings - 1
    BY DEF Tuned, TuningInv
  <2> HIDE DEF f
  <2>2. /\ note \in TableNotes /\ Room(note)
        /\ note = (CHOOSE i \in 0 .. Notes - 1 : PeriodTable[i] = r.period) + f * Notes
    <3>1. note \in TableNotes /\ Room(note)
      BY <1>2, <2>1, NotedRow
    <3>2. NoteOf(r.period) # -1
      BY <1>2 DEF KeepsToTable
    <3>3. NoteOf(r.period) = CHOOSE i \in 0 .. Notes - 1 : PeriodTable[i] = r.period
      BY <3>2, FoundNote
    <3> QED BY <3>1, <3>3
  <2> HIDE DEF note
  <2>3. vib \in -32 .. 31 /\ tre \in -32 .. 31
    BY SMT DEF Tuned
  <2> HIDE DEF vib, tre
  <2>4. /\ Tuned(u) /\ u.note = note /\ u.period = v.period
        /\ u.slideTo = v.slideTo /\ u.sample = v.sample
    BY <2>2, <2>3, SMT DEF Tuned
  <2>5. p \in TablePeriods /\ p # 0
    <3>1. Period(note) \in TablePeriods /\ Period(note) # 0
      BY <2>2, PeriodInTable
    <3>2. r.fx \in {3, 5} => v.period \in TablePeriods /\ v.period # 0
      BY DEF Tuned
    <3> QED BY <3>1, <3>2
  <2>6. WithNote(v, r) = Pitch(u, p)
    BY <1>2, <2>4 DEF WithNote, u, p, note, f, vib, tre
  <2> HIDE DEF u, p
  <2>7. /\ Tuned(Pitch(u, p)) /\ Pitch(u, p).period = p
        /\ Pitch(u, p).note = u.note /\ Pitch(u, p).slideTo = u.slideTo
        /\ Pitch(u, p).sample = u.sample
    BY <2>2, <2>4, <2>5, PitchTuned
  <2> QED BY <1>2, <2>2, <2>4, <2>5, <2>6, <2>7 DEF f
<1> QED BY <1>1, <1>2

LEMMA SizeRange ==
  ASSUME NEW old \in 0 .. 255, NEW low \in 0 .. 15, NEW a \in 0 .. 15, NEW b \in 0 .. 15
  PROVE  Size(old, low, <<a, b>>) \in 0 .. 255
<1>1. old % 16 \in 0 .. 15 /\ old \div 16 \in 0 .. 15
  BY SMT
<1> DEFINE m == old % 16
           d == old \div 16
<1> HIDE DEF m, d
<1>2. m \in 0 .. 15 /\ d \in 0 .. 15
  BY <1>1 DEF m, d
<1>3. (IF low = 0 THEN m ELSE low) + 16 * (IF a = 0 THEN d ELSE b) \in 0 .. 255
  BY <1>2, SMT
<1> QED BY <1>3 DEF Size, m, d

(* The rest of the row leaves the note. *)
Keeps(w, v) ==
  Tuned(w) /\ w.note = v.note /\ w.sample = v.sample /\ (v.period # 0 => w.period # 0)

LEMMA ExtendedTuned ==
  ASSUME KeepsToTable, NEW v, Tuned(v), NEW r \in RowSet, r.fx = 14
  PROVE  Keeps(Extended(v, r), v)
<1>d. /\ r.x \in 0 .. 15 /\ r.y \in 0 .. 15 /\ r.x \notin {1, 2}
  BY SongRows, Digits DEF KeepsToTable
<1>1. CASE r.x = 4
  <2> DEFINE y == r.y
             w == [v EXCEPT !.vibratoWave = y]
  <2>1. y \in 0 .. 15
    BY <1>d
  <2> HIDE DEF y
  <2>2. Keeps(w, v)
    BY <2>1, SMT DEF Keeps, Tuned
  <2> HIDE DEF w
  <2>3. Extended(v, r) = w
    BY <1>1, SMT DEF Extended, w, y
  <2> QED BY <2>2, <2>3
<1>2. CASE r.x = 7
  <2> DEFINE y == r.y
             w == [v EXCEPT !.tremoloWave = y]
  <2>1. y \in 0 .. 15
    BY <1>d
  <2> HIDE DEF y
  <2>2. Keeps(w, v)
    BY <2>1, SMT DEF Keeps, Tuned
  <2> HIDE DEF w
  <2>3. Extended(v, r) = w
    BY <1>2, SMT DEF Extended, w, y
  <2> QED BY <2>2, <2>3
<1>3. CASE r.x = 10 \/ r.x = 11
  <2> DEFINE up == AtMost(v.volume + r.y, 63)
             down == AtLeast(v.volume - r.y, 0)
  <2>1. up \in 0 .. 64 /\ down \in 0 .. 64
    BY <1>d, SMT DEF Tuned, AtMost, AtLeast
  <2>2. Extended(v, r) = Loud(v, up) \/ Extended(v, r) = Loud(v, down)
    BY <1>3, SMT DEF Extended
  <2> HIDE DEF up, down
  <2>3. Keeps(Loud(v, up), v) /\ Keeps(Loud(v, down), v)
    BY <2>1, LoudTuned DEF Keeps
  <2> QED BY <2>2, <2>3
<1>4. CASE r.x \notin {4, 7, 10, 11}
  <2>1. Extended(v, r) = v
    BY <1>4, <1>d, SMT DEF Extended
  <2> QED BY <2>1 DEF Keeps
<1> QED BY <1>1, <1>2, <1>3, <1>4

LEMMA WithCommandTuned ==
  ASSUME KeepsToTable, NEW v, Tuned(v), NEW r \in RowSet
  PROVE  /\ Keeps(WithCommand(v, r), v)
         /\ r.fx \in {3, 5} /\ (v.slideTo # 0 \/ (r.fx = 3 /\ r.period # 0))
              => WithCommand(v, r).slideTo # 0
<1>d. r.fx \in 0 .. 15 /\ r.x \in 0 .. 15 /\ r.y \in 0 .. 15 /\ Value(r) \in 0 .. 255
  BY SongRows, Digits
<1>1. CASE r.fx = 3
  <2> DEFINE sp == IF Value(r) = 0 THEN v.slideSpeed ELSE Value(r)
             to == IF r.period = 0 THEN v.slideTo ELSE Period(v.note)
             w == [v EXCEPT !.slideSpeed = sp, !.slideTo = to]
  <2>1. sp \in 0 .. 255
    BY <1>d DEF Tuned
  <2>2. to \in {0} \cup TablePeriods /\ (v.slideTo # 0 \/ r.period # 0 => to # 0)
    BY PeriodInTable DEF Tuned
  <2> HIDE DEF sp, to
  <2>3. Keeps(w, v) /\ w.slideTo = to
    BY <2>1, <2>2, SMT DEF Keeps, Tuned
  <2>4. WithCommand(v, r) = w
    BY <1>1, SMT DEF WithCommand, w, sp, to, Tuned
  <2> HIDE DEF w
  <2> QED BY <2>2, <2>3, <2>4
<1>2. CASE r.fx = 4
  <2> DEFINE z == Size(v.vibratoSize, r.x, <<r.y, r.x>>)
             w == [v EXCEPT !.vibratoSize = z]
  <2>1. z \in 0 .. 255
    BY <1>d, SizeRange DEF Tuned
  <2> HIDE DEF z
  <2>2. Keeps(w, v)
    BY <2>1, SMT DEF Keeps, Tuned
  <2>3. WithCommand(v, r) = w
    BY <1>2, SMT DEF WithCommand, w, z, Tuned
  <2> HIDE DEF w
  <2> QED BY <1>2, <2>2, <2>3
<1>3. CASE r.fx = 7
  <2> DEFINE z == Size(v.tremoloSize, r.x, <<r.y, r.y>>)
             w == [v EXCEPT !.tremoloSize = z]
  <2>1. z \in 0 .. 255
    BY <1>d, SizeRange DEF Tuned
  <2> HIDE DEF z
  <2>2. Keeps(w, v)
    BY <2>1, SMT DEF Keeps, Tuned
  <2>3. WithCommand(v, r) = w
    BY <1>3, SMT DEF WithCommand, w, z, Tuned
  <2> HIDE DEF w
  <2> QED BY <1>3, <2>2, <2>3
<1>4. CASE r.fx = 12
  <2> DEFINE n == IF Value(r) > 64 THEN 63 ELSE Value(r)
  <2>1. n \in 0 .. 64
    BY <1>d, SMT
  <2>2. WithCommand(v, r) = Loud(v, n)
    BY <1>4, SMT DEF WithCommand
  <2> HIDE DEF n
  <2>3. Keeps(Loud(v, n), v)
    BY <2>1, LoudTuned DEF Keeps
  <2> QED BY <1>4, <2>2, <2>3
<1>5. CASE r.fx = 14
  <2>1. WithCommand(v, r) = Extended(v, r)
    BY <1>5, SMT DEF WithCommand
  <2> QED BY <1>5, <2>1, ExtendedTuned
<1>6. CASE r.fx \notin {3, 4, 7, 12, 14}
  <2>1. WithCommand(v, r) = v
    BY <1>6, SMT DEF WithCommand
  <2> QED BY <1>6, <2>1 DEF Keeps
<1> QED BY <1>1, <1>2, <1>3, <1>4, <1>5, <1>6

-----------------------------------------------------------------------------
(* What a tick makes of it. *)
Ticked(w, v) ==
  /\ Tuned(w) /\ w.note = v.note /\ w.period # 0 /\ w.slideTo = v.slideTo

LEMMA GlideTuned ==
  ASSUME NEW v, Tuned(v), v.period # 0, v.slideTo # 0
  PROVE  Ticked(Glide(v), v)
<1> DEFINE p == IF v.period < v.slideTo THEN AtMost(v.period + v.slideSpeed, v.slideTo)
                ELSE AtLeast(v.period - v.slideSpeed, v.slideTo)
<1>1. v.period \in TablePeriods /\ v.slideTo \in TablePeriods /\ v.slideSpeed \in 0 .. 255
      /\ Room(v.note)
  BY DEF Tuned
<1>2. p \in TablePeriods /\ p # 0
  BY <1>1, TableRanges, SMTT(30) DEF TablePeriods, AtMost, AtLeast
<1>3. Glide(v) = Pitch(v, p)
  BY DEF Glide
<1> HIDE DEF p
<1> QED BY <1>1, <1>2, <1>3, PitchTuned DEF Ticked

LEMMA SlidesTuned ==
  ASSUME NEW v, Tuned(v), v.period # 0, NEW n \in 0 .. 255
  PROVE  /\ Ticked(Pitch(v, AtLeast(v.period - n, Lowest)), v)
         /\ Ticked(Pitch(v, AtMost(v.period + n, Highest)), v)
<1>1. v.period \in TablePeriods /\ Room(v.note)
  BY DEF Tuned
<1> DEFINE p == AtLeast(v.period - n, Lowest)
           q == AtMost(v.period + n, Highest)
<1>2. p \in TablePeriods /\ q \in TablePeriods /\ p # 0 /\ q # 0
  BY <1>1, TableRanges, SMT DEF TablePeriods, AtMost, AtLeast
<1> HIDE DEF p, q
<1>3. Ticked(Pitch(v, p), v) /\ Ticked(Pitch(v, q), v)
  BY <1>1, <1>2, PitchTuned DEF Ticked
<1> QED BY <1>3 DEF p, q

LEMMA WaveRange ==
  ASSUME NEW shape \in 0 .. 15, NEW pos \in Int, NEW falling \in BOOLEAN
  PROVE  Wave(shape, pos, falling) \in 0 .. 255
<1> DEFINE p == (pos % 32)
<1>1. p \in 0 .. 31
  BY SMT
<1> HIDE DEF p
<1>2. \A i \in 1 .. 32 : SineTable[i] \in 0 .. 255
  BY SMT DEF SineTable
<1>3. p + 1 \in 1 .. 32 /\ 255 - 8 * p \in 0 .. 255 /\ 8 * p \in 0 .. 255
  BY <1>1, SMT
<1>4. SineTable[p + 1] \in 0 .. 255
  BY <1>2, <1>3
<1>5. 255 \in 0 .. 255
  BY SMT
<1> QED BY <1>3, <1>4, <1>5, SMT DEF Wave, p

LEMMA OnwardRange ==
  ASSUME NEW pos \in -32 .. 31, NEW n \in 0 .. 255
  PROVE  Onward(pos, n % 16) \in -32 .. 31
<1> DEFINE s == n % 16
<1>1. s \in 0 .. 15
  BY SMT
<1> HIDE DEF s
<1>2. Onward(pos, s) \in -32 .. 31
  BY <1>1, SMT DEF Onward
<1> QED BY <1>2 DEF s

(* A vibrato is at most 29 off: 255 times 15, by 128. *)
LEMMA BendRange ==
  ASSUME NEW w \in 0 .. 255, NEW n \in 0 .. 255
  PROVE  (w * (n \div 16)) \div 128 \in 0 .. 29
<1> DEFINE d == n \div 16
<1>1. d \in 0 .. 15
  BY SMT
<1> HIDE DEF d
<1>2. w * d \in 0 .. 255 * 15
  BY <1>1, SMT
<1> DEFINE b == w * d
<1> HIDE DEF b
<1>3. b \in 0 .. 3825
  BY <1>2, SMT DEF b
<1>4. b \div 128 \in 0 .. 29
  BY <1>3, SMT
<1> QED BY <1>4 DEF b, d

LEMMA VibratoTuned ==
  ASSUME NEW v, Tuned(v), v.period # 0
  PROVE  Ticked(Vibrato(v), v)
<1> DEFINE falling == v.vibrato < 0
           wave == Wave(v.vibratoWave, v.vibrato, falling)
           bend == (wave * (v.vibratoSize \div 16)) \div 128
           rate == v.period + (IF falling THEN -bend ELSE bend)
           pos  == Onward(v.vibrato, v.vibratoSize % 16)
           w == [v EXCEPT !.rate = rate, !.vibrato = pos]
<1>1. v.vibrato \in -32 .. 31 /\ v.vibratoSize \in 0 .. 255 /\ v.vibratoWave \in 0 .. 15
      /\ v.period \in TablePeriods
  BY DEF Tuned
<1>2. falling \in BOOLEAN
  BY <1>1, SMT
<1> HIDE DEF falling
<1>3. wave \in 0 .. 255
  <2>1. v.vibrato \in Int
    BY <1>1, SMT
  <2> QED BY <1>1, <1>2, <2>1, WaveRange
<1> HIDE DEF wave
<1>4. bend \in 0 .. 29
  BY <1>1, <1>3, BendRange
<1> HIDE DEF bend
<1>5. rate \in (Lowest - 29) .. (Highest + 29)
  BY <1>1, <1>4, TableRanges, SMT DEF TablePeriods
<1>6. pos \in -32 .. 31
  BY <1>1, OnwardRange
<1> HIDE DEF rate, pos
<1>7. Ticked(w, v)
  BY <1>5, <1>6, SMT DEF Ticked, Tuned
<1> QED BY <1>7 DEF Vibrato, w, rate, pos, bend, wave, falling

LEMMA TremoloTuned ==
  ASSUME NEW v, Tuned(v), v.period # 0
  PROVE  Ticked(Tremolo(v), v)
<1> DEFINE bend == (Wave(v.vibratoWave, v.tremolo, v.tremolo < 0) * v.tremoloWave) \div 64
           n    == AtMost(v.volume + (IF v.tremolo < 0 THEN -bend ELSE bend), 63)
           level == Level(n, master)
           pos  == Onward(v.tremolo, v.tremoloSize % 16)
           w == [v EXCEPT !.level = level, !.bent = TRUE, !.tremolo = pos]
<1>1. pos \in -32 .. 31
  BY OnwardRange DEF Tuned
<1> HIDE DEF bend, n, level, pos
<1>2. Ticked(w, v)
  BY <1>1, SMT DEF Ticked, Tuned
<1> QED BY <1>2 DEF Tremolo, w, bend, n, level, pos

LEMMA VolumeSlideTuned ==
  ASSUME NEW v, Tuned(v), v.period # 0, NEW r \in RowDigits
  PROVE  Ticked(VolumeSlide(v, r), v)
<1> DEFINE n == IF Value(r) <= 16 THEN AtLeast(v.volume - Value(r), 0)
                                  ELSE AtMost(v.volume + r.x, 63)
<1>1. n \in 0 .. 64
  BY Digits, SMT DEF Tuned, AtLeast, AtMost
<1> HIDE DEF n
<1>2. Ticked(Loud(v, n), v)
  BY <1>1, LoudTuned DEF Ticked
<1> QED BY <1>2 DEF VolumeSlide, n

LEMMA ArpeggioTuned ==
  ASSUME NEW v, Tuned(v), v.period # 0, NEW r \in Arpeggios, NEW tick \in 0 .. 5
  PROVE  Ticked(Arpeggio(v, r, tick), v)
<1> DEFINE a == Period(v.note + r.x)
           b == Period(v.note + r.y)
           rate == CASE tick % 3 = 0 -> v.period
                     [] tick % 3 = 1 -> a
                     [] OTHER        -> b
<1>1. a \in TablePeriods /\ b \in TablePeriods /\ v.period \in TablePeriods
  BY PeriodInTable DEF Tuned, Room
<1>2. rate \in TablePeriods
  BY <1>1, SMT
<1> HIDE DEF a, b, rate
<1>3. rate \in (Lowest - 29) .. (Highest + 29)
  BY <1>2, TableRanges, SMT DEF TablePeriods
<1>4. Ticked([v EXCEPT !.rate = rate], v)
  BY <1>3, SMT DEF Ticked, Tuned
<1> QED BY <1>4 DEF Arpeggio, rate, a, b

LEMMA EffectTuned ==
  ASSUME NEW v, Tuned(v), v.period # 0, NEW r \in RowSet \cup {NoRow}, NEW tick \in 0 .. 5,
         r.fx \in {3, 5} => v.slideTo # 0
  PROVE  Ticked(MOD_UpdateEffect(v, r, tick), v)
<1>d. r \in RowDigits /\ Value(r) \in 0 .. 255
  <2>1. NoRow \in RowDigits
    BY SMT DEF NoRow, RowDigits
  <2> QED BY <2>1, SongRows, Digits
<1>1. r.fx = 0 /\ Value(r) # 0 => r \in Arpeggios
  <2>1. Value(NoRow) = 0
    BY SMT DEF Value, NoRow
  <2> QED BY <2>1 DEF Arpeggios
<1>2. r.fx = 0 /\ Value(r) # 0 => Ticked(Arpeggio(v, r, tick), v)
  BY <1>1, ArpeggioTuned
<1>3. /\ Ticked(Pitch(v, AtLeast(v.period - Value(r), Lowest)), v)
      /\ Ticked(Pitch(v, AtMost(v.period + Value(r), Highest)), v)
  BY <1>d, SlidesTuned
<1>4. r.fx \in {3, 5} => Ticked(Glide(v), v)
  BY GlideTuned
<1>5. Ticked(VolumeSlide(v, r), v)
  BY <1>d, VolumeSlideTuned
<1>6. r.fx = 5 => Ticked(Glide(VolumeSlide(v, r)), v)
  <2>1. r.fx = 5 => Ticked(Glide(VolumeSlide(v, r)), VolumeSlide(v, r))
    BY <1>5, GlideTuned DEF Ticked
  <2> QED BY <1>5, <2>1 DEF Ticked
<1>7. Ticked(Vibrato(VolumeSlide(v, r)), v)
  <2>1. Ticked(Vibrato(VolumeSlide(v, r)), VolumeSlide(v, r))
    BY <1>5, VibratoTuned DEF Ticked
  <2> QED BY <1>5, <2>1 DEF Ticked
<1>8. Ticked(Vibrato(v), v) /\ Ticked(Tremolo(v), v)
  BY VibratoTuned, TremoloTuned
<1>9. Ticked(Loud(v, 0), v)
  <2>1. 0 \in 0 .. 64
    BY SMT
  <2> QED BY <2>1, LoudTuned DEF Ticked
<1>10. Ticked(v, v)
  BY DEF Ticked
<1> QED BY <1>2, <1>3, <1>4, <1>5, <1>6, <1>7, <1>8, <1>9, <1>10, Zenon DEF MOD_UpdateEffect

LEMMA SilentTuned == Tuned(Silent)
<1>1. 0 \in TableNotes
  <2>1. 0 \in 0 .. Tunings - 1 /\ 0 \in 0 .. Notes - 1
    BY TableRanges, SMT
  <2>2. 0 + 0 * Notes \in TableNotes
    BY <2>1, TuningRange
  <2> QED BY <2>2, TableRanges, SMT
<1>2. 1 \in DOMAIN Instruments
  BY InstrumentsAssumption
<1>3. Lowest \in (Lowest - 29) .. (Highest + 29)
  BY TableRanges, SMT
<1> QED BY <1>1, <1>2, <1>3, SMT DEF Silent, Tuned

LEMMA CallTypes == \A c \in Calls : <<c, 0>> \in Calls \X (0 .. Loudest)
  BY SMT DEF Loudest

LEMMA NotesInit == VoiceInit => NotesInv
<1> SUFFICES ASSUME VoiceInit PROVE NotesInv
  OBVIOUS
<1>1. Tuned(voice)
  BY SilentTuned DEF VoiceInit
<1>2. PlayedInv
  BY SMT DEF VoiceInit, PlayedInv, NoRow
<1>3. TuningInv
  <2>1. finetune \in [DOMAIN Instruments -> 0 .. Tunings - 1]
    BY InstrumentsAssumption, Zenon DEF VoiceInit
  <2>2. Default \in 0 .. Loudest /\ 0 \in 0 .. Loudest
    BY SMT DEF Default, Loudest
  <2>3. call \in Calls \X (0 .. Loudest)
    <3>1. <<"none", 0>> \in Calls \X (0 .. Loudest)
      BY <2>2, SMT DEF Calls
    <3> QED BY <3>1 DEF VoiceInit
  <2> QED BY <2>1, <2>2, <2>3 DEF VoiceInit, TuningInv
<1> QED BY <1>1, <1>2, <1>3 DEF NotesInv

LEMMA NotesStep ==
  ASSUME KeepsToTable, NotesInv, [VoiceNext]_voiceVars
  PROVE  NotesInv'
<1> USE DEF NotesInv
<1>1. ASSUME NEW r \in RowSet, MOD_UpdateRow(r) PROVE NotesInv'
  <2> DEFINE u == WithSample(voice, r)
             n == WithNote(u, r)
             w == WithCommand(n, r)
  <2>1. /\ voice' = w /\ row' = r /\ finetune' = Retuned(r) /\ UNCHANGED <<master, call>>
        /\ asked' = IF r.period = 0 THEN -1
                    ELSE (CHOOSE i \in 0 .. Notes - 1 : PeriodTable[i] = r.period)
                         + finetune[voice'.sample] * Notes
    BY <1>1 DEF MOD_UpdateRow
  <2>2. /\ voice.period = 0 => r = NoRow \/ (r.sample # 0 /\ r.period # 0 /\ r.fx \notin {3, 5})
        /\ r.fx \in {3, 5} => voice.slideTo # 0 \/ (r.fx = 3 /\ r.period # 0)
    BY <1>1 DEF MOD_UpdateRow, Playable
  <2>3. r \in RowDigits
    BY SongRows
  <2>4. /\ Tuned(u) /\ u.period = voice.period /\ u.note = voice.note
        /\ u.slideTo = voice.slideTo /\ u.sample \in DOMAIN Instruments
    BY <2>3, WithSampleTuned
  <2> HIDE DEF u
  <2>5. r.fx \in {3, 5} => u.period # 0
    <3>1. NoRow.fx = 0
      BY DEF NoRow
    <3> QED BY <2>2, <2>4, <3>1
  <2>6. /\ Tuned(n) /\ n.slideTo = u.slideTo /\ n.sample = u.sample
        /\ r.period = 0 => n = u
        /\ r.period # 0 =>
             /\ n.period # 0
             /\ n.note = (CHOOSE i \in 0 .. Notes - 1 : PeriodTable[i] = r.period)
                          + finetune[u.sample] * Notes
    BY <2>4, <2>5, WithNoteTuned
  <2> HIDE DEF n
  <2>7. /\ Keeps(w, n)
        /\ r.fx \in {3, 5} /\ (n.slideTo # 0 \/ (r.fx = 3 /\ r.period # 0)) => w.slideTo # 0
    BY <2>6, WithCommandTuned
  <2> HIDE DEF w
  <2>8. Tuned(voice)'
    BY <2>1, <2>7 DEF Keeps, Tuned, Room, Arpeggios, TableNotes, TablePeriods
  <2>9. PlayedInv'
    <3>1. voice'.period = 0 => row' = NoRow
      <4>1. w.period = 0 => n.period = 0
        BY <2>7 DEF Keeps
      <4>2. n.period = 0 => voice.period = 0 /\ r.period = 0
        BY <2>4, <2>6
      <4> QED BY <2>1, <2>2, <4>1, <4>2
    <3>2. row'.fx \in {3, 5} => voice'.slideTo # 0
      BY <2>1, <2>2, <2>4, <2>6, <2>7
    <3>3. asked' # -1 => voice'.note = asked'
      <4>1. w.note = n.note /\ w.sample = u.sample
        BY <2>6, <2>7 DEF Keeps
      <4> QED BY <2>1, <2>6, <4>1
    <3>4. row' \in RowSet
      BY <2>1
    <3> QED BY <3>1, <3>2, <3>3, <3>4 DEF PlayedInv
  <2>10. TuningInv'
    <3>1. finetune' \in [DOMAIN Instruments -> 0 .. Tunings - 1]
      <4>1. CASE r.fx = 14 /\ r.x = 5
        <5> DEFINE s == IF r.sample = 0 THEN 1 ELSE r.sample
        <5>1. s \in DOMAIN Instruments
          BY <2>3, InstrumentsAssumption DEF RowDigits
        <5>2. r.y \in 0 .. Tunings - 1
          BY <4>1, <2>3, Digits, TableRanges, SMT DEF KeepsToTable
        <5>3. finetune' = [finetune EXCEPT ![s] = r.y]
          BY <2>1, <4>1 DEF Retuned
        <5> HIDE DEF s
        <5> QED BY <5>1, <5>2, <5>3 DEF TuningInv
      <4>2. CASE ~(r.fx = 14 /\ r.x = 5)
        BY <2>1, <4>2 DEF Retuned, TuningInv
      <4> QED BY <4>1, <4>2
    <3> QED BY <2>1, <3>1 DEF TuningInv
  <2> QED BY <2>8, <2>9, <2>10
<1>2. ASSUME NEW tick \in 0 .. 5, Tick(tick) PROVE NotesInv'
  <2> DEFINE w == MOD_UpdateEffect(voice, row, tick)
  <2>1. voice' = w /\ UNCHANGED <<row, finetune, master, call, asked>>
    BY <1>2 DEF Tick
  <2>2. CASE voice.period # 0
    <3>1. Ticked(w, voice)
      BY <2>2, EffectTuned DEF PlayedInv
    <3> HIDE DEF w
    <3>2. Tuned(voice)'
      BY <2>1, <3>1 DEF Ticked, Tuned, Room, Arpeggios, TableNotes, TablePeriods
    <3> QED BY <2>1, <3>1, <3>2 DEF Ticked, PlayedInv, TuningInv
  <2>3. CASE voice.period = 0
    <3>1. row = NoRow
      BY <2>3 DEF PlayedInv
    <3>2. Value(NoRow) = 0 /\ NoRow.fx = 0
      BY SMT DEF NoRow, Value
    <3>3. w = voice
      BY <3>1, <3>2, SMT DEF MOD_UpdateEffect
    <3> HIDE DEF w
    <3> QED BY <2>1, <3>3 DEF Tuned, PlayedInv, TuningInv
  <2> QED BY <2>2, <2>3
<1>3. ASSUME LoadVoices PROVE NotesInv'
  <2>1. /\ voice' = Silent /\ row' = NoRow /\ asked' = -1
        /\ finetune' = [s \in DOMAIN Instruments |-> Instruments[s].finetune]
        /\ UNCHANGED <<master, call>>
    BY <1>3 DEF LoadVoices
  <2>2. Tuned(voice)'
    BY <2>1, SilentTuned DEF Tuned, Room
  <2>3. PlayedInv'
    BY <2>1, SMT DEF PlayedInv, NoRow
  <2>4. finetune' \in [DOMAIN Instruments -> 0 .. Tunings - 1]
    BY <2>1, InstrumentsAssumption, Zenon
  <2> QED BY <2>1, <2>2, <2>3, <2>4 DEF TuningInv
<1>4. ASSUME NEW m \in Volumes, MOD_SetMusicVolume(m) PROVE NotesInv'
  <2> DEFINE w == [voice EXCEPT !.bent = TRUE]
  <2>1. /\ master' = m /\ call' = <<"setting", 0>> /\ voice' = w
        /\ UNCHANGED <<row, finetune, asked>>
    BY <1>4 DEF MOD_SetMusicVolume
  <2>2. m \in 0 .. Loudest
    BY RowsAssumption
  <2>3. Tuned(w) /\ w.note = voice.note /\ w.slideTo = voice.slideTo /\ w.period = voice.period
    BY SMT DEF Tuned
  <2> HIDE DEF w
  <2>4. Tuned(voice)'
    BY <2>1, <2>3 DEF Tuned, Room
  <2> QED BY <2>1, <2>2, <2>3, <2>4, CallTypes DEF PlayedInv, TuningInv, Calls
<1>5. ASSUME PutAside \/ PutBack PROVE NotesInv'
  <2>1. UNCHANGED <<voice, row, finetune, asked>>
    BY <1>5 DEF PutAside, PutBack
  <2>2. master' \in 0 .. Loudest /\ call' \in Calls \X (0 .. Loudest)
    <3>1. Default \in 0 .. Loudest /\ 0 \in 0 .. Loudest
      BY SMT DEF Default, Loudest
    <3> DEFINE U == 0 .. Loudest
    <3>2. /\ Default \in U /\ 0 \in U /\ master \in U
          /\ call \in Calls \X U
      BY <3>1 DEF TuningInv
    <3> HIDE DEF U
    <3>3. CASE PutAside
      <4>1. call' = <<"playing", master>> /\ master' = Default
        BY <3>3 DEF PutAside
      <4>2. <<"playing", master>> \in Calls \X U
        BY <3>2, SMT DEF Calls
      <4> QED BY <3>2, <4>1, <4>2 DEF U
    <3>4. CASE PutBack
      <4>1. call' = <<"none", 0>> /\ master' = call[2]
        BY <3>4 DEF PutBack
      <4>2. <<"none", 0>> \in Calls \X U /\ call[2] \in U
        BY <3>2, SMT DEF Calls
      <4> QED BY <4>1, <4>2 DEF U
    <3> QED BY <1>5, <3>3, <3>4
  <2> QED BY <2>1, <2>2 DEF Tuned, Room, PlayedInv, TuningInv
<1>6. ASSUME ShiftsOut \/ GivesVolume PROVE NotesInv'
  <2>1. call' \in {<<"shifted", 0>>, <<"none", 0>>} /\ UNCHANGED <<row, finetune, master, asked>>
    BY <1>6 DEF ShiftsOut, GivesVolume
  <2>3. /\ Tuned(voice') /\ voice'.note = voice.note /\ voice'.slideTo = voice.slideTo
        /\ voice'.period = voice.period
    <3>1. CASE ShiftsOut
      <4>1. voice' = [voice EXCEPT !.volume = 0, !.bent = TRUE, !.amid = FALSE]
        BY <3>1 DEF ShiftsOut
      <4> QED BY <4>1, SMT DEF Tuned
    <3>2. CASE GivesVolume
      <4>1. PICK n \in {0, Unshifted} : voice' = [voice EXCEPT !.level = n, !.bent = FALSE]
        BY <3>2 DEF GivesVolume
      <4> QED BY <4>1, SMT DEF Tuned
    <3> QED BY <1>6, <3>1, <3>2
  <2>4. Tuned(voice)'
    BY <2>1, <2>3 DEF Tuned, Room
  <2> QED BY <2>1, <2>3, <2>4, CallTypes DEF PlayedInv, TuningInv, Calls
<1>7. ASSUME UNCHANGED voiceVars PROVE NotesInv'
  BY <1>7 DEF voiceVars, Tuned, Room, PlayedInv, TuningInv
<1> QED BY <1>1, <1>2, <1>3, <1>4, <1>5, <1>6, <1>7 DEF VoiceNext

(* Every sample rate a song comes to is one of the table's or between two  *)
(* of them, give or take a vibrato, and every row plays the note it asks   *)
(* for (modplayer.c), for any table, instruments and rows that keep to it. *)
THEOREM NotesPlayed ==
  ASSUME KeepsToTable
  PROVE  VoiceSpec => []NotesArePlayed
<1>1. NotesInv => NotesArePlayed
  <2> SUFFICES ASSUME NotesInv PROVE NotesArePlayed
    OBVIOUS
  <2>1. row \in RowDigits
    <3>1. NoRow \in RowDigits
      BY SMT DEF NoRow, RowDigits
    <3> QED BY <3>1, SongRows DEF NotesInv, PlayedInv
  <2>2. voice.note \in DOMAIN PeriodTable
    BY NotesAssumption DEF NotesInv, Tuned, TableNotes
  <2>3. VoiceTypeOK
    <3> DEFINE U == 0 .. Loudest
    <3>1. call \in Calls \X U /\ master \in U
      BY DEF NotesInv, TuningInv
    <3> HIDE DEF U
    <3>2. call[1] \in Calls
      BY <3>1, SMT
    <3> QED BY <2>1, <2>2, <3>1, <3>2 DEF NotesInv, Tuned, VoiceTypeOK, U, Calls
  <2> QED BY <2>3 DEF NotesInv, Tuned, PlayedInv, NotesArePlayed, RatesArePlayable, RowsPlayTheirNote
<1>2. NotesInv /\ [VoiceNext]_voiceVars => NotesInv'
  BY NotesStep
<1> QED BY <1>1, <1>2, NotesInit, PTL DEF VoiceSpec

-----------------------------------------------------------------------------

LEMMA LeastExists ==
  ASSUME NEW T, T \subseteq Nat, T # {}
  PROVE  \E m \in T : \A n \in T : m =< n
<1> DEFINE R == OpToRel(<, Nat)
<1>1. \A m, n \in Nat : <<m, n>> \in R <=> m < n
  BY DEF OpToRel
<1> HIDE DEF R
<1>2. PICK m \in T : \A n \in T : ~(<<n, m>> \in R)
  BY NatLessThanWellFounded, WFMin DEF R
<1>3. \A n \in T : ~(n < m)
  BY <1>1, <1>2
<1>4. \A n \in T : m =< n
  BY <1>3, SMT
<1> QED BY <1>4

-----------------------------------------------------------------------------
(* The song's patterns have a highest one.                                  *)
LEMMA LargestIs ==
  ASSUME NEW names, names # {}, names \subseteq 0 .. 255
  PROVE  Largest(names) \in Nat /\ Needed(names) \in Nat /\ Needed(names) = Largest(names) + 2
<1>1. \A p \in names : p \in Nat /\ p =< 255
  OBVIOUS
<1> DEFINE T == {255 - p : p \in names}
<1>2. T \subseteq Nat
  BY <1>1
<1>3. T # {}
  OBVIOUS
<1>4. PICK m \in T : \A n \in T : m =< n
  BY <1>2, <1>3, LeastExists
<1>5. PICK p \in names : m = 255 - p
  BY <1>4
<1>6. \A q \in names : 255 - p =< 255 - q
  BY <1>4, <1>5
<1>7. \A q \in names : q <= p
  BY <1>1, <1>6
<1>8. Largest(names) \in names
  BY <1>7 DEF Largest
<1>9. Largest(names) \in Nat
  BY <1>1, <1>8
<1> QED BY <1>9 DEF Needed

(* Copied backwards to a higher address, every cell arrives as it was,     *)
(* overlap or not.                                                         *)
LEMMA Copied ==
  ASSUME memory = [a \in Addresses |-> memory[a]], Cells \in Nat,
         NEW from \in Nat, NEW to \in Nat, NEW n \in Nat, from < to, to + n <= Cells
  PROVE  Backwards(to, from, n) =
           [a \in Addresses |-> IF a \in to .. to + n - 1 THEN memory[a - to + from] ELSE memory[a]]
<1> DEFINE Step(i, m) == [m EXCEPT ![to + n - i] = m[from + n - i]]
           R(g) == [i \in 0 .. n |-> IF i = 0 THEN memory ELSE Step(i, g[i - 1])]
           after == CHOOSE g : g = R(g)
           Part(i) == [a \in Addresses |-> IF a \in to + n - i .. to + n - 1
                                           THEN memory[a - to + from] ELSE memory[a]]
           G == [i \in 0 .. n |-> Part(i)]
<1>1. Part(0) = memory
  <2>1. \A a \in Addresses : ~(a \in to + n - 0 .. to + n - 1)
    OBVIOUS
  <2>2. Part(0) = [a \in Addresses |-> memory[a]]
    BY <2>1
  <2> QED BY <2>2
<1>2. ASSUME NEW i \in 1 .. n PROVE Part(i) = Step(i, Part(i - 1))
  <2>1. from + n - i \in Addresses /\ to + n - i \in Addresses
    BY DEF Addresses
  <2>2. ~(from + n - i \in to + n - (i - 1) .. to + n - 1)
    OBVIOUS
  <2>3. Part(i - 1)[from + n - i] = memory[from + n - i]
    BY <2>1, <2>2
  <2> DEFINE P == Part(i)
             Q == Part(i - 1)
             S == Step(i, Part(i - 1))
  <2>4. S = [a \in Addresses |-> IF a = to + n - i THEN memory[from + n - i] ELSE Q[a]]
    BY <2>3
  <2>5. \A a \in Addresses : P[a] = IF a = to + n - i THEN memory[from + n - i] ELSE Q[a]
    <3> SUFFICES ASSUME NEW a \in Addresses
                 PROVE  P[a] = IF a = to + n - i THEN memory[from + n - i] ELSE Q[a]
      OBVIOUS
    <3>0. a \in Nat
      BY DEF Addresses
    <3>1. P[a] = IF a \in to + n - i .. to + n - 1 THEN memory[a - to + from] ELSE memory[a]
      OBVIOUS
    <3>2. Q[a] = IF a \in to + n - (i - 1) .. to + n - 1 THEN memory[a - to + from] ELSE memory[a]
      OBVIOUS
    <3>3. CASE a = to + n - i
      <4>1. a \in to + n - i .. to + n - 1 /\ a - to + from = from + n - i
        BY <3>0, <3>3
      <4> QED BY <3>1, <3>3, <4>1
    <3>4. CASE a # to + n - i
      <4>1. a \in to + n - i .. to + n - 1 <=> a \in to + n - (i - 1) .. to + n - 1
        BY <3>0, <3>4
      <4> HIDE DEF P, Q
      <4> QED BY <3>1, <3>2, <3>4, <4>1
    <3> QED BY <3>3, <3>4
  <2>6. P = [a \in Addresses |-> P[a]]
    OBVIOUS
  <2> HIDE DEF P, Q, S
  <2>7. P = S
    BY <2>4, <2>5, <2>6
  <2> QED BY <2>7 DEF P, S
<1> HIDE DEF Part, Step
<1>3. G = R(G)
  <2>1. \A i \in 0 .. n : G[i] = IF i = 0 THEN memory ELSE Step(i, G[i - 1])
    <3> SUFFICES ASSUME NEW i \in 0 .. n
                 PROVE  G[i] = IF i = 0 THEN memory ELSE Step(i, G[i - 1])
      OBVIOUS
    <3>1. CASE i = 0
      BY <3>1, <1>1
    <3>2. CASE i # 0
      <4>1. i \in 1 .. n /\ i - 1 \in 0 .. n
        BY <3>2
      <4> QED BY <3>2, <4>1, <1>2
    <3> QED BY <3>1, <3>2
  <2> DEFINE H == R(G)
  <2>2. \A i \in 0 .. n : H[i] = IF i = 0 THEN memory ELSE Step(i, G[i - 1])
    OBVIOUS
  <2>3. H = [i \in 0 .. n |-> H[i]] /\ G = [i \in 0 .. n |-> G[i]]
    OBVIOUS
  <2> HIDE DEF H, G
  <2>4. \A i \in 0 .. n : G[i] = H[i]
    BY <2>1, <2>2
  <2>5. G = H
    BY <2>3, <2>4
  <2> QED BY <2>5 DEF H
<1>4. \A i \in 0 .. n : G[i] = Part(i)
  OBVIOUS
<1> HIDE DEF G
<1>5. after = R(after)
  BY <1>3
<1> HIDE DEF after
<1>6. \A i \in 0 .. n : after[i] = IF i = 0 THEN memory ELSE Step(i, after[i - 1])
  BY <1>5
<1>7. \A i \in 0 .. n : after[i] = Part(i)
  <2> DEFINE Bad == {i \in 0 .. n : after[i] # Part(i)}
  <2> SUFFICES ASSUME Bad # {} PROVE FALSE
    OBVIOUS
  <2>1. Bad \subseteq Nat
    OBVIOUS
  <2>2. PICK i \in Bad : \A k \in Bad : i =< k
    BY <2>1, LeastExists
  <2>3. i # 0
    BY <1>1, <1>6
  <2>4. i \in 1 .. n /\ i - 1 \in 0 .. n /\ i - 1 < i
    BY <2>3
  <2>5. after[i - 1] = Part(i - 1)
    BY <2>2, <2>4
  <2> QED BY <2>3, <2>4, <2>5, <1>2, <1>6
<1>8. Backwards(to, from, n) = after[n]
  BY DEF Backwards, after, Step
<1>9. to + n - n = to /\ n \in 0 .. n
  OBVIOUS
<1> QED BY <1>7, <1>8, <1>9 DEF Part

(* The module lies at MOD_ModuleData, in memory of its own.                *)
LoadInv ==
  /\ named \in Tables
  /\ memory = [a \in Addresses |-> memory[a]]
  /\ \/ moduleData = -1
     \/ /\ moduleData \in Nat /\ moduleData + Needed(named) <= Cells
        /\ \A k \in 0 .. Needed(named) - 1 : memory[moduleData + k] = Content(k)

LEMMA LoadFacts ==
  ASSUME named \in Tables
  PROVE  /\ Needed(named) \in Nat /\ Largest(named) \in Nat /\ Needed(named) = Largest(named) + 2
         /\ Cells \in Nat /\ Header \in Nat
  BY LargestIs, CellsAssumption DEF CellsAssumption

LEMMA LoadKeeps ==
  ASSUME LoadInv, NEW at \in Addresses, MOD_Load(at)
  PROVE  LoadInv'
<1> DEFINE n == Needed(named)
           d == at + Header
<1>1. n \in Nat /\ at \in Nat /\ d \in Nat /\ Cells \in Nat /\ Header \in Nat
  <2>1. n \in Nat /\ Cells \in Nat /\ Header \in Nat
    BY LoadFacts DEF LoadInv
  <2>2. at \in Nat
    BY <2>1 DEF Addresses
  <2> QED BY <2>1, <2>2
<1>2. /\ moduleData' = d /\ d + n <= Cells /\ named' = named
      /\ memory' = [a \in Addresses |-> IF a - at - Header \in 0 .. n - 1
                                        THEN Content(a - at - Header) ELSE memory[a]]
  BY DEF MOD_Load
<1>3. Needed(named)' = n
  BY <1>2
<1> HIDE DEF n
<1>4. ASSUME NEW k \in 0 .. n - 1 PROVE memory'[d + k] = Content(k)
  <2>1. d + k \in Addresses
    BY <1>1, <1>2 DEF Addresses
  <2>2. d + k - at - Header = k
    BY <1>1
  <2> DEFINE e == d + k
  <2> HIDE DEF e
  <2>3. memory'[e] = IF e - at - Header \in 0 .. n - 1 THEN Content(e - at - Header) ELSE memory[e]
    BY <1>2, <2>1 DEF e
  <2>4. e - at - Header = k
    BY <1>1, <2>2 DEF e
  <2>5. memory'[e] = Content(k)
    BY <2>3, <2>4
  <2> QED BY <2>5 DEF e
<1>5. \A k : Content(k)' = Content(k)
  BY DEF Content
<1>6. memory' = [a \in Addresses |-> memory'[a]]
  BY <1>2
<1> QED BY <1>1, <1>2, <1>3, <1>4, <1>6 DEF LoadInv, Content

LEMMA RelocateKeeps ==
  ASSUME LoadInv, Upwards, NEW target \in Addresses, MOD_Relocate(target)
  PROVE  LoadInv'
<1> DEFINE n == Needed(named)
<1>1. n \in Nat /\ target \in Nat /\ moduleData \in Nat /\ Cells \in Nat
  BY LoadFacts DEF LoadInv, Addresses, MOD_Relocate
<1>2. target + n <= Cells /\ target >= moduleData /\ named' = named
  BY DEF MOD_Relocate
<1>3. /\ moduleData + n <= Cells
      /\ \A k \in 0 .. n - 1 : memory[moduleData + k] = Content(k)
      /\ memory = [a \in Addresses |-> memory[a]] /\ named \in Tables
  BY <1>1 DEF LoadInv, MOD_Relocate
<1>4. CASE target = moduleData
  <2>0. ~(target < moduleData) /\ ~(target > moduleData)
    BY <1>1, <1>4
  <2>1. UNCHANGED <<memory, moduleData, named>>
    BY <1>4, <2>0 DEF MOD_Relocate
  <2> QED BY <2>1 DEF LoadInv, Content
<1>5. CASE target # moduleData
  <2>1. target > moduleData /\ ~(target < moduleData)
    BY <1>1, <1>2, <1>5
  <2>2. memory' = Backwards(target, moduleData, n) /\ moduleData' = target
    BY <1>5, <2>1 DEF MOD_Relocate
  <2> HIDE DEF n
  <2>3. memory' = [a \in Addresses |-> IF a \in target .. target + n - 1
                                      THEN memory[a - target + moduleData] ELSE memory[a]]
    BY <1>1, <1>2, <1>3, <2>1, <2>2, Copied
  <2>4. ASSUME NEW k \in 0 .. n - 1 PROVE memory'[target + k] = Content(k)
    <3>1. target + k \in Addresses /\ target + k \in target .. target + n - 1
      BY <1>1, <1>2 DEF Addresses
    <3>2. target + k - target + moduleData = moduleData + k
      BY <1>1
    <3> DEFINE b == target + k
    <3> HIDE DEF b
    <3>3. memory'[b] = memory[b - target + moduleData]
      BY <2>3, <3>1 DEF b
    <3>4. b - target + moduleData = moduleData + k
      BY <1>1, <3>2 DEF b
    <3>5. memory'[b] = Content(k)
      BY <1>3, <3>3, <3>4
    <3> QED BY <3>5 DEF b
  <2>5. memory' = [a \in Addresses |-> memory'[a]]
    BY <2>3
  <2> QED BY <1>1, <1>2, <1>3, <2>2, <2>4, <2>5 DEF LoadInv, n, Content
<1> QED BY <1>4, <1>5

LEMMA ReuseKeeps ==
  ASSUME LoadInv, NEW a \in Addresses, Reuse(a)
  PROVE  LoadInv'
<1> DEFINE n == Needed(named)
<1>1. n \in Nat /\ moduleData \in Nat /\ a \in Nat /\ Cells \in Nat
  BY LoadFacts DEF LoadInv, Addresses, Reuse
<1>2. /\ memory = [x \in Addresses |-> memory[x]] /\ memory' = [memory EXCEPT ![a] = <<"reused", 0>>]
      /\ moduleData + n <= Cells /\ moduleData' = moduleData /\ named' = named
      /\ a \notin moduleData .. moduleData + n - 1
      /\ \A k \in 0 .. n - 1 : memory[moduleData + k] = Content(k)
  BY <1>1 DEF LoadInv, Reuse
<1> HIDE DEF n
<1>3. ASSUME NEW k \in 0 .. n - 1 PROVE memory'[moduleData + k] = Content(k)
  <2>1. moduleData + k \in Addresses /\ moduleData + k # a
    BY <1>1, <1>2 DEF Addresses
  <2> QED BY <1>2, <2>1
<1>4. memory' = [x \in Addresses |-> memory'[x]]
  BY <1>2
<1> QED BY <1>1, <1>2, <1>3, <1>4 DEF LoadInv, n, Content

(* For any memory, header and tables: a module that is moved upwards is    *)
(* found whole by the player, whatever the program does with the rest of   *)
(* the memory (modplayer.c:236-273, 285-311).                              *)
THEOREM ModulesAreFound ==
  ASSUME Upwards
  PROVE  LoadSpec => []PlayerFindsModule
<1>1. LoadInit => LoadInv
  BY DEF LoadInit, LoadInv
<1>2. LoadInv /\ [LoadNext]_loadVars => LoadInv'
  <2> SUFFICES ASSUME LoadInv, [LoadNext]_loadVars PROVE LoadInv'
    OBVIOUS
  <2>1. CASE UNCHANGED loadVars
    BY <2>1 DEF loadVars, LoadInv, Content
  <2> QED BY <2>1, LoadKeeps, RelocateKeeps, ReuseKeeps DEF LoadNext
<1>3. LoadInv => PlayerFindsModule
  <2> SUFFICES ASSUME LoadInv, moduleData # -1, NEW k \in 0 .. Largest(named) + 1
               PROVE  moduleData + k \in Addresses /\ memory[moduleData + k] = Content(k)
    BY DEF PlayerFindsModule
  <2>1. /\ Needed(named) \in Nat /\ Largest(named) \in Nat /\ Needed(named) = Largest(named) + 2
        /\ Cells \in Nat
    BY LoadFacts DEF LoadInv
  <2>2. /\ moduleData \in Nat /\ moduleData + Needed(named) <= Cells
        /\ \A i \in 0 .. Needed(named) - 1 : memory[moduleData + i] = Content(i)
    BY DEF LoadInv
  <2>3. k \in 0 .. Needed(named) - 1
    BY <2>1
  <2> QED BY <2>1, <2>2, <2>3 DEF Addresses
<1> QED BY <1>1, <1>2, <1>3, PTL DEF LoadSpec

-----------------------------------------------------------------------------
(* How long a row lasts.  The polls left are those of the tick that counts *)
(* and one row's worth for each row of delay.                              *)
Mods == [order : 0 .. SongLength - 1, row : 0 .. Rows - 1, speed : 1 .. 31, tick : 0 .. 31,
         patternDelay : 0 .. 15, changeRow : BOOLEAN, nextRow : Nat,
         changeOrder : BOOLEAN, nextOrder : Nat, loopCount : 0 .. 15]

PollsLeft(m) ==
  (IF m.speed - m.tick > 1 THEN m.speed - m.tick ELSE 1) + m.patternDelay * m.speed

SongInv ==
  /\ song \in Songs /\ mod \in Mods
  /\ rowPointer \in (0 .. SongLength - 1) \X (0 .. Rows - 1)
  /\ due = PollsLeft(mod)

LEMMA SongFacts ==
  ASSUME song \in Songs
  PROVE  /\ SongLength \in Nat \ {0} /\ Rows \in Nat \ {0}
         /\ OrdersAsked \subseteq Nat /\ RowsAsked \subseteq Nat
         /\ \A o \in 0 .. SongLength - 1, r \in 0 .. Rows - 1 :
              /\ Commands(o, r) \in Seq(STRING \X Nat)
              /\ \A c \in DOMAIN Commands(o, r) :
                   Commands(o, r)[c][1] \in {"E6", "EE"} => Commands(o, r)[c][2] \in 0 .. 15
<1>1. song.table \in Seq(DOMAIN song.rows) /\ song.table # <<>> /\ Rows \in Nat \ {0}
  BY SongsAssumption
<1>2. SongLength \in Nat \ {0}
  BY <1>1 DEF SongLength
<1>3. ASSUME NEW o \in 0 .. SongLength - 1, NEW r \in 0 .. Rows - 1
      PROVE  /\ Commands(o, r) \in Seq(STRING \X Nat)
             /\ \A c \in DOMAIN Commands(o, r) :
                  Commands(o, r)[c][1] \in {"E6", "EE"} => Commands(o, r)[c][2] \in 0 .. 15
  <2>1. song.table[o + 1] \in DOMAIN song.rows
    BY <1>1, <1>2 DEF SongLength
  <2> QED BY <2>1, SongsAssumption, Zenon DEF Commands
<1> QED BY <1>1, <1>2, <1>3, SongsAssumption

LEMMA InSongRange ==
  ASSUME song \in Songs, NEW o \in Nat
  PROVE  InSong(o) \in 0 .. SongLength - 1
<1> DEFINE n == SongLength
<1>1. n \in Nat \ {0}
  BY SongFacts
<1> HIDE DEF n
<1>2. (IF o >= n THEN 0 ELSE o) \in 0 .. n - 1
  BY <1>1, SMT
<1> QED BY <1>2 DEF InSong, n

LEMMA RowAskedRange ==
  ASSUME song \in Songs, NEW n \in Nat
  PROVE  RowAsked(n) \in 0 .. Rows - 1
<1> DEFINE r == (n \div 16) * 10 + (n % 16)
<1>1. r \in Nat
  BY SMT
<1>2. Rows \in Nat \ {0}
  BY SongFacts
<1> HIDE DEF r
<1>3. (IF r >= Rows THEN 0 ELSE r) \in 0 .. Rows - 1
  BY <1>1, <1>2, SMT
<1> QED BY <1>3 DEF RowAsked, r

(* Setting some fields of the player's variables. *)
LEMMA MovedTyped ==
  ASSUME song \in Songs, NEW m \in Mods
  PROVE  Moved(m) \in Mods /\ Moved(m).tick = m.tick
<1> DEFINE L == 0 .. SongLength - 1
           o == InSong(m.nextOrder)
           r == RowAsked(m.nextRow)
           ordered == IF m.changeOrder THEN [m EXCEPT !.row = 0, !.order = o] ELSE m
           p == IF m.changeOrder THEN InSong(ordered.order + 1) ELSE ordered.order
           rowed == IF m.changeRow THEN [ordered EXCEPT !.row = r, !.order = p] ELSE ordered
<1>1. o \in L /\ r \in 0 .. Rows - 1
  BY InSongRange, RowAskedRange DEF Mods
<1>2. 0 \in 0 .. Rows - 1
  BY SongFacts, SMT
<1> HIDE DEF o, r
<1>3. ordered \in Mods /\ ordered.tick = m.tick
  BY <1>1, <1>2 DEF Mods
<1> HIDE DEF ordered
<1>4. p \in L
  <2>1. ordered.order \in L
    BY <1>3 DEF Mods
  <2>2. ordered.order + 1 \in Nat
    <3>1. SongLength \in Nat
      BY SongFacts
    <3> QED BY <2>1, <3>1, SMT
  <2> QED BY <2>1, <2>2, InSongRange
<1> HIDE DEF p
<1>5. rowed \in Mods /\ rowed.tick = m.tick
  BY <1>1, <1>3, <1>4 DEF Mods
<1>6. rowed = IF m.changeRow
              THEN [ordered EXCEPT !.row = r,
                                   !.order = IF m.changeOrder THEN InSong(@ + 1) ELSE @]
              ELSE ordered
  BY <1>3 DEF p, Mods
<1> HIDE DEF rowed
<1>7. Moved(m) = [rowed EXCEPT !.changeRow = FALSE, !.changeOrder = FALSE]
  BY <1>6 DEF Moved, ordered, o, r
<1> QED BY <1>5, <1>7 DEF Mods

LEMMA CommandTyped ==
  ASSUME song \in Songs, NEW m \in Mods, NEW c \in STRING \X Nat,
         c[1] \in {"E6", "EE"} => c[2] \in 0 .. 15
  PROVE  ChannelCommand(m, c) \in Mods /\ ChannelCommand(m, c).tick = m.tick
<1>n. c[2] \in Nat
  OBVIOUS
<1>1. CASE c[1] = "B"
  <2>1. [m EXCEPT !.changeOrder = TRUE, !.nextOrder = c[2]] \in Mods
    BY <1>n DEF Mods
  <2> QED BY <1>1, <2>1 DEF ChannelCommand, Mods
<1>2. CASE c[1] = "D"
  <2>1. [m EXCEPT !.changeRow = TRUE, !.nextRow = c[2]] \in Mods
    BY <1>n DEF Mods
  <2> QED BY <1>2, <2>1 DEF ChannelCommand, Mods
<1>3. CASE c[1] = "E6"
  <2> DEFINE repeats == IF m.loopCount = 0 THEN c[2] ELSE m.loopCount - 1
             back == IF repeats = 0 THEN m.row ELSE 0
             w == [m EXCEPT !.loopCount = repeats, !.row = back]
  <2>1. repeats \in 0 .. 15
    BY <1>3, SMT DEF Mods
  <2> HIDE DEF repeats
  <2>2. back \in 0 .. Rows - 1
    BY SongFacts, SMT DEF Mods
  <2> HIDE DEF back
  <2>3. w \in Mods /\ w.tick = m.tick
    BY <2>1, <2>2 DEF Mods
  <2>4. ChannelCommand(m, c) = w
    BY <1>3 DEF ChannelCommand, w, back, repeats, Mods
  <2> HIDE DEF w
  <2> QED BY <2>3, <2>4
<1>4. CASE c[1] = "EE"
  <2>1. [m EXCEPT !.patternDelay = c[2]] \in Mods
    BY <1>4 DEF Mods
  <2> QED BY <1>4, <2>1 DEF ChannelCommand, Mods
<1>5. CASE c[1] = "F"
  <2>1. c[2] \in 1 .. 31 => [m EXCEPT !.speed = c[2]] \in Mods
    BY DEF Mods
  <2> QED BY <1>5, <2>1 DEF ChannelCommand, Mods
<1>6. CASE c[1] \notin {"B", "D", "E6", "EE", "F"}
  BY <1>6 DEF ChannelCommand
<1> QED BY <1>1, <1>2, <1>3, <1>4, <1>5, <1>6

(* The commands of a row, one channel after the other: the recursion has a *)
(* solution for a song of any number of channels.                          *)
Plays(g, at, cs, n) ==
  g = [c \in 0 .. n |-> IF c = 0 THEN at ELSE ChannelCommand(g[c - 1], cs[c])]

LEMMA PlayedExists ==
  ASSUME NEW at, NEW cs, NEW n \in Nat
  PROVE  \E g : Plays(g, at, cs, n)
<1> DEFINE Solves(g, k) == Plays(g, at, cs, k)
           T == {k \in Nat : ~ \E g : Solves(g, k)}
<1> USE DEF Plays
<1>1. SUFFICES ASSUME T # {} PROVE FALSE
  OBVIOUS
<1>2. PICK k \in T : \A j \in T : k =< j
  BY <1>1, LeastExists
<1>3. CASE k = 0
  <2> DEFINE g == [c \in 0 .. 0 |-> at]
  <2>1. Solves(g, 0)
    <3>1. \A c \in 0 .. 0 : c = 0
      BY SMT
    <3> QED BY <3>1
  <2> QED BY <1>2, <1>3, <2>1
<1>4. CASE k # 0
  <2>1. k - 1 \in Nat /\ ~(k =< k - 1)
    BY <1>2, <1>4, SMT
  <2>2. PICK g : Solves(g, k - 1)
    BY <1>2, <2>1
  <2> DEFINE h == [c \in 0 .. k |-> IF c = k THEN ChannelCommand(g[k - 1], cs[k]) ELSE g[c]]
             S == [c \in 0 .. k |-> IF c = 0 THEN at ELSE ChannelCommand(h[c - 1], cs[c])]
  <2>3. ASSUME NEW c \in 0 .. k PROVE h[c] = S[c]
    <3>1. CASE c = k
      <4>1. k - 1 \in 0 .. k /\ k - 1 # k
        BY <2>1, SMT
      <4>2. h[k - 1] = g[k - 1]
        BY <4>1
      <4> HIDE DEF h
      <4>3. S[c] = ChannelCommand(h[k - 1], cs[k])
        BY <1>4, <3>1
      <4>4. h[c] = ChannelCommand(g[k - 1], cs[k])
        BY <3>1 DEF h
      <4> QED BY <4>2, <4>3, <4>4
    <3>2. CASE c # k /\ c # 0
      <4>1. c \in 0 .. k - 1 /\ c - 1 \in 0 .. k /\ c - 1 # k
        BY <1>2, <3>2, SMT
      <4>2. g[c] = ChannelCommand(g[c - 1], cs[c])
        BY <2>2, <3>2, <4>1
      <4>3. h[c] = g[c] /\ h[c - 1] = g[c - 1]
        BY <3>2, <4>1
      <4> HIDE DEF h
      <4>4. S[c] = ChannelCommand(h[c - 1], cs[c])
        BY <3>2
      <4> QED BY <4>2, <4>3, <4>4
    <3>3. CASE c = 0
      <4>1. 0 \in 0 .. k - 1
        BY <2>1, SMT
      <4>2. g[0] = at
        BY <2>2, <4>1
      <4>3. h[c] = g[0]
        BY <1>4, <3>3
      <4>4. S[c] = at
        BY <3>3
      <4> QED BY <4>2, <4>3, <4>4
    <3> QED BY <3>1, <3>2, <3>3
  <2>4. h = S
    BY <2>3
  <2>5. Solves(h, k)
    BY <2>4
  <2> QED BY <1>2, <2>5
<1> QED BY <1>3, <1>4

LEMMA UpdateRowTyped ==
  ASSUME song \in Songs, NEW m \in Mods
  PROVE  UpdateRow(m) \in Mods /\ UpdateRow(m).tick = m.tick
<1> DEFINE at == Moved(m)
           cs == Commands(at.order, at.row)
           n == Len(cs)
           R(g) == [c \in 0 .. n |-> IF c = 0 THEN at ELSE ChannelCommand(g[c - 1], cs[c])]
           played == CHOOSE g : g = R(g)
           Good(x) == x \in Mods /\ x.tick = m.tick
<1>1. Good(at)
  BY MovedTyped
<1>2. /\ cs \in Seq(STRING \X Nat)
      /\ \A c \in DOMAIN cs : cs[c][1] \in {"E6", "EE"} => cs[c][2] \in 0 .. 15
  <2>1. at.order \in 0 .. SongLength - 1 /\ at.row \in 0 .. Rows - 1
    BY <1>1 DEF Mods
  <2> HIDE DEF at
  <2> QED BY <2>1, SongFacts
<1>3. UpdateRow(m) = played[n]
  BY DEF UpdateRow
<1> HIDE DEF at, cs
<1>4. n \in Nat
  BY <1>2
<1> HIDE DEF n
<1>5. played = R(played)
  <2>1. PICK g : Plays(g, at, cs, n)
    BY <1>4, PlayedExists
  <2>2. g = R(g)
    BY <2>1 DEF Plays
  <2>3. \E f : f = R(f)
    BY <2>2
  <2> QED BY <2>3
<1> HIDE DEF played
<1>6. \A c \in 0 .. n : Good(played[c])
  <2> DEFINE T == {c \in 0 .. n : ~Good(played[c])}
  <2>1. SUFFICES ASSUME T # {} PROVE FALSE
    OBVIOUS
  <2>2. T \subseteq Nat
    BY <1>4, SMT
  <2>3. PICK c \in T : \A j \in T : c =< j
    BY <2>1, <2>2, LeastExists
  <2>4. CASE c = 0
    <3>1. played[c] = at
      BY <1>5, <2>3, <2>4
    <3> QED BY <1>1, <2>3, <3>1
  <2>5. CASE c # 0
    <3>1. c - 1 \in 0 .. n /\ ~(c =< c - 1) /\ c \in 1 .. n
      BY <1>4, <2>3, <2>5, SMT
    <3>2. Good(played[c - 1])
      BY <2>3, <3>1
    <3>3. played[c] = ChannelCommand(played[c - 1], cs[c])
      BY <1>5, <2>3, <2>5
    <3>4. cs[c] \in STRING \X Nat /\ (cs[c][1] \in {"E6", "EE"} => cs[c][2] \in 0 .. 15)
      <4>1. c \in DOMAIN cs
        BY <1>2, <3>1 DEF n
      <4> QED BY <1>2, <4>1
    <3>5. Good(played[c])
      BY <3>2, <3>3, <3>4, CommandTyped
    <3> QED BY <2>3, <3>5
  <2> QED BY <2>4, <2>5
<1>7. n \in 0 .. n
  BY <1>4, SMT
<1> QED BY <1>3, <1>6, <1>7

LEMMA NextRowTyped ==
  ASSUME song \in Songs, NEW m \in Mods
  PROVE  NextRow(m) \in Mods /\ NextRow(m).tick = m.tick /\ NextRow(m).speed = m.speed
         /\ NextRow(m).patternDelay = m.patternDelay
<1> DEFINE o == InSong(m.order + 1)
<1>1. o \in 0 .. SongLength - 1
  <2>1. m.order + 1 \in Nat
    BY SongFacts, SMT DEF Mods
  <2> QED BY <2>1, InSongRange
<1> HIDE DEF o
<1>2. 0 \in 0 .. Rows - 1 /\ (~(m.row + 1 >= Rows) => m.row + 1 \in 0 .. Rows - 1)
  BY SongFacts, SMT DEF Mods
<1>3. CASE m.row + 1 >= Rows \/ m.changeRow
  <2>1. NextRow(m) = [m EXCEPT !.row = 0, !.order = o]
    BY <1>3 DEF NextRow, o, Mods
  <2> QED BY <1>1, <1>2, <2>1 DEF Mods
<1>4. CASE ~(m.row + 1 >= Rows \/ m.changeRow)
  <2> DEFINE r == m.row + 1
  <2>1. NextRow(m) = [m EXCEPT !.row = r]
    BY <1>4 DEF NextRow, Mods
  <2>2. r \in 0 .. Rows - 1
    BY <1>2, <1>4
  <2> HIDE DEF r
  <2> QED BY <2>1, <2>2 DEF Mods
<1> QED BY <1>3, <1>4

(* A delay is worth that many rows of the speed. *)
LEMMA DelayWorth ==
  ASSUME NEW d \in 0 .. 15, NEW s \in 1 .. 31
  PROVE  /\ d * s \in Nat /\ (d = 0 <=> d * s = 0)
         /\ s * (1 + d) = s + d * s /\ (d - 1) * s = d * s - s
  BY SMT

LEMMA LeftFacts ==
  ASSUME NEW m \in Mods
  PROVE  /\ PollsLeft(m) \in Nat \ {0}
         /\ PollsLeft(m) = 1 <=> (m.tick + 1 >= m.speed /\ m.patternDelay = 0)
<1> DEFINE q == m.patternDelay * m.speed
<1>1. m.patternDelay \in 0 .. 15 /\ m.speed \in 1 .. 31 /\ m.tick \in 0 .. 31
  BY DEF Mods
<1>2. q \in Nat /\ (m.patternDelay = 0 <=> q = 0)
  BY <1>1, DelayWorth
<1>3. PollsLeft(m) = (IF m.speed - m.tick > 1 THEN m.speed - m.tick ELSE 1) + q
  BY DEF PollsLeft
<1> DEFINE p == PollsLeft(m)
           s == m.speed
           d == m.patternDelay
           k == m.tick
<1>4. /\ s \in 1 .. 31 /\ k \in 0 .. 31 /\ q \in Nat /\ (d = 0 <=> q = 0)
      /\ p = (IF s - k > 1 THEN s - k ELSE 1) + q
  BY <1>1, <1>2, <1>3
<1> HIDE DEF p, q, s, d, k
<1>5. p \in Nat \ {0}
  BY <1>4, SMT
<1>6. p = 1 <=> (k + 1 >= s /\ q = 0)
  BY <1>4, SMT
<1> QED BY <1>4, <1>5, <1>6 DEF p, s, d, k

LEMMA SongStart == SongInit => SongInv
<1> SUFFICES ASSUME SongInit PROVE SongInv
  OBVIOUS
<1>1. song \in Songs
  BY DEF SongInit
<1>2. 0 \in 0 .. SongLength - 1 /\ 0 \in 0 .. Rows - 1
  BY <1>1, SongFacts, SMT
<1>3. mod \in Mods /\ mod.speed = 6 /\ mod.tick = 6 /\ mod.patternDelay = 0
  BY <1>2, SMT DEF SongInit, Mods
<1>4. PollsLeft(mod) = 1
  BY <1>3, SMT DEF PollsLeft
<1> QED BY <1>1, <1>2, <1>3, <1>4 DEF SongInit, SongInv

LEMMA PollStep ==
  ASSUME SongInv, MOD_Poll
  PROVE  SongInv'
<1>1. song' = song /\ song \in Songs /\ mod \in Mods
  BY DEF MOD_Poll, SongInv
<1>2. SongLength' = SongLength /\ Mods' = Mods
  BY <1>1 DEF SongLength, Mods
<1>3. CASE PlaysRow
  <2> DEFINE now == [mod EXCEPT !.tick = 0]
             at == Moved(mod)
             played == UpdateRow(now)
  <2>1. /\ mod' = NextRow(played) /\ rowPointer' = <<at.order, at.row>>
        /\ due' = played.speed * (1 + played.patternDelay)
    BY <1>3 DEF MOD_Poll
  <2>2. now \in Mods /\ now.tick = 0
    BY <1>1, SMT DEF Mods
  <2> HIDE DEF now
  <2>3. played \in Mods /\ played.tick = 0
    BY <1>1, <2>2, UpdateRowTyped
  <2>4. at \in Mods
    BY <1>1, MovedTyped
  <2> HIDE DEF played, at
  <2>5. /\ mod' \in Mods /\ mod'.tick = 0 /\ mod'.speed = played.speed
        /\ mod'.patternDelay = played.patternDelay
    BY <1>1, <2>1, <2>3, NextRowTyped
  <2>6. played.speed \in 1 .. 31 /\ played.patternDelay \in 0 .. 15
    BY <2>3 DEF Mods
  <2>7. due' = PollsLeft(mod')
    <3> DEFINE s == played.speed
               q == played.patternDelay * s
    <3>1. due' = s + q /\ q \in Nat
      BY <2>1, <2>6, DelayWorth
    <3>2. PollsLeft(mod') = (IF s - 0 > 1 THEN s - 0 ELSE 1) + q
      BY <2>5 DEF PollsLeft
    <3>3. s \in 1 .. 31
      BY <2>6
    <3> HIDE DEF s, q
    <3> QED BY <3>1, <3>2, <3>3, SMT
  <2>8. rowPointer' \in (0 .. SongLength - 1) \X (0 .. Rows - 1)
    BY <2>1, <2>4 DEF Mods
  <2> QED BY <1>1, <1>2, <2>5, <2>7, <2>8 DEF SongInv, PollsLeft
<1>4. CASE ~PlaysRow
  <2>1. /\ mod' = IF mod.tick + 1 < mod.speed
                  THEN [mod EXCEPT !.tick = @ + 1]
                  ELSE [mod EXCEPT !.tick = 0, !.patternDelay = @ - 1]
        /\ due' = due - 1 /\ UNCHANGED rowPointer
    BY <1>4 DEF MOD_Poll
  <2>2. mod.speed \in 1 .. 31 /\ mod.tick \in 0 .. 31 /\ mod.patternDelay \in 0 .. 15
    BY <1>1 DEF Mods
  <2> DEFINE s == mod.speed
             d == mod.patternDelay
             q == d * s
  <2>3. q \in Nat /\ (d = 0 <=> q = 0) /\ (d - 1) * s = q - s
    BY <2>2, DelayWorth
  <2>4. due = (IF s - mod.tick > 1 THEN s - mod.tick ELSE 1) + q
    BY DEF SongInv, PollsLeft
  <2>5. CASE mod.tick + 1 < mod.speed
    <3> DEFINE t == mod.tick + 1
    <3>1. t \in 0 .. 31
      BY <2>2, <2>5, SMT
    <3>2. mod' = [mod EXCEPT !.tick = t]
      BY <1>1, <2>1, <2>5 DEF Mods
    <3> HIDE DEF t
    <3>3. mod' \in Mods /\ mod'.tick = t /\ mod'.speed = s /\ mod'.patternDelay = d
      BY <1>1, <3>1, <3>2 DEF Mods
    <3>4. PollsLeft(mod') = (IF s - t > 1 THEN s - t ELSE 1) + q
      BY <3>3 DEF PollsLeft
    <3> HIDE DEF q, s, d
    <3>5. due' = PollsLeft(mod')
      BY <2>1, <2>2, <2>3, <2>4, <2>5, <3>4, SMT DEF t, s
    <3> QED BY <1>1, <1>2, <2>1, <3>3, <3>5 DEF SongInv, PollsLeft
  <2>6. CASE ~(mod.tick + 1 < mod.speed)
    <3>1. d # 0
      BY <1>4, <2>2, <2>6, SMT DEF PlaysRow
    <3> DEFINE e == d - 1
    <3>2. e \in 0 .. 15
      BY <2>2, <3>1, SMT
    <3>3. mod' = [mod EXCEPT !.tick = 0, !.patternDelay = e]
      BY <1>1, <2>1, <2>6 DEF Mods
    <3>4. e * s = q - s
      BY <2>3
    <3> HIDE DEF e
    <3>5. mod' \in Mods /\ mod'.tick = 0 /\ mod'.speed = s /\ mod'.patternDelay = e
      <4>1. 0 \in 0 .. 31
        BY SMT
      <4> QED BY <1>1, <3>2, <3>3, <4>1 DEF Mods
    <3>6. PollsLeft(mod') = (IF s - 0 > 1 THEN s - 0 ELSE 1) + (q - s)
      BY <3>4, <3>5 DEF PollsLeft
    <3> HIDE DEF q, s, d
    <3>7. due' = PollsLeft(mod')
      BY <2>1, <2>2, <2>3, <2>4, <2>6, <3>6, SMT DEF s
    <3> QED BY <1>1, <1>2, <2>1, <3>5, <3>7 DEF SongInv, PollsLeft
  <2> QED BY <2>5, <2>6
<1> QED BY <1>3, <1>4

LEMMA AtOnceTyped ==
  ASSUME NEW m \in Mods, NEW now \in BOOLEAN
  PROVE  /\ AtOnce(m, now) \in Mods
         /\ PollsLeft(AtOnce(m, now)) =
              IF now THEN 1 + m.patternDelay * m.speed ELSE PollsLeft(m)
<1>1. CASE now
  <2> DEFINE w == [m EXCEPT !.tick = m.speed]
  <2>1. m.speed \in 1 .. 31 /\ m.patternDelay \in 0 .. 15
    BY DEF Mods
  <2>2. m.speed \in 0 .. 31
    BY <2>1, SMT
  <2>3. w \in Mods /\ w.tick = m.speed /\ w.speed = m.speed /\ w.patternDelay = m.patternDelay
    BY <2>2 DEF Mods
  <2>4. AtOnce(m, now) = w
    BY <1>1 DEF AtOnce
  <2> HIDE DEF w
  <2>5. ~(m.speed - m.speed > 1)
    BY <2>1, SMT
  <2>6. PollsLeft(w) = 1 + m.patternDelay * m.speed
    BY <2>3, <2>5 DEF PollsLeft
  <2> QED BY <1>1, <2>3, <2>4, <2>6
<1>2. CASE ~now
  BY <1>2 DEF AtOnce
<1> QED BY <1>1, <1>2

LEMMA AskStep ==
  ASSUME SongInv, Ask
  PROVE  SongInv'
<1>1. PICK m \in Mods, now \in BOOLEAN :
        /\ m.speed = mod.speed /\ m.tick = mod.tick /\ m.patternDelay = mod.patternDelay
        /\ mod' = AtOnce(m, now) /\ due' = DueAfter(now) /\ UNCHANGED <<song, rowPointer>>
  <2>0. song \in Songs /\ mod \in Mods /\ OrdersAsked \subseteq Nat /\ RowsAsked \subseteq Nat
    BY SongFacts DEF SongInv
  <2>1. ASSUME NEW o \in OrdersAsked, NEW now \in BOOLEAN, AskOrder(o, now)
        PROVE  \E m \in Mods : /\ m.speed = mod.speed /\ m.tick = mod.tick
                               /\ m.patternDelay = mod.patternDelay /\ mod' = AtOnce(m, now)
    <3> DEFINE w == [mod EXCEPT !.changeOrder = TRUE, !.nextOrder = o]
    <3>1. o \in Nat
      BY <2>0
    <3>2. w \in Mods /\ w.speed = mod.speed /\ w.tick = mod.tick
          /\ w.patternDelay = mod.patternDelay
      BY <2>0, <3>1 DEF Mods
    <3>3. mod' = AtOnce(w, now)
      BY <2>1 DEF AskOrder
    <3> HIDE DEF w
    <3> QED BY <3>2, <3>3
  <2>2. ASSUME NEW r \in RowsAsked, NEW now \in BOOLEAN, AskRow(r, now)
        PROVE  \E m \in Mods : /\ m.speed = mod.speed /\ m.tick = mod.tick
                               /\ m.patternDelay = mod.patternDelay /\ mod' = AtOnce(m, now)
    <3> DEFINE w == [mod EXCEPT !.changeRow = TRUE, !.nextRow = r]
    <3>1. r \in Nat
      BY <2>0
    <3>2. w \in Mods /\ w.speed = mod.speed /\ w.tick = mod.tick
          /\ w.patternDelay = mod.patternDelay
      BY <2>0, <3>1 DEF Mods
    <3>3. mod' = AtOnce(w, now)
      BY <2>2 DEF AskRow
    <3> HIDE DEF w
    <3> QED BY <3>2, <3>3
  <2>3. \/ \E o \in OrdersAsked, now \in BOOLEAN : AskOrder(o, now)
        \/ \E r \in RowsAsked, now \in BOOLEAN : AskRow(r, now)
    BY DEF Ask
  <2>4. CASE \E o \in OrdersAsked, now \in BOOLEAN : AskOrder(o, now)
    <3>1. PICK o \in OrdersAsked, now \in BOOLEAN : AskOrder(o, now)
      BY <2>4
    <3>2. due' = DueAfter(now) /\ UNCHANGED <<song, rowPointer>>
      BY <3>1 DEF AskOrder
    <3> QED BY <2>1, <3>1, <3>2
  <2>5. CASE \E r \in RowsAsked, now \in BOOLEAN : AskRow(r, now)
    <3>1. PICK r \in RowsAsked, now \in BOOLEAN : AskRow(r, now)
      BY <2>5
    <3>2. due' = DueAfter(now) /\ UNCHANGED <<song, rowPointer>>
      BY <3>1 DEF AskRow
    <3> QED BY <2>2, <3>1, <3>2
  <2> QED BY <2>3, <2>4, <2>5
<1>2. SongLength' = SongLength /\ Mods' = Mods
  BY <1>1 DEF SongLength, Mods
<1>3. PollsLeft(m) = PollsLeft(mod)
  BY <1>1 DEF PollsLeft
<1>4. due' = PollsLeft(mod') /\ mod' \in Mods
  BY <1>1, <1>3, AtOnceTyped DEF DueAfter, SongInv
<1> QED BY <1>1, <1>2, <1>4 DEF SongInv, PollsLeft

(* A row lasts its speed, as many times over as its delay says and once    *)
(* more (modplayer.c:769-794), for songs of any length, rows and channels, *)
(* and whatever the program asks for in between.                           *)
THEOREM RowsOnTime == SongSpec => []SongKeepsTime
<1>1. SongInv => SongKeepsTime
  <2> SUFFICES ASSUME SongInv PROVE SongKeepsTime
    OBVIOUS
  <2>1. RowsKeepTime
    BY LeftFacts, SMT DEF SongInv, RowsKeepTime, PlaysRow
  <2>2. SongTypeOK
    BY DEF SongInv, SongTypeOK, Mods
  <2> QED BY <2>1, <2>2 DEF SongKeepsTime
<1>2. SongInv /\ [SongNext]_songVars => SongInv'
  <2> SUFFICES ASSUME SongInv, [SongNext]_songVars PROVE SongInv'
    OBVIOUS
  <2>1. CASE UNCHANGED songVars
    BY <2>1 DEF songVars, SongInv, Mods, SongLength, PollsLeft
  <2> QED BY <2>1, PollStep, AskStep DEF SongNext
<1> QED BY <1>1, <1>2, SongStart, PTL DEF SongSpec

-----------------------------------------------------------------------------
(* Which row is played next.                                               *)

(* What one channel's command changes of the position.                     *)
Takes(x, m, c) ==
  /\ x.order = m.order
  /\ c[1] # "E6" => x.row = m.row
  /\ IF c[1] = "B" /\ ~m.changeOrder
     THEN x.changeOrder /\ x.nextOrder = c[2]
     ELSE x.changeOrder = m.changeOrder /\ x.nextOrder = m.nextOrder
  /\ IF c[1] = "D" /\ ~m.changeRow
     THEN x.changeRow /\ x.nextRow = c[2]
     ELSE x.changeRow = m.changeRow /\ x.nextRow = m.nextRow

LEMMA CommandTakes ==
  ASSUME NEW m \in Mods, NEW c \in STRING \X Nat
  PROVE  Takes(ChannelCommand(m, c), m, c)
<1> DEFINE x == ChannelCommand(m, c)
           k == c[1]
           v == c[2]
<1>0. v \in Nat /\ m.changeOrder \in BOOLEAN /\ m.changeRow \in BOOLEAN
  BY DEF Mods
<1>1. CASE k = "B"
  <2>1. x = IF m.changeOrder THEN m ELSE [m EXCEPT !.changeOrder = TRUE, !.nextOrder = v]
    BY <1>1 DEF ChannelCommand
  <2> HIDE DEF x, v, k
  <2>2. CASE m.changeOrder
    <3>1. x = m
      BY <2>1, <2>2
    <3>2. k # "D"
      BY <1>1
    <3> QED BY <1>1, <2>2, <3>1, <3>2 DEF Takes, k, v, x
  <2>3. CASE ~m.changeOrder
    <3>1. /\ x.order = m.order /\ x.row = m.row /\ x.changeOrder /\ x.nextOrder = v
          /\ x.changeRow = m.changeRow /\ x.nextRow = m.nextRow
      BY <2>1, <2>3 DEF Mods
    <3>2. k # "D"
      BY <1>1
    <3> QED BY <1>1, <2>3, <3>1, <3>2 DEF Takes, k, v, x
  <2> QED BY <2>2, <2>3
<1>2. CASE k = "D"
  <2>1. x = IF m.changeRow THEN m ELSE [m EXCEPT !.changeRow = TRUE, !.nextRow = v]
    BY <1>2 DEF ChannelCommand
  <2> HIDE DEF x, v, k
  <2>2. CASE m.changeRow
    <3>1. x = m
      BY <2>1, <2>2
    <3>2. k # "B"
      BY <1>2
    <3> QED BY <1>2, <2>2, <3>1, <3>2 DEF Takes, k, v, x
  <2>3. CASE ~m.changeRow
    <3>1. /\ x.order = m.order /\ x.row = m.row /\ x.changeRow /\ x.nextRow = v
          /\ x.changeOrder = m.changeOrder /\ x.nextOrder = m.nextOrder
      BY <2>1, <2>3 DEF Mods
    <3>2. k # "B"
      BY <1>2
    <3> QED BY <1>2, <2>3, <3>1, <3>2 DEF Takes, k, v, x
  <2> QED BY <2>2, <2>3
<1>3. CASE k \notin {"B", "D"}
  <2>1. /\ x.order = m.order /\ x.changeOrder = m.changeOrder /\ x.nextOrder = m.nextOrder
        /\ x.changeRow = m.changeRow /\ x.nextRow = m.nextRow
        /\ (k # "E6" => x.row = m.row)
    <3>1. CASE k = "E6"
      <4>1. \E a, b : x = [m EXCEPT !.loopCount = a, !.row = b]
        <5> DEFINE a == IF m.loopCount = 0 THEN v ELSE m.loopCount - 1
                   b == IF a = 0 THEN m.row ELSE 0
        <5>1. x = [m EXCEPT !.loopCount = a, !.row = b]
          BY <3>1 DEF ChannelCommand, Mods
        <5> HIDE DEF a, b, x
        <5> QED BY <5>1
      <4>2. PICK a, b : x = [m EXCEPT !.loopCount = a, !.row = b]
        BY <4>1
      <4> HIDE DEF x
      <4> QED BY <3>1, <4>2 DEF Mods
    <3>2. CASE k = "EE"
      <4>1. x = [m EXCEPT !.patternDelay = v]
        BY <3>2 DEF ChannelCommand
      <4> HIDE DEF x
      <4> QED BY <4>1 DEF Mods
    <3>3. CASE k \notin {"E6", "EE"}
      <4>1. x = m \/ x = [m EXCEPT !.speed = v]
        BY <1>3, <3>3 DEF ChannelCommand
      <4> HIDE DEF x
      <4> QED BY <4>1 DEF Mods
    <3> QED BY <3>1, <3>2, <3>3
  <2> HIDE DEF x
  <2> QED BY <1>3, <2>1 DEF Takes, x
<1> QED BY <1>1, <1>2, <1>3

(* The first n commands of a row: isSet is set by the first of them with   *)
(* this letter, if there is one, and then to its parameter.                *)
FirstSets(cs, n, letter, isSet, to) ==
  IF \E i \in 1 .. n : cs[i][1] = letter
  THEN /\ isSet
       /\ \E i \in 1 .. n : /\ cs[i][1] = letter /\ to = cs[i][2]
                            /\ \A j \in 1 .. i - 1 : cs[j][1] # letter
  ELSE ~isSet

LEMMA FirstSetsNext ==
  ASSUME NEW cs, NEW n \in Nat, NEW letter, NEW isSet \in BOOLEAN, NEW to,
         NEW isSet2 \in BOOLEAN, NEW to2,
         FirstSets(cs, n, letter, isSet, to),
         IF cs[n + 1][1] = letter /\ ~isSet THEN isSet2 /\ to2 = cs[n + 1][2]
                                            ELSE isSet2 = isSet /\ to2 = to
  PROVE  FirstSets(cs, n + 1, letter, isSet2, to2)
<1>1. \A i \in 1 .. n + 1 : i \in 1 .. n \/ i = n + 1
  BY SMT
<1>2. n + 1 \in 1 .. n + 1 /\ (\A i \in 1 .. n : i \in 1 .. n + 1) /\ (n + 1) - 1 = n
  BY SMT
<1>3. CASE \E i \in 1 .. n : cs[i][1] = letter
  <2>1. isSet /\ isSet2 /\ to2 = to
    BY <1>3 DEF FirstSets
  <2>2. PICK i \in 1 .. n : /\ cs[i][1] = letter /\ to = cs[i][2]
                            /\ \A j \in 1 .. i - 1 : cs[j][1] # letter
    BY <1>3 DEF FirstSets
  <2>3. i \in 1 .. n + 1
    BY <1>2
  <2> QED BY <2>1, <2>2, <2>3, Zenon DEF FirstSets
<1>4. CASE ~\E i \in 1 .. n : cs[i][1] = letter
  <2>1. ~isSet
    BY <1>4 DEF FirstSets
  <2>2. CASE cs[n + 1][1] = letter
    <3>1. isSet2 /\ to2 = cs[n + 1][2]
      BY <2>1, <2>2
    <3>2. \A j \in 1 .. (n + 1) - 1 : cs[j][1] # letter
      BY <1>2, <1>4
    <3> QED BY <1>2, <2>2, <3>1, <3>2, Zenon DEF FirstSets
  <2>3. CASE cs[n + 1][1] # letter
    <3>1. ~isSet2
      BY <2>1, <2>3
    <3>2. ~\E i \in 1 .. n + 1 : cs[i][1] = letter
      BY <1>1, <1>4, <2>3
    <3> QED BY <3>1, <3>2 DEF FirstSets
  <2> QED BY <2>2, <2>3
<1> QED BY <1>3, <1>4

(* What a whole row asks for (modplayer.c:560-650).                        *)
LEMMA RowTakes ==
  ASSUME song \in Songs, NEW m \in Mods, NEW o, NEW r, o = Moved(m).order, r = Moved(m).row
  PROVE  LET x == UpdateRow(m)
             cs == Commands(o, r)
         IN  /\ x \in Mods /\ x.order = o /\ (~LoopsIn(o, r) => x.row = r)
             /\ FirstSets(cs, Len(cs), "B", x.changeOrder, x.nextOrder)
             /\ FirstSets(cs, Len(cs), "D", x.changeRow, x.nextRow)
<1> DEFINE at == Moved(m)
           cs == Commands(at.order, at.row)
           n == Len(cs)
           R(g) == [c \in 0 .. n |-> IF c = 0 THEN at ELSE ChannelCommand(g[c - 1], cs[c])]
           played == CHOOSE g : g = R(g)
           Good(x, c) == /\ x \in Mods /\ x.order = at.order
                         /\ (\A i \in 1 .. c : cs[i][1] # "E6") => x.row = at.row
                         /\ FirstSets(cs, c, "B", x.changeOrder, x.nextOrder)
                         /\ FirstSets(cs, c, "D", x.changeRow, x.nextRow)
<1>1. at \in Mods /\ ~at.changeOrder /\ ~at.changeRow
  <2>1. at \in Mods
    BY MovedTyped
  <2>2. \E q : at = [q EXCEPT !.changeRow = FALSE, !.changeOrder = FALSE]
    BY DEF Moved
  <2>3. PICK q : at = [q EXCEPT !.changeRow = FALSE, !.changeOrder = FALSE]
    BY <2>2
  <2>4. DOMAIN at = DOMAIN q
    BY <2>3
  <2>5. {"changeRow", "changeOrder"} \subseteq DOMAIN at
    BY <2>1 DEF Mods
  <2> QED BY <2>1, <2>3, <2>4, <2>5
<1>2. /\ cs \in Seq(STRING \X Nat) /\ Of(o, r, "E6") = {i \in DOMAIN cs : cs[i][1] = "E6"}
      /\ \A c \in DOMAIN cs : cs[c][1] \in {"E6", "EE"} => cs[c][2] \in 0 .. 15
  <2>1. at.order \in 0 .. SongLength - 1 /\ at.row \in 0 .. Rows - 1
    BY <1>1 DEF Mods
  <2> HIDE DEF at
  <2> QED BY <2>1, SongFacts DEF Of, at
<1>3. UpdateRow(m) = played[n] /\ cs = Commands(o, r) /\ o = at.order /\ r = at.row
  BY DEF UpdateRow
<1> HIDE DEF at, cs
<1>4. n \in Nat /\ DOMAIN cs = 1 .. n
  BY <1>2
<1> HIDE DEF n
<1>5. played = R(played)
  <2>1. PICK g : Plays(g, at, cs, n)
    BY <1>4, PlayedExists
  <2>2. g = R(g)
    BY <2>1 DEF Plays
  <2>3. \E f : f = R(f)
    BY <2>2
  <2> QED BY <2>3
<1> HIDE DEF played
<1>6. \A c \in 0 .. n : Good(played[c], c)
  <2> DEFINE T == {c \in 0 .. n : ~Good(played[c], c)}
  <2>1. SUFFICES ASSUME T # {} PROVE FALSE
    OBVIOUS
  <2>2. T \subseteq Nat
    BY <1>4, SMT
  <2>3. PICK c \in T : \A j \in T : c =< j
    BY <2>1, <2>2, LeastExists
  <2>4. CASE c = 0
    <3>1. played[c] = at
      BY <1>5, <2>3, <2>4
    <3>2. ~\E i \in 1 .. 0 : TRUE
      BY SMT
    <3>3. /\ FirstSets(cs, 0, "B", at.changeOrder, at.nextOrder)
          /\ FirstSets(cs, 0, "D", at.changeRow, at.nextRow)
      BY <1>1, <3>2 DEF FirstSets
    <3>4. Good(at, 0)
      BY <1>1, <3>3
    <3> QED BY <2>3, <2>4, <3>1, <3>4
  <2>5. CASE c # 0
    <3> DEFINE b == c - 1
               y == played[b]
               x == played[c]
    <3>1. b \in 0 .. n /\ ~(c =< b) /\ c \in 1 .. n /\ b \in Nat /\ c = b + 1
      BY <1>4, <2>3, <2>5, SMT
    <3>2. Good(y, b)
      <4> HIDE DEF Good, b
      <4> QED BY <2>3, <3>1
    <3>3. x = ChannelCommand(y, cs[c])
      BY <1>5, <2>3, <2>5
    <3>4. cs[c] \in STRING \X Nat /\ (cs[c][1] \in {"E6", "EE"} => cs[c][2] \in 0 .. 15)
      <4>1. c \in DOMAIN cs
        BY <1>4, <3>1
      <4> QED BY <1>2, <4>1
    <3> HIDE DEF b, y, x
    <3>5. x \in Mods /\ Takes(x, y, cs[c])
      BY <3>2, <3>3, <3>4, CommandTyped, CommandTakes
    <3>6. /\ x.changeOrder \in BOOLEAN /\ y.changeOrder \in BOOLEAN
          /\ x.changeRow \in BOOLEAN /\ y.changeRow \in BOOLEAN
      BY <3>2, <3>5 DEF Mods
    <3>7. FirstSets(cs, c, "B", x.changeOrder, x.nextOrder)
      <4>1. FirstSets(cs, b, "B", y.changeOrder, y.nextOrder)
        BY <3>2
      <4>2. IF cs[c][1] = "B" /\ ~y.changeOrder
            THEN x.changeOrder /\ x.nextOrder = cs[c][2]
            ELSE x.changeOrder = y.changeOrder /\ x.nextOrder = y.nextOrder
        BY <3>5 DEF Takes
      <4> QED BY <3>1, <3>6, <4>1, <4>2, FirstSetsNext
    <3>8. FirstSets(cs, c, "D", x.changeRow, x.nextRow)
      <4>1. FirstSets(cs, b, "D", y.changeRow, y.nextRow)
        BY <3>2
      <4>2. IF cs[c][1] = "D" /\ ~y.changeRow
            THEN x.changeRow /\ x.nextRow = cs[c][2]
            ELSE x.changeRow = y.changeRow /\ x.nextRow = y.nextRow
        BY <3>5 DEF Takes
      <4> QED BY <3>1, <3>6, <4>1, <4>2, FirstSetsNext
    <3>9. x.order = at.order /\ ((\A i \in 1 .. c : cs[i][1] # "E6") => x.row = at.row)
      <4>1. c \in 1 .. c /\ \A i \in 1 .. b : i \in 1 .. c
        BY <3>1, SMT
      <4> QED BY <3>2, <3>5, <4>1 DEF Takes
    <3>10. Good(x, c)
      BY <3>5, <3>7, <3>8, <3>9
    <3> HIDE DEF Good
    <3> QED BY <2>3, <3>10 DEF x
  <2> QED BY <2>4, <2>5
<1>7. n \in 0 .. n
  BY <1>4, SMT
<1>8. Good(played[n], n)
  BY <1>6, <1>7
<1>9. ~LoopsIn(o, r) => \A i \in 1 .. n : cs[i][1] # "E6"
  BY <1>2, <1>4 DEF LoopsIn
<1> QED BY <1>3, <1>8, <1>9 DEF n

(* No row of a song jumps to an order and breaks to a row.                 *)
NoJumpWithBreak ==
  \A s \in Songs : \A p \in DOMAIN s.rows, r \in 0 .. Rows - 1 :
    \A i, j \in DOMAIN s.rows[p][r] : ~(s.rows[p][r][i][1] = "B" /\ s.rows[p][r][j][1] = "D")

LEMMA JumpOrBreak ==
  ASSUME song \in Songs, NoJumpWithBreak, NEW o \in 0 .. SongLength - 1, NEW r \in 0 .. Rows - 1
  PROVE  Of(o, r, "B") = {} \/ Of(o, r, "D") = {}
<1>1. song.table[o + 1] \in DOMAIN song.rows
  <2>1. song.table \in Seq(DOMAIN song.rows) /\ SongLength \in Nat
    BY SongsAssumption, SongFacts
  <2> QED BY <2>1 DEF SongLength
<1> QED BY <1>1 DEF NoJumpWithBreak, Of, Commands

(* The first command of a row with a letter is the one FirstSets speaks of. *)
LEMMA RowSets ==
  ASSUME song \in Songs, NEW o \in 0 .. SongLength - 1, NEW r \in 0 .. Rows - 1,
         NEW letter, NEW isSet \in BOOLEAN, NEW to,
         FirstSets(Commands(o, r), Len(Commands(o, r)), letter, isSet, to)
  PROVE  /\ isSet <=> Of(o, r, letter) # {}
         /\ isSet => to = FirstOf(o, r, letter)
<1> DEFINE cs == Commands(o, r)
           n == Len(cs)
           S == Of(o, r, letter)
<1>1. cs \in Seq(STRING \X Nat)
  BY SongFacts
<1>2. n \in Nat /\ DOMAIN cs = 1 .. n
  BY <1>1
<1>3. S = {i \in 1 .. n : cs[i][1] = letter}
  BY <1>2 DEF Of
<1>4. FirstOf(o, r, letter) = cs[CHOOSE i \in S : \A j \in S : i <= j][2]
  BY DEF FirstOf
<1>5. FirstSets(cs, n, letter, isSet, to)
  OBVIOUS
<1> HIDE DEF cs, n, S
<1>6. isSet <=> S # {}
  BY <1>3, <1>5 DEF FirstSets
<1>7. ASSUME isSet PROVE to = FirstOf(o, r, letter)
  <2>1. PICK i \in 1 .. n : /\ cs[i][1] = letter /\ to = cs[i][2]
                            /\ \A j \in 1 .. i - 1 : cs[j][1] # letter
    BY <1>5, <1>7 DEF FirstSets
  <2>2. i \in S /\ S \subseteq 1 .. n
    BY <1>3, <2>1
  <2>3. ASSUME NEW j \in S PROVE i <= j
    <3>1. SUFFICES ASSUME ~(i <= j) PROVE FALSE
      OBVIOUS
    <3>2. j \in 1 .. i - 1
      BY <1>2, <2>1, <2>2, <3>1, SMT
    <3> QED BY <1>3, <2>1, <3>2
  <2>4. ASSUME NEW k \in S, \A j \in S : k <= j PROVE k = i
    <3>1. k <= i /\ i <= k
      BY <2>2, <2>3, <2>4
    <3>2. k \in Int /\ i \in Int
      BY <1>2, <2>2
    <3> QED BY <3>1, <3>2, SMT
  <2>5. (CHOOSE k \in S : \A j \in S : k <= j) = i
    BY <2>2, <2>3, <2>4
  <2> QED BY <1>4, <2>1, <2>5
<1> QED BY <1>6, <1>7 DEF S

(* Where the next row is found, of a song that does not ask for both.      *)
LEMMA MovedAt ==
  ASSUME NEW m \in Mods, ~(m.changeOrder /\ m.changeRow)
  PROVE  /\ Moved(m).order = IF m.changeOrder THEN InSong(m.nextOrder) ELSE m.order
         /\ Moved(m).row = IF m.changeRow THEN RowAsked(m.nextRow)
                           ELSE IF m.changeOrder THEN 0 ELSE m.row
<1> DEFINE o == InSong(m.nextOrder)
           r == RowAsked(m.nextRow)
<1>1. CASE m.changeOrder
  <2>1. Moved(m) = [[m EXCEPT !.row = 0, !.order = o]
                      EXCEPT !.changeRow = FALSE, !.changeOrder = FALSE]
    BY <1>1 DEF Moved
  <2>2. ~m.changeRow
    BY <1>1
  <2> HIDE DEF o, r
  <2>3. Moved(m).order = o /\ Moved(m).row = 0
    BY <2>1 DEF Mods
  <2> QED BY <1>1, <2>2, <2>3 DEF o
<1>2. CASE ~m.changeOrder /\ m.changeRow
  <2>0. [m EXCEPT !.row = r, !.order = IF m.changeOrder THEN InSong(@ + 1) ELSE @]
        = [m EXCEPT !.row = r, !.order = m.order]
    BY <1>2 DEF Mods
  <2>1. Moved(m) = [[m EXCEPT !.row = r, !.order = m.order]
                      EXCEPT !.changeRow = FALSE, !.changeOrder = FALSE]
    BY <1>2, <2>0 DEF Moved
  <2> HIDE DEF o, r
  <2>3. Moved(m).order = m.order /\ Moved(m).row = r
    BY <2>1 DEF Mods
  <2> QED BY <1>2, <2>3 DEF r
<1>3. CASE ~m.changeOrder /\ ~m.changeRow
  <2>1. Moved(m) = [m EXCEPT !.changeRow = FALSE, !.changeOrder = FALSE]
    BY <1>3 DEF Moved
  <2>3. Moved(m).order = m.order /\ Moved(m).row = m.row
    BY <2>1 DEF Mods
  <2> QED BY <1>3, <2>3
<1> QED BY <1>1, <1>2, <1>3

NextAt(m) == <<Moved(m).order, Moved(m).row>>
WantInv == ~LoopsIn(rowPointer[1], rowPointer[2]) => NextAt(mod) = want

(* What a row leaves behind is what After reads off its commands.          *)
LEMMA RowLeaves ==
  ASSUME song \in Songs, NoJumpWithBreak, NEW m \in Mods,
         ~LoopsIn(Moved(m).order, Moved(m).row)
  PROVE  NextAt(NextRow(UpdateRow(m))) = After(Moved(m).order, Moved(m).row)
<1> DEFINE o == Moved(m).order
           r == Moved(m).row
           x == UpdateRow(m)
           y == NextRow(x)
           B == Of(o, r, "B")
           D == Of(o, r, "D")
           next == InSong(o + 1)
<1>1. o \in 0 .. SongLength - 1 /\ r \in 0 .. Rows - 1 /\ Rows \in Nat /\ SongLength \in Nat
  <2>1. Moved(m) \in Mods
    BY MovedTyped
  <2> QED BY <2>1, SongFacts DEF Mods
<1>2. ~LoopsIn(o, r)
  OBVIOUS
<1> HIDE DEF o, r
<1>3. /\ x \in Mods /\ x.order = o /\ x.row = r
      /\ FirstSets(Commands(o, r), Len(Commands(o, r)), "B", x.changeOrder, x.nextOrder)
      /\ FirstSets(Commands(o, r), Len(Commands(o, r)), "D", x.changeRow, x.nextRow)
  BY <1>2, RowTakes DEF o, r
<1> HIDE DEF x
<1>4. x.changeOrder \in BOOLEAN /\ x.changeRow \in BOOLEAN
  BY <1>3 DEF Mods
<1>5. /\ x.changeOrder <=> B # {}
      /\ x.changeOrder => x.nextOrder = FirstOf(o, r, "B")
  BY <1>1, <1>3, <1>4, RowSets
<1>6. /\ x.changeRow <=> D # {}
      /\ x.changeRow => x.nextRow = FirstOf(o, r, "D")
  BY <1>1, <1>3, <1>4, RowSets
<1>7. B = {} \/ D = {}
  BY <1>1, JumpOrBreak
<1>8. After(o, r) =
        IF B # {} THEN <<InSong(FirstOf(o, r, "B")), IF D = {} THEN 0 ELSE RowAsked(FirstOf(o, r, "D"))>>
        ELSE IF D # {} THEN <<next, RowAsked(FirstOf(o, r, "D"))>>
        ELSE IF r + 1 = Rows THEN <<next, 0>> ELSE <<o, r + 1>>
  BY DEF After
<1> HIDE DEF B, D
<1>9. y \in Mods
  BY <1>3, NextRowTyped
<1>10. y = IF x.row + 1 >= Rows \/ x.changeRow
           THEN [x EXCEPT !.row = 0, !.order = InSong(@ + 1)]
           ELSE [x EXCEPT !.row = @ + 1]
  BY DEF NextRow
<1> HIDE DEF y
<1>11. /\ y.changeOrder = x.changeOrder /\ y.nextOrder = x.nextOrder
       /\ y.changeRow = x.changeRow /\ y.nextRow = x.nextRow
  BY <1>3, <1>10 DEF Mods
<1>12. (r + 1 >= Rows \/ x.changeRow) => y.order = next /\ y.row = 0
  BY <1>3, <1>10 DEF Mods
<1>13. ~(r + 1 >= Rows \/ x.changeRow) => y.order = o /\ y.row = r + 1
  BY <1>3, <1>10 DEF Mods
<1>14. r + 1 >= Rows <=> r + 1 = Rows
  BY <1>1, SMT
<1>15. /\ Moved(y).order = IF y.changeOrder THEN InSong(y.nextOrder) ELSE y.order
       /\ Moved(y).row = IF y.changeRow THEN RowAsked(y.nextRow)
                         ELSE IF y.changeOrder THEN 0 ELSE y.row
  <2>1. ~(y.changeOrder /\ y.changeRow)
    BY <1>5, <1>6, <1>7, <1>11
  <2> QED BY <1>9, <2>1, MovedAt
<1> HIDE DEF next
<1>16. CASE B # {}
  <2>1. Moved(y).order = InSong(FirstOf(o, r, "B")) /\ Moved(y).row = 0
    BY <1>5, <1>6, <1>7, <1>11, <1>15, <1>16
  <2>2. After(o, r) = <<InSong(FirstOf(o, r, "B")), 0>>
    BY <1>7, <1>8, <1>16
  <2> QED BY <2>1, <2>2 DEF NextAt, o, r, x, y
<1>17. CASE D # {}
  <2>1. Moved(y).order = next /\ Moved(y).row = RowAsked(FirstOf(o, r, "D"))
    BY <1>5, <1>6, <1>7, <1>11, <1>12, <1>15, <1>17
  <2>2. After(o, r) = <<next, RowAsked(FirstOf(o, r, "D"))>>
    BY <1>7, <1>8, <1>17
  <2> QED BY <2>1, <2>2 DEF NextAt, o, r, x, y
<1>18. CASE B = {} /\ D = {}
  <2>1. Moved(y).order = y.order /\ Moved(y).row = y.row /\ ~x.changeRow
    BY <1>5, <1>6, <1>11, <1>15, <1>18
  <2>2. After(o, r) = IF r + 1 = Rows THEN <<next, 0>> ELSE <<o, r + 1>>
    BY <1>8, <1>18
  <2>3. <<y.order, y.row>> = IF r + 1 = Rows THEN <<next, 0>> ELSE <<o, r + 1>>
    BY <1>12, <1>13, <1>14, <2>1
  <2> QED BY <2>1, <2>2, <2>3 DEF NextAt, o, r, x, y
<1> QED BY <1>16, <1>17, <1>18

LEMMA WantStart == SongInit => WantInv
<1> SUFFICES ASSUME SongInit PROVE WantInv
  OBVIOUS
<1>1. mod \in Mods
  BY SongStart DEF SongInv
<1>2. /\ ~mod.changeOrder /\ ~mod.changeRow /\ mod.order = 0 /\ mod.row = 0
      /\ want = <<0, 0>>
  BY DEF SongInit
<1>3. Moved(mod).order = 0 /\ Moved(mod).row = 0
  BY <1>1, <1>2, MovedAt
<1> QED BY <1>2, <1>3 DEF WantInv, NextAt

(* Fields the row's position does not depend on.                           *)
LEMMA SamePlace ==
  ASSUME song \in Songs, NEW m \in Mods, NEW w \in Mods,
         \E t, d : w = [m EXCEPT !.tick = t, !.patternDelay = d]
  PROVE  NextAt(w) = NextAt(m)
<1>1. /\ w.order = m.order /\ w.row = m.row /\ w.changeOrder = m.changeOrder
      /\ w.changeRow = m.changeRow /\ w.nextOrder = m.nextOrder /\ w.nextRow = m.nextRow
  BY DEF Mods
<1> DEFINE P(q) ==
      IF q.changeRow
      THEN <<IF q.changeOrder THEN InSong(InSong(q.nextOrder) + 1) ELSE q.order, RowAsked(q.nextRow)>>
      ELSE <<IF q.changeOrder THEN InSong(q.nextOrder) ELSE q.order,
             IF q.changeOrder THEN 0 ELSE q.row>>
<1>2. ASSUME NEW q \in Mods PROVE NextAt(q) = P(q)
  <2>1. CASE ~(q.changeOrder /\ q.changeRow)
    BY <2>1, MovedAt DEF NextAt
  <2>2. CASE q.changeOrder /\ q.changeRow
    <3> DEFINE o == InSong(q.nextOrder)
               r == RowAsked(q.nextRow)
               a == [q EXCEPT !.row = 0, !.order = o]
               p == InSong(o + 1)
    <3>1. Moved(q) = [[a EXCEPT !.row = r, !.order = InSong(@ + 1)]
                        EXCEPT !.changeRow = FALSE, !.changeOrder = FALSE]
      BY <2>2 DEF Moved
    <3>2. [a EXCEPT !.row = r, !.order = InSong(@ + 1)] = [a EXCEPT !.row = r, !.order = p]
      <4>1. a.order = o
        BY DEF Mods
      <4> QED BY <4>1
    <3>3. Moved(q) = [[a EXCEPT !.row = r, !.order = p]
                        EXCEPT !.changeRow = FALSE, !.changeOrder = FALSE]
      BY <3>1, <3>2
    <3> HIDE DEF o, r, p
    <3>4. Moved(q).order = p /\ Moved(q).row = r
      BY <3>3 DEF Mods
    <3> QED BY <2>2, <3>4 DEF NextAt, o, r, p
  <2> QED BY <2>1, <2>2
<1>3. P(w) = P(m)
  BY <1>1
<1> HIDE DEF P
<1> QED BY <1>2, <1>3

LEMMA WantPoll ==
  ASSUME SongInv, WantInv, NoJumpWithBreak, MOD_Poll
  PROVE  WantInv'
<1>1. song' = song /\ song \in Songs /\ mod \in Mods /\ mod' \in Mods
  <2>1. SongInv'
    BY PollStep
  <2>2. song' = song /\ song \in Songs /\ mod \in Mods /\ Mods' = Mods /\ mod' \in Mods'
    BY <2>1 DEF MOD_Poll, SongInv, Mods, SongLength
  <2> QED BY <2>2
<1>2. CASE PlaysRow
  <2> DEFINE now == [mod EXCEPT !.tick = 0]
             played == UpdateRow(now)
             at == Moved(mod)
  <2>1. /\ mod' = NextRow(played) /\ rowPointer' = <<at.order, at.row>>
        /\ want' = After(at.order, at.row)
    BY <1>2 DEF MOD_Poll
  <2>2. now \in Mods /\ now = [mod EXCEPT !.tick = 0, !.patternDelay = mod.patternDelay]
    <3>1. 0 \in 0 .. 31
      BY SMT
    <3> QED BY <1>1, <3>1 DEF Mods
  <2> HIDE DEF now
  <2>3. NextAt(now) = NextAt(mod)
    BY <1>1, <2>2, SamePlace
  <2>4. Moved(now).order = at.order /\ Moved(now).row = at.row
    BY <2>3 DEF NextAt
  <2>5. ~LoopsIn(at.order, at.row) => NextAt(NextRow(played)) = After(at.order, at.row)
    BY <1>1, <2>2, <2>4, RowLeaves
  <2> DEFINE o == at.order
             r == at.row
  <2>6. rowPointer'[1] = o /\ rowPointer'[2] = r
    BY <2>1
  <2> HIDE DEF o, r, played
  <2>7. ASSUME ~LoopsIn(rowPointer[1], rowPointer[2])' PROVE NextAt(mod)' = want'
    <3>1. ~LoopsIn(o, r)
      BY <1>1, <2>6, <2>7 DEF LoopsIn, Of, Commands
    <3>2. NextAt(mod') = After(o, r)
      BY <2>1, <2>5, <3>1 DEF o, r
    <3>3. NextAt(mod)' = NextAt(mod')
      BY <1>1 DEF NextAt, Moved, InSong, SongLength
    <3> QED BY <2>1, <3>2, <3>3 DEF o, r
  <2> QED BY <2>7 DEF WantInv
<1>3. CASE ~PlaysRow
  <2>1. /\ UNCHANGED <<song, rowPointer, want>>
        /\ mod' = IF mod.tick + 1 < mod.speed
                  THEN [mod EXCEPT !.tick = @ + 1]
                  ELSE [mod EXCEPT !.tick = 0, !.patternDelay = @ - 1]
    BY <1>3 DEF MOD_Poll
  <2>2. \E t, d : mod' = [mod EXCEPT !.tick = t, !.patternDelay = d]
    <3> DEFINE t == mod.tick + 1
               e == mod.patternDelay - 1
    <3>1. \/ mod' = [mod EXCEPT !.tick = t, !.patternDelay = mod.patternDelay]
          \/ mod' = [mod EXCEPT !.tick = 0, !.patternDelay = e]
      BY <1>1, <2>1 DEF Mods
    <3> HIDE DEF t, e
    <3> QED BY <3>1
  <2>3. NextAt(mod') = NextAt(mod)
    BY <1>1, <2>2, SamePlace
  <2>4. NextAt(mod)' = NextAt(mod')
    BY <1>1 DEF NextAt, Moved, InSong, SongLength
  <2>5. ~LoopsIn(rowPointer[1], rowPointer[2])' => ~LoopsIn(rowPointer[1], rowPointer[2])
    BY <1>1, <2>1 DEF LoopsIn, Of, Commands
  <2> QED BY <2>1, <2>3, <2>4, <2>5 DEF WantInv
<1> QED BY <1>2, <1>3

LEMMA WantAsk ==
  ASSUME SongInv, WantInv, ~AsksForBoth, Ask
  PROVE  WantInv'
<1>1. song' = song /\ song \in Songs /\ mod \in Mods
  BY DEF Ask, AskOrder, AskRow, SongInv
<1>2. OrdersAsked \subseteq Nat /\ RowsAsked \subseteq Nat
  BY <1>1, SongFacts
<1>3. ASSUME NEW m \in Mods, NEW now \in BOOLEAN
      PROVE  AtOnce(m, now) \in Mods /\ NextAt(AtOnce(m, now)) = NextAt(m)
  <2>1. AtOnce(m, now) \in Mods
    BY AtOnceTyped
  <2>2. \E t, d : AtOnce(m, now) = [m EXCEPT !.tick = t, !.patternDelay = d]
    <3>1. \/ AtOnce(m, now) = [m EXCEPT !.tick = m.speed, !.patternDelay = m.patternDelay]
          \/ AtOnce(m, now) = [m EXCEPT !.tick = m.tick, !.patternDelay = m.patternDelay]
      BY DEF AtOnce, Mods
    <3> QED BY <3>1
  <2> QED BY <1>1, <2>1, <2>2, SamePlace
<1>4. NextAt(mod)' = NextAt(mod')
  BY <1>1 DEF NextAt, Moved, InSong, SongLength
<1>5. ASSUME NEW o \in OrdersAsked, NEW now \in BOOLEAN, ~mod.changeRow, AskOrder(o, now)
      PROVE  WantInv'
  <2> DEFINE m == [mod EXCEPT !.changeOrder = TRUE, !.nextOrder = o]
  <2>1. mod' = AtOnce(m, now) /\ want' = <<InSong(o), 0>>
    BY <1>5 DEF AskOrder
  <2>2. /\ m \in Mods /\ m.changeOrder /\ ~m.changeRow /\ m.nextOrder = o
    BY <1>1, <1>2, <1>5 DEF Mods
  <2> HIDE DEF m
  <2>3. Moved(m).order = InSong(o) /\ Moved(m).row = 0
    BY <2>2, MovedAt
  <2>4. NextAt(mod') = <<InSong(o), 0>>
    BY <1>3, <2>1, <2>2, <2>3 DEF NextAt
  <2> QED BY <1>4, <2>1, <2>4 DEF WantInv
<1>6. ASSUME NEW r \in RowsAsked, NEW now \in BOOLEAN, ~mod.changeOrder, AskRow(r, now)
      PROVE  WantInv'
  <2> DEFINE m == [mod EXCEPT !.changeRow = TRUE, !.nextRow = r]
  <2>1. mod' = AtOnce(m, now) /\ want' = <<mod.order, RowAsked(r)>>
    BY <1>6 DEF AskRow
  <2>2. /\ m \in Mods /\ ~m.changeOrder /\ m.changeRow /\ m.nextRow = r /\ m.order = mod.order
    BY <1>1, <1>2, <1>6 DEF Mods
  <2> HIDE DEF m
  <2>3. Moved(m).order = mod.order /\ Moved(m).row = RowAsked(r)
    BY <2>2, MovedAt
  <2>4. NextAt(mod') = <<mod.order, RowAsked(r)>>
    BY <1>3, <2>1, <2>2, <2>3 DEF NextAt
  <2> QED BY <1>4, <2>1, <2>4 DEF WantInv
<1> QED BY <1>5, <1>6 DEF Ask

(* The row that plays is the one the row before or the program asked for   *)
(* last (modplayer.c:560-683), for songs of any length, rows and channels  *)
(* without a jump and a break in one row, and a program that does not move *)
(* the order and the row at once.                                          *)
THEOREM RowsAsAsked ==
  (~AsksForBoth /\ NoJumpWithBreak) => (SongSpec => PositionAskedFor)
<1> SUFFICES ASSUME ~AsksForBoth, NoJumpWithBreak PROVE SongSpec => PositionAskedFor
  OBVIOUS
<1>1. SongInit => SongInv /\ WantInv
  BY SongStart, WantStart
<1>2. SongInv /\ WantInv /\ [SongNext]_songVars => (SongInv /\ WantInv)'
  <2> SUFFICES ASSUME SongInv, WantInv, [SongNext]_songVars PROVE (SongInv /\ WantInv)'
    OBVIOUS
  <2>1. CASE MOD_Poll
    BY <2>1, PollStep, WantPoll
  <2>2. CASE Ask
    BY <2>2, AskStep, WantAsk
  <2>3. CASE UNCHANGED songVars
    BY <2>3 DEF songVars, SongInv, WantInv, Mods, PollsLeft, SongLength, LoopsIn, Of, Commands,
                NextAt, Moved, InSong
  <2> QED BY <2>1, <2>2, <2>3 DEF SongNext
<1>3. WantInv => [(MOD_Poll /\ PlaysRow /\ ~LoopsIn(rowPointer[1], rowPointer[2]))
                    => rowPointer' = want]_songVars
  <2> SUFFICES ASSUME WantInv, MOD_Poll, PlaysRow, ~LoopsIn(rowPointer[1], rowPointer[2])
               PROVE  rowPointer' = want
    OBVIOUS
  <2>1. rowPointer' = <<Moved(mod).order, Moved(mod).row>>
    BY DEF MOD_Poll
  <2> QED BY <2>1 DEF WantInv, NextAt
<1> QED BY <1>1, <1>2, <1>3, PTL DEF SongSpec, PositionAskedFor
=============================================================================
