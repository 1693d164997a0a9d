------------------------------ MODULE MCScene ------------------------------
(***************************************************************************)
(* Scene with the files of the game, its positions and its pool, and the   *)
(* scenes main.c and scene.h allow: main.c's own with the snow, one with   *)
(* the plain bar and an actor, and one with the bar of its own.            *)
(***************************************************************************)
EXTENDS Scene

MCWidth == [snowy |-> 160, font |-> 41, charbar |-> 80, normbar |-> 80,
            ctc |-> 2, snow |-> 1, rinamu |-> 40]
MCFiles == DOMAIN MCWidth
MCTim == [f \in MCFiles |->
            [w |-> MCWidth[f], h |-> 8, bytes |-> 1, indexed |-> TRUE]]

MCActorSlots == <<"actor1", "actor2">>
MCSlots == {"background", "font", "bar", "continue", "effect",
            "actor1", "actor2"}
MCAdded == {"rinamu"}
MCCalls == MCSlots \X MCFiles

MCAuto == {"snowy", "charbar", "normbar", "rinamu"}
MCImageVX == [f \in MCFiles |-> IF f \in MCAuto THEN -1
                                 ELSE IF f = "ctc" THEN 320 ELSE 960]
MCImageVY == [f \in MCFiles |->
                CASE f \in MCAuto -> -1 [] f = "ctc" -> 480
                  [] f = "snow" -> 256 [] OTHER -> 32]
MCDirOf == [f \in MCFiles |->
              CASE f \in {"snowy", "rinamu"} -> "Left"
                [] f \in {"charbar", "normbar"} -> "Right" [] OTHER -> "None"]

MCBarFile == [NormalBar |-> "normbar", CharBar |-> "charbar"]
MCEffectFile == [SnowFall |-> "snow"]

Snowy(bar, effect, cast) ==
  [background |-> "snowy", barType |-> bar, effect |-> effect,
   actors |-> cast]

MainScene == Snowy(CharBar, SnowFall, <<>>)
PlainScene == Snowy(NormalBar, SnowFall, <<"rinamu">>)
NovelScene == Snowy(NVLBar, SnowFall, <<"nobody", "rinamu">>)
StillScene == Snowy(NormalBar, NoEffect, <<>>)

MCSceneInfos == {MainScene, PlainScene, NovelScene, StillScene}
MCPlainScenes == {PlainScene}

=============================================================================
