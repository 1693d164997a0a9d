------------------------------- MODULE Scene -------------------------------
(***************************************************************************)
(* The life of a scene (scene.c, actor.c): Scene_Init loads its images and *)
(* allocates its effect, stopping at some failures and going on after      *)
(* others; frames update and draw it; actors are added; Scene_Destroy      *)
(* gives the effect back.  Every load is one step of ImageStore, which     *)
(* Image_Load implements (ImageLoadProofs), so a load here succeeds or     *)
(* fails as a whole.                                                       *)
(*                                                                         *)
(* The caller is that of main.c: it calls Scene_Init, draws frames if the  *)
(* answer was Okay, and calls Scene_Destroy at the end.  main.c does so    *)
(* once; here the same Scene struct is used again, up to MaxScenes times.  *)
(***************************************************************************)
EXTENDS ImageStore, FiniteSets, Sequences

CONSTANTS
  SceneInfos,   \* what callers pass: [background, barType, effect, actors]
  Nobody,       \* an actor whose character Actor_Init has no case for
  FontFile, BarFile, ContinueFile, EffectFile,  \* the files scene.c names
  MAX_ACTORS,   \* the size of scene->actors
  ActorSlots,   \* the Image structs of scene->actors, in order
  Added,        \* what callers pass to Scene_AddActor
  MaxScenes     \* bound: calls of Scene_Init in one behaviour

NormalBar == "NormalBar"
CharBar == "CharBar"
NVLBar == "NVLBar"
BarType == {NormalBar, CharBar, NVLBar}

NoEffect == "NoEffect"
SnowFall == "SnowFall"
Effect == {NoEffect, SnowFall}

(* An actor is given by the file RinPoses has for its pose, or is Nobody. *)
ActorInfo == Files \cup {Nobody}
SceneInfo == [background : Files, barType : BarType, effect : Effect,
              actors : Seq(ActorInfo)]

ASSUME ScenesAssumption ==
  /\ MAX_ACTORS \in Nat
  /\ SceneInfos \subseteq SceneInfo /\ Added \subseteq ActorInfo
  /\ \A s \in SceneInfos : Len(s.actors) =< MAX_ACTORS
  /\ MaxScenes \in Nat \ {0}

ASSUME FilesAssumption ==
  /\ Nobody \notin Files
  /\ FontFile \in Files /\ ContinueFile \in Files
  /\ BarFile \in [{NormalBar, CharBar} -> Files]
  /\ EffectFile \in [{SnowFall} -> Files]

(* The Image structs of a Scene, beside those of its actors. *)
SceneSlots == {"background", "font", "bar", "continue", "effect"}

ASSUME SlotsAssumption ==
  /\ SceneSlots \subseteq Slots
  /\ ActorSlots \in [1 .. MAX_ACTORS -> Slots \ SceneSlots]

VARIABLES
  pc,           \* where Scene_Init is; "none": no scene, "up": a scene is shown
  sceneInfo,    \* of the scene
  actors,       \* ActorInfos of the scene's actors, sceneInfo.actorCount many
  textFinished, \* the text of the scene has been written
  effectProperties, \* the pointer: NULL, Garbage, or the block malloc gave
  blocks,       \* the blocks malloc gave that were not freed
  systems,      \* the blocks SnowSystem_Init has filled
  holds,        \* history: the file each Image struct was last loaded from
  stale,        \* history: the Image structs whose load in this scene failed
  drawn,        \* the Image structs the last frame drew, in order
  leaked,       \* history: the blocks of scenes that Scene_Init gave up
  scenes        \* calls of Scene_Init so far, for the bound

sceneVars == <<pc, sceneInfo, actors, textFinished, effectProperties, blocks,
               systems, holds, stale, drawn, leaked, scenes>>
vars == <<sceneVars, storeVars>>

NULL == 0
Garbage == -1
Nothing == "nothing"

-----------------------------------------------------------------------------
Goto(l) == pc' = l

(* main.c keeps the Scene on its stack: effectProperties holds whatever was *)
(* there before.                                                            *)
SceneInit ==
  /\ Init
  /\ pc = "none"
  /\ sceneInfo \in SceneInfos
  /\ actors = <<>>
  /\ textFinished = FALSE
  /\ effectProperties \in {NULL, Garbage}
  /\ blocks = {} /\ systems = {}
  /\ holds = [s \in Slots |-> Nothing]
  /\ stale = {}
  /\ drawn = <<>>
  /\ leaked = {}
  /\ scenes = 0

(* Image_Load of file f into slot s: on to okay, or to failed. *)
Load(s, f, okay, failed) ==
  /\ \/ /\ LoadOkay(s, f)
        /\ holds' = [holds EXCEPT ![s] = f]
        /\ stale' = stale \ {s}
        /\ Goto(okay)
     \/ /\ LoadFull(f) \/ LoadFails
        /\ stale' = stale \cup {s}
        /\ UNCHANGED holds
        /\ Goto(failed)

(* Scene_Init(scene, info, actorInfo). *)
Scene_Init(info) ==
  /\ pc = "none"
  /\ scenes < MaxScenes
  /\ scenes' = scenes + 1
  /\ sceneInfo' = info
  /\ actors' = <<>>
  /\ textFinished' = FALSE
  /\ stale' = {}
  /\ drawn' = <<>>
  /\ Goto("background")
  /\ UNCHANGED <<effectProperties, blocks, systems, holds, leaked, storeVars>>

LoadBackground ==
  /\ pc = "background"
  /\ Load("background", sceneInfo.background, "font", "none")
  /\ UNCHANGED <<sceneInfo, actors, textFinished, effectProperties, blocks,
                 systems, drawn, leaked, scenes>>

(* Font_Load. *)
LoadFont ==
  /\ pc = "font"
  /\ Load("font", FontFile, "bar", "none")
  /\ UNCHANGED <<sceneInfo, actors, textFinished, effectProperties, blocks,
                 systems, drawn, leaked, scenes>>

(* The bar's status is assigned and never looked at; NVLBar loads none. *)
LoadBarFallsThrough ==   \* mutant: no break after NormalBar
  /\ pc = "bar"
  /\ \/ /\ sceneInfo.barType \in {NormalBar, CharBar}
        /\ Load("bar", BarFile[CharBar], "continue", "continue")
     \/ /\ sceneInfo.barType \notin {NormalBar, CharBar}
        /\ Goto("malloc")
        /\ UNCHANGED <<storeVars, holds, stale>>
  /\ UNCHANGED <<sceneInfo, actors, textFinished, effectProperties, blocks,
                 systems, drawn, leaked, scenes>>

LoadBar ==
  /\ pc = "bar"
  /\ \/ /\ sceneInfo.barType = NormalBar
        /\ Load("bar", BarFile[NormalBar], "malloc", "malloc")
     \/ /\ sceneInfo.barType = CharBar
        /\ Load("bar", BarFile[CharBar], "continue", "continue")
     \/ /\ sceneInfo.barType \notin {NormalBar, CharBar}
        /\ Goto("malloc")
        /\ UNCHANGED <<storeVars, holds, stale>>
  /\ UNCHANGED <<sceneInfo, actors, textFinished, effectProperties, blocks,
                 systems, drawn, leaked, scenes>>

(* Nobody looks at the status of the continue icon either. *)
LoadContinue ==
  /\ pc = "continue"
  /\ Load("continue", ContinueFile, "malloc", "malloc")
  /\ UNCHANGED <<sceneInfo, actors, textFinished, effectProperties, blocks,
                 systems, drawn, leaked, scenes>>

(* malloc(sizeof(SnowSystem)): a new block, named after its scene. *)
MallocUnchecked ==   \* mutant: NULL is not looked at
  /\ pc = "malloc" /\ sceneInfo.effect = SnowFall
  /\ \/ /\ effectProperties' = scenes
        /\ blocks' = blocks \cup {scenes}
     \/ /\ effectProperties' = NULL
        /\ UNCHANGED blocks
  /\ Goto("effect")
  /\ UNCHANGED <<sceneInfo, actors, textFinished, systems, holds, stale,
                 drawn, leaked, scenes, storeVars>>

MallocEffect ==
  /\ pc = "malloc" /\ sceneInfo.effect = SnowFall
  /\ \/ /\ effectProperties' = scenes
        /\ blocks' = blocks \cup {scenes}
        /\ Goto("effect")
     \/ /\ effectProperties' = NULL
        /\ Goto("none")
        /\ UNCHANGED blocks
  /\ UNCHANGED <<sceneInfo, actors, textFinished, systems, holds, stale,
                 drawn, leaked, scenes, storeVars>>

(* Without an effect effectProperties is left as it is. *)
SkipEffect ==
  /\ pc = "malloc" /\ sceneInfo.effect # SnowFall
  /\ Goto("actors")
  /\ UNCHANGED <<sceneInfo, actors, textFinished, effectProperties, blocks,
                 systems, holds, stale, drawn, leaked, scenes, storeVars>>

(* The effect's image, and then SnowSystem_Init; a failure keeps the block. *)
LoadEffect ==
  /\ pc = "effect"
  /\ Load("effect", EffectFile[SnowFall], "actors", "none")
  /\ IF status' = Okay
     THEN /\ systems' = systems \cup {effectProperties}
          /\ UNCHANGED leaked
     ELSE /\ leaked' = leaked \cup {effectProperties}
          /\ UNCHANGED systems
  /\ UNCHANGED <<sceneInfo, actors, textFinished, effectProperties, blocks,
                 drawn, scenes>>

(* Actor_Init for the next of scene->actors: its texture, or -1, which its  *)
(* callers drop as they drop the status of the load.                        *)
Actor_Init(a) ==
  /\ actors' = Append(actors, a)
  /\ \/ /\ a # Nobody
        /\ Load(ActorSlots[Len(actors) + 1], a, pc, pc)
     \/ /\ a = Nobody
        /\ UNCHANGED <<pc, holds, stale, storeVars>>
  /\ UNCHANGED <<sceneInfo, textFinished, effectProperties, blocks, systems,
                 drawn, leaked, scenes>>

InitActor ==
  /\ pc = "actors"
  /\ Len(actors) < Len(sceneInfo.actors)
  /\ Actor_Init(sceneInfo.actors[Len(actors) + 1])

InitDone ==
  /\ pc = "actors"
  /\ Len(actors) = Len(sceneInfo.actors)
  /\ Goto("up")
  /\ UNCHANGED <<sceneInfo, actors, textFinished, effectProperties, blocks,
                 systems, holds, stale, drawn, leaked, scenes, storeVars>>

(* Scene_AddActor looks at no bound; its callers keep to MAX_ACTORS. *)
Scene_AddActor(a) ==
  /\ pc = "up"
  /\ Len(actors) < MAX_ACTORS
  /\ Actor_Init(a)

(* One turn of the main loop: Scene_Update moves the snow, and              *)
(* Renderer_DrawScene draws the text, the continue icon if the text is      *)
(* finished, the bar, the snow, the actors and the background.              *)
Frame ==
  /\ pc = "up"
  /\ textFinished' \in {b \in BOOLEAN : textFinished => b}
  /\ drawn' = <<"font">>
              \o (IF textFinished' THEN <<"continue">> ELSE <<>>)
              \o <<"bar">>
              \o (IF sceneInfo.effect = SnowFall THEN <<"effect">> ELSE <<>>)
              \o SubSeq(ActorSlots, 1, Len(actors))
              \o <<"background">>
  /\ UNCHANGED <<pc, sceneInfo, actors, effectProperties, blocks, systems,
                 holds, stale, leaked, scenes, storeVars>>

(* free(effectProperties) unless it is NULL.  What free makes of a pointer  *)
(* that malloc did not give, or that was freed before, is not defined.      *)
FreeEffect == blocks' = blocks \ {effectProperties}

Scene_Destroy ==
  /\ pc = "up"
  /\ FreeEffect
  /\ Goto(IF effectProperties \in blocks \cup {NULL} THEN "none" ELSE "undefined")
  /\ UNCHANGED <<sceneInfo, actors, textFinished, effectProperties, systems,
                 holds, stale, drawn, leaked, scenes, storeVars>>

SceneNext ==
  \/ \E info \in SceneInfos : Scene_Init(info)
  \/ LoadBackground \/ LoadFont \/ LoadBar \/ LoadContinue
  \/ MallocEffect \/ SkipEffect \/ LoadEffect
  \/ InitActor \/ InitDone
  \/ \E a \in Added : Scene_AddActor(a)
  \/ Frame
  \/ Scene_Destroy

SceneSpec == SceneInit /\ [][SceneNext]_vars

-----------------------------------------------------------------------------

(* What the variables hold; no more actors than the Scene has room for. *)
TypeOK ==
  /\ pc \in {"none", "background", "font", "bar", "continue", "malloc",
             "effect", "actors", "up", "undefined"}
  /\ sceneInfo \in SceneInfos
  /\ actors \in Seq(ActorInfo) /\ Len(actors) =< MAX_ACTORS
  /\ textFinished \in BOOLEAN
  /\ effectProperties \in {NULL, Garbage} \cup 1 .. MaxScenes
  /\ blocks \subseteq 1 .. scenes
  /\ systems \subseteq 1 .. scenes /\ leaked \subseteq 1 .. scenes
  /\ holds \in [Slots -> Files \cup {Nothing}]
  /\ stale \subseteq Slots
  /\ drawn \in Seq(Slots)
  /\ scenes \in 0 .. MaxScenes

(* A scene that Scene_Init answered Okay for has its background, its font   *)
(* and its effect, whatever failed before it or went on failing after it    *)
(* in scenes before (scene.c:13-21, 40-53).                                 *)
OkaySceneHasItsImages ==
  pc = "up" =>
    /\ holds["background"] = sceneInfo.background
    /\ holds["font"] = FontFile
    /\ sceneInfo.effect = SnowFall => holds["effect"] = EffectFile[SnowFall]

(* Scene_Update and Renderer_DrawSnow use, and Scene_Destroy frees, a block *)
(* that is this scene's own, not freed, and filled by SnowSystem_Init       *)
(* (scene.c:42-52, 75-92, 158).                                             *)
EffectOwned ==
  pc = "up" /\ sceneInfo.effect = SnowFall =>
    effectProperties = scenes /\ effectProperties \in blocks \cap systems

(* Between scenes no block is left but those of scenes Scene_Init gave up   *)
(* after malloc (scene.c:49-50, 87-92).                                     *)
OnlyFailedInitsLeak == pc = "none" => blocks \subseteq leaked

(* What a scene says it has it has, and gives back, whatever failed         *)
(* (scene.c).                                                               *)
ScenesAreWhole ==
  TypeOK /\ OkaySceneHasItsImages /\ EffectOwned /\ OnlyFailedInitsLeak

(* The file a struct of this scene is to be loaded from: the continue icon *)
(* is drawn with every bar but loaded with CharBar only, and NVLBar has no  *)
(* image of its own (scene.c:23-38).                                        *)
Asked(s) ==
  CASE s = "background" -> {sceneInfo.background}
    [] s = "font" -> {FontFile}
    [] s = "bar" -> IF sceneInfo.barType = NVLBar THEN Files \cup {Nothing}
                    ELSE {BarFile[sceneInfo.barType]}
    [] s = "continue" -> IF sceneInfo.barType = CharBar THEN {ContinueFile}
                         ELSE Files \cup {Nothing}
    [] s = "effect" -> {EffectFile[sceneInfo.effect]}
    [] OTHER -> {actors[n] : n \in {k \in DOMAIN actors : ActorSlots[k] = s}}

(* Whatever load fails, in this scene or in those before, a frame draws     *)
(* every image from the file its SceneInfo asks for, and none left over     *)
(* from a scene before, but the very structs whose own load failed: those   *)
(* of the bar, the icon and the actors, whose status nobody looks at        *)
(* (scene.c:23-38, 64-72, 108-170).                                         *)
DrawnAsAsked ==
  pc = "up" =>
    \A k \in DOMAIN drawn :
      \/ drawn[k] \in stale \ {"background", "font", "effect"}
      \/ Asked(drawn[k]) = {Nobody}
      \/ holds[drawn[k]] \in Asked(drawn[k])

(* "Draw the continue icon if the text is done writing." (scene.c:112):     *)
(* with the text finished, a frame of a scene all of whose loads succeeded  *)
(* draws the icon, and draws it from the file of the icon.                  *)
ContinueIconDrawn ==
  pc = "up" /\ stale = {} /\ textFinished =>
    /\ \E k \in DOMAIN drawn : drawn[k] = "continue"
    /\ holds["continue"] = ContinueFile

=============================================================================
