---------------------------- MODULE SceneProofs ----------------------------
(***************************************************************************)
(* Scene's invariants, for any scenes, files and actors, and any number of *)
(* scenes in the same struct.  Each follows from where Scene_Init is: the  *)
(* inductive invariant says what is loaded and allocated at each place,    *)
(* and what is drawn follows from what is loaded (FramesAsAsked).          *)
(***************************************************************************)
EXTENDS Scene, TLAPS

(* Scene_Init has loaded the background; the font; and has the effect.      *)
PastBackground == {"font", "bar", "continue", "malloc", "effect", "actors",
                   "up", "undefined"}
PastFont == PastBackground \ {"font"}
PastEffect == {"actors", "up", "undefined"}

CountInv == pc # "none" => scenes >= 1
ImagesInv ==
  /\ pc \in PastBackground => holds["background"] = sceneInfo.background
  /\ pc \in PastFont => holds["font"] = FontFile
  /\ pc \in PastEffect /\ sceneInfo.effect = SnowFall
       => holds["effect"] = EffectFile[SnowFall]
BlockInv ==
  /\ pc = "effect" => /\ sceneInfo.effect = SnowFall
                      /\ effectProperties = scenes
                      /\ effectProperties \in blocks
  /\ pc \in {"actors", "up"} /\ sceneInfo.effect = SnowFall
       => /\ effectProperties = scenes
          /\ effectProperties \in blocks \cap systems
LeakInv ==
  /\ pc \in {"none", "background", "font", "bar", "continue", "malloc"}
       => blocks \subseteq leaked
  /\ pc \in {"effect", "actors", "up"}
       => blocks \subseteq leaked \cup {effectProperties}

Inv == TypeOK /\ CountInv /\ ImagesInv /\ BlockInv /\ LeakInv

-----------------------------------------------------------------------------

(* What a load does to Scene's own variables. *)
LEMMA LoadParts ==
  ASSUME TypeOK, NEW s \in Slots, NEW f \in Files, NEW okay, NEW failed,
         Load(s, f, okay, failed)
  PROVE  /\ holds' \in [Slots -> Files \cup {Nothing}]
         /\ stale' \subseteq Slots
         /\ \/ /\ pc' = okay /\ status' = Okay
               /\ holds'[s] = f
            \/ pc' = failed /\ status' # Okay /\ holds'[s] = holds[s]
         /\ \A t \in Slots : t # s => holds'[t] = holds[t]
<1>1. stale' = stale \ {s} \/ stale' = stale \cup {s}
  BY DEF Load
<1>4. stale' \subseteq Slots
  BY <1>1 DEF TypeOK
<1>2. CASE LoadOkay(s, f) /\ holds' = [holds EXCEPT ![s] = f] /\ pc' = okay
  <2>1. status' = Okay
    BY <1>2 DEF LoadOkay
  <2> QED
    BY <1>4, <1>2, <2>1 DEF TypeOK
<1>3. CASE (LoadFull(f) \/ LoadFails) /\ holds' = holds /\ pc' = failed
  <2>1. status' # Okay
    BY <1>3 DEF LoadFull, LoadFails, Okay, VRAMError, FileLoadError,
                MallocError, FileReadError
  <2> QED
    BY <1>4, <1>3, <2>1 DEF TypeOK
<1> QED
  BY <1>2, <1>3 DEF Load, Goto

(* The parts of what a caller passes to Scene_Init. *)
LEMMA InfoParts ==
  ASSUME NEW info \in SceneInfos
  PROVE  /\ info.background \in Files
         /\ info.barType \in BarType /\ info.effect \in Effect
         /\ info.actors \in Seq(ActorInfo) /\ Len(info.actors) =< MAX_ACTORS
BY ScenesAssumption DEF SceneInfo

(* The Image structs are different. *)
LEMMA SlotFacts ==
  /\ SceneSlots \subseteq Slots
  /\ \A n \in 1 .. MAX_ACTORS : ActorSlots[n] \in Slots \ SceneSlots
BY SlotsAssumption

(* Actor_Init moves nothing but holds and the actors. *)
LEMMA ActorParts ==
  ASSUME TypeOK, NEW a \in ActorInfo, Len(actors) < MAX_ACTORS, Actor_Init(a)
  PROVE  /\ holds' \in [Slots -> Files \cup {Nothing}]
         /\ stale' \subseteq Slots
         /\ pc' = pc
         /\ \A s \in SceneSlots : holds'[s] = holds[s]
         /\ actors' \in Seq(ActorInfo) /\ Len(actors') =< MAX_ACTORS
         /\ UNCHANGED <<sceneInfo, textFinished, effectProperties, blocks,
                        systems, drawn, leaked, scenes>>
<1> DEFINE next == Len(actors) + 1
<1>1. next \in 1 .. MAX_ACTORS
  BY ScenesAssumption DEF TypeOK
<1>2. ActorSlots[next] \in Slots /\ ActorSlots[next] \notin SceneSlots
  BY <1>1, SlotFacts
<1>3. /\ actors' = Append(actors, a)
      /\ UNCHANGED <<sceneInfo, textFinished, effectProperties, blocks,
                     systems, drawn, leaked, scenes>>
  BY DEF Actor_Init
<1>4. actors' \in Seq(ActorInfo) /\ Len(actors') =< MAX_ACTORS
  BY <1>1, <1>3 DEF TypeOK
<1>5. CASE a # Nobody /\ Load(ActorSlots[next], a, pc, pc)
  <2>1. a \in Files
    BY <1>5 DEF ActorInfo
  <2> HIDE DEF next
  <2>2. /\ holds' \in [Slots -> Files \cup {Nothing}] /\ stale' \subseteq Slots
        /\ pc' = pc
        /\ \A t \in Slots : t # ActorSlots[next] => holds'[t] = holds[t]
    BY <1>2, <1>5, <2>1, LoadParts
  <2> QED
    BY <1>2, <1>3, <1>4, <2>2, SlotFacts
<1>6. CASE a = Nobody /\ UNCHANGED <<pc, holds, stale>>
  BY <1>3, <1>4, <1>6 DEF TypeOK
<1> QED
  BY <1>5, <1>6 DEF Actor_Init

-----------------------------------------------------------------------------

(* Every step keeps the types. *)
LEMMA StepTypeOK == ASSUME Inv, SceneNext PROVE TypeOK'
<1> USE DEF Goto
<1>a. SceneSlots \subseteq Slots /\ FontFile \in Files /\ ContinueFile \in Files
      /\ BarFile[NormalBar] \in Files /\ BarFile[CharBar] \in Files
      /\ EffectFile[SnowFall] \in Files
  BY SlotFacts, FilesAssumption
<1>b. {"background", "font", "bar", "continue", "effect"} \subseteq Slots
  BY <1>a DEF SceneSlots
<1>c. scenes \in 0 .. MaxScenes /\ MaxScenes \in Nat
  BY ScenesAssumption DEF Inv, TypeOK
<1>1. ASSUME NEW info \in SceneInfos, Scene_Init(info) PROVE TypeOK'
  <2>1. /\ <<>> \in Seq(ActorInfo) /\ Len(<<>>) =< MAX_ACTORS
        /\ <<>> \in Seq(Slots)
    BY ScenesAssumption
  <2>2. scenes' \in 0 .. MaxScenes /\ scenes' = scenes + 1
    BY <1>1, <1>c DEF Scene_Init
  <2>3. 1 .. scenes \subseteq 1 .. scenes'
    BY <2>2, <1>c
  <2>4. /\ blocks' \subseteq 1 .. scenes' /\ systems' \subseteq 1 .. scenes'
        /\ leaked' \subseteq 1 .. scenes'
    BY <1>1, <2>3 DEF Scene_Init, Inv, TypeOK
  <2>5. actors' = <<>> /\ drawn' = <<>> /\ textFinished' = FALSE
        /\ stale' = {} /\ pc' = "background" /\ sceneInfo' = info
        /\ UNCHANGED <<effectProperties, holds>>
    BY <1>1 DEF Scene_Init
  <2> QED
    BY <2>1, <2>2, <2>4, <2>5 DEF Inv, TypeOK
<1>2. CASE LoadBackground
  <2>1. sceneInfo.background \in Files
    BY InfoParts DEF Inv, TypeOK
  <2> QED
    BY <1>2, <1>b, <2>1, LoadParts DEF LoadBackground, Inv, TypeOK
<1>3. CASE LoadFont
  BY <1>3, <1>a, <1>b, LoadParts DEF LoadFont, Inv, TypeOK
<1>4. CASE LoadBar
  BY <1>4, <1>a, <1>b, LoadParts DEF LoadBar, Inv, TypeOK
<1>5. CASE LoadContinue
  BY <1>5, <1>a, <1>b, LoadParts DEF LoadContinue, Inv, TypeOK
<1>6. CASE MallocEffect
  <2>1. scenes \in 1 .. MaxScenes /\ scenes \in 1 .. scenes
    BY <1>6, <1>c DEF MallocEffect, Inv, CountInv
  <2> QED
    BY <1>6, <2>1 DEF MallocEffect, Inv, TypeOK
<1>7. CASE SkipEffect
  BY <1>7 DEF SkipEffect, Inv, TypeOK
<1>8. CASE LoadEffect
  <2>1. effectProperties \in 1 .. scenes
    BY <1>8, <1>c DEF LoadEffect, Inv, BlockInv, CountInv
  <2> QED
    BY <1>8, <1>a, <1>b, <2>1, LoadParts DEF LoadEffect, Inv, TypeOK
<1>9. CASE InitActor
  <2>1. /\ sceneInfo.actors[Len(actors) + 1] \in ActorInfo
        /\ Len(actors) < MAX_ACTORS
    BY <1>9, InfoParts, ScenesAssumption DEF InitActor, Inv, TypeOK
  <2> QED
    BY <1>9, <2>1, ActorParts DEF InitActor, Inv, TypeOK
<1>10. CASE InitDone
  BY <1>10 DEF InitDone, Inv, TypeOK
<1>11. ASSUME NEW a \in Added, Scene_AddActor(a) PROVE TypeOK'
  <2>1. a \in ActorInfo
    BY ScenesAssumption
  <2> QED
    BY <1>11, <2>1, ActorParts DEF Scene_AddActor, Inv, TypeOK
<1>12. CASE Frame
  <2>1. drawn' \in Seq(Slots)
    <3>1. SubSeq(ActorSlots, 1, Len(actors)) \in Seq(Slots)
      <4>1. /\ ActorSlots \in Seq(Slots) /\ Len(ActorSlots) = MAX_ACTORS
            /\ Len(actors) \in 0 .. MAX_ACTORS
        BY SlotsAssumption, ScenesAssumption DEF Inv, TypeOK
      <4> QED
        BY <4>1
    <3>2. /\ <<"font">> \in Seq(Slots) /\ <<"bar">> \in Seq(Slots)
          /\ <<"background">> \in Seq(Slots) /\ <<"effect">> \in Seq(Slots)
          /\ <<"continue">> \in Seq(Slots) /\ <<>> \in Seq(Slots)
      BY <1>b
    <3> QED
      BY <1>12, <3>1, <3>2 DEF Frame
  <2>2. textFinished' \in BOOLEAN
    BY <1>12 DEF Frame
  <2> QED
    BY <1>12, <2>1, <2>2 DEF Frame, Inv, TypeOK
<1>13. CASE Scene_Destroy
  BY <1>13 DEF Scene_Destroy, FreeEffect, Inv, TypeOK
<1> QED
  BY <1>1, <1>2, <1>3, <1>4, <1>5, <1>6, <1>7, <1>8, <1>9, <1>10, <1>11,
     <1>12, <1>13 DEF SceneNext

(* Scene_Init counts its calls before it loads anything. *)
LEMMA StepCount == ASSUME Inv, SceneNext PROVE CountInv'
<1>1. scenes \in Nat
  BY DEF Inv, TypeOK
<1>2. scenes' = scenes \/ (\E info \in SceneInfos : Scene_Init(info))
  BY DEF SceneNext, LoadBackground, LoadFont, LoadBar, LoadContinue,
         MallocEffect, SkipEffect, LoadEffect, InitActor, Actor_Init, InitDone,
         Scene_AddActor, Frame, Scene_Destroy
<1>3. CASE \E info \in SceneInfos : Scene_Init(info)
  BY <1>1, <1>3 DEF Scene_Init, CountInv
<1>4. CASE scenes' = scenes
  <2>1. pc # "none" \/ pc' = "none" \/ (\E info \in SceneInfos : Scene_Init(info))
    BY DEF SceneNext, LoadBackground, LoadFont, LoadBar, LoadContinue,
           MallocEffect, SkipEffect, LoadEffect, InitActor, Actor_Init,
           InitDone, Scene_AddActor, Frame, Scene_Destroy
  <2> QED
    BY <1>1, <1>3, <1>4, <2>1 DEF Inv, CountInv
<1> QED
  BY <1>2, <1>3, <1>4

(* A step of Scene_Init moves on only with the image it has just loaded. *)
LEMMA StepImages == ASSUME Inv, SceneNext PROVE ImagesInv'
<1> USE DEF Goto, PastBackground, PastFont, PastEffect
<1>a. /\ FontFile \in Files /\ ContinueFile \in Files
      /\ BarFile[NormalBar] \in Files /\ BarFile[CharBar] \in Files
      /\ EffectFile[SnowFall] \in Files
      /\ sceneInfo.background \in Files
  BY FilesAssumption, InfoParts DEF Inv, TypeOK
<1>b. {"background", "font", "bar", "continue", "effect"} \subseteq Slots
  BY SlotFacts DEF SceneSlots
<1>c. TypeOK /\ ImagesInv
  BY DEF Inv
<1>1. ASSUME NEW info \in SceneInfos, Scene_Init(info) PROVE ImagesInv'
  BY <1>1 DEF Scene_Init, ImagesInv
<1>2. CASE LoadBackground
  BY <1>2, <1>a, <1>b, <1>c, LoadParts DEF LoadBackground, ImagesInv
<1>3. CASE LoadFont
  BY <1>3, <1>a, <1>b, <1>c, LoadParts DEF LoadFont, ImagesInv
<1>4. CASE LoadBar
  BY <1>4, <1>a, <1>b, <1>c, LoadParts DEF LoadBar, ImagesInv
<1>5. CASE LoadContinue
  BY <1>5, <1>a, <1>b, <1>c, LoadParts DEF LoadContinue, ImagesInv
<1>6. CASE MallocEffect
  BY <1>6, <1>c DEF MallocEffect, ImagesInv
<1>7. CASE SkipEffect
  BY <1>7, <1>c DEF SkipEffect, ImagesInv
<1>8. CASE LoadEffect
  BY <1>8, <1>a, <1>b, <1>c, LoadParts DEF LoadEffect, ImagesInv
<1>9. CASE InitActor
  <2>1. /\ sceneInfo.actors[Len(actors) + 1] \in ActorInfo
        /\ Len(actors) < MAX_ACTORS
    BY <1>9, InfoParts, ScenesAssumption DEF InitActor, Inv, TypeOK
  <2> QED
    BY <1>9, <1>c, <2>1, ActorParts DEF InitActor, ImagesInv, SceneSlots
<1>10. CASE InitDone
  BY <1>10, <1>c DEF InitDone, ImagesInv
<1>11. ASSUME NEW a \in Added, Scene_AddActor(a) PROVE ImagesInv'
  <2>1. a \in ActorInfo
    BY ScenesAssumption
  <2> QED
    BY <1>11, <1>c, <2>1, ActorParts DEF Scene_AddActor, ImagesInv, SceneSlots
<1>12. CASE Frame
  BY <1>12, <1>c DEF Frame, ImagesInv
<1>13. CASE Scene_Destroy
  BY <1>13, <1>c DEF Scene_Destroy, ImagesInv
<1> QED
  BY <1>1, <1>2, <1>3, <1>4, <1>5, <1>6, <1>7, <1>8, <1>9, <1>10, <1>11,
     <1>12, <1>13 DEF SceneNext

(* The loads leave the heap blocks of scenes alone. *)
LEMMA LoadKeepsBlocks ==
  ASSUME LoadBackground \/ LoadFont \/ LoadBar \/ LoadContinue
  PROVE  /\ UNCHANGED <<sceneInfo, effectProperties, blocks, systems, leaked,
                        scenes>>
         /\ pc \in {"background", "font", "bar", "continue"}
         /\ pc' \in {"font", "bar", "continue", "malloc", "none"}
BY DEF LoadBackground, LoadFont, LoadBar, LoadContinue, Load, Goto

(* The block of the scene: malloc'd, filled, freed or given up. *)
LEMMA StepBlocks == ASSUME Inv, SceneNext PROVE BlockInv' /\ LeakInv'
<1> USE DEF Goto
<1>c. TypeOK /\ BlockInv /\ LeakInv
  BY DEF Inv
<1>1. ASSUME NEW info \in SceneInfos, Scene_Init(info)
      PROVE  BlockInv' /\ LeakInv'
  BY <1>1, <1>c DEF Scene_Init, BlockInv, LeakInv
<1>2. CASE LoadBackground \/ LoadFont \/ LoadBar \/ LoadContinue
  BY <1>2, <1>c, LoadKeepsBlocks DEF BlockInv, LeakInv
<1>6. CASE MallocEffect
  BY <1>6, <1>c DEF MallocEffect, BlockInv, LeakInv
<1>7. CASE SkipEffect
  BY <1>7, <1>c DEF SkipEffect, BlockInv, LeakInv
<1>8. CASE LoadEffect
  <2>1. pc' \in {"actors", "none"} /\ (pc' = "actors" <=> status' = Okay)
    <3>1. "effect" \in Slots /\ EffectFile[SnowFall] \in Files
      BY SlotFacts, FilesAssumption DEF SceneSlots
    <3> QED
      BY <1>8, <1>c, <3>1, LoadParts DEF LoadEffect
  <2> QED
    BY <1>8, <1>c, <2>1 DEF LoadEffect, BlockInv, LeakInv
<1>9. CASE InitActor \/ \E a \in Added : Scene_AddActor(a)
  <2>1. /\ UNCHANGED <<sceneInfo, effectProperties, blocks, systems, leaked,
                       scenes>>
        /\ pc' = pc
    BY <1>9 DEF InitActor, Scene_AddActor, Actor_Init, Load
  <2> QED
    BY <1>c, <2>1 DEF BlockInv, LeakInv
<1>10. CASE InitDone
  BY <1>10, <1>c DEF InitDone, BlockInv, LeakInv
<1>12. CASE Frame
  BY <1>12, <1>c DEF Frame, BlockInv, LeakInv
<1>13. CASE Scene_Destroy
  BY <1>13, <1>c DEF Scene_Destroy, FreeEffect, BlockInv, LeakInv
<1> QED
  BY <1>1, <1>2, <1>6, <1>7, <1>8, <1>9, <1>10, <1>12, <1>13 DEF SceneNext

-----------------------------------------------------------------------------

LEMMA SceneInv == SceneSpec => []Inv
<1>1. SceneInit => Inv
  <2> SUFFICES ASSUME SceneInit PROVE Inv
    OBVIOUS
  <2>1. TypeOK
    <3>1. /\ <<>> \in Seq(ActorInfo) /\ Len(<<>>) =< MAX_ACTORS
          /\ <<>> \in Seq(Slots) /\ 0 \in 0 .. MaxScenes
      BY ScenesAssumption
    <3> QED
      BY <3>1 DEF SceneInit, TypeOK
  <2> QED
    BY <2>1 DEF SceneInit, Inv, CountInv, ImagesInv, BlockInv, LeakInv,
                PastBackground, PastFont, PastEffect
<1>2. Inv /\ [SceneNext]_vars => Inv'
  <2> SUFFICES ASSUME Inv, [SceneNext]_vars PROVE Inv'
    OBVIOUS
  <2>1. CASE SceneNext
    BY <2>1, StepTypeOK, StepCount, StepImages, StepBlocks DEF Inv
  <2>2. CASE UNCHANGED vars
    BY <2>2 DEF vars, sceneVars, Inv, TypeOK, CountInv, ImagesInv, BlockInv,
                LeakInv
  <2> QED
    BY <2>1, <2>2
<1> QED
  BY <1>1, <1>2, PTL DEF SceneSpec

(* Every variable of Scene keeps its type, and a Scene never has more       *)
(* actors than room for them, if its callers keep to it (scene.c:64-73).    *)
THEOREM TypeCorrect == SceneSpec => []TypeOK
BY SceneInv, PTL DEF Inv

(* A scene Scene_Init answered Okay for has its background, its font and    *)
(* its effect, whatever failed in it or in scenes before (scene.c:13-53).   *)
THEOREM OkayMeansLoaded == SceneSpec => []OkaySceneHasItsImages
<1>1. Inv => OkaySceneHasItsImages
  BY DEF Inv, ImagesInv, PastBackground, PastFont, PastEffect,
         OkaySceneHasItsImages
<1> QED
  BY <1>1, SceneInv, PTL

(* The snow a scene with snow updates, draws and frees is its own block,    *)
(* not freed before, and filled (scene.c:42-52, 75-92, 158).                *)
THEOREM EffectIsOwned == SceneSpec => []EffectOwned
<1>1. Inv => EffectOwned
  BY DEF Inv, BlockInv, EffectOwned
<1> QED
  BY <1>1, SceneInv, PTL

(* No block is left between scenes but those Scene_Init gave up on          *)
(* (scene.c:49-50, 87-92).                                                  *)
THEOREM LeaksAreKnown == SceneSpec => []OnlyFailedInitsLeak
<1>1. Inv => OnlyFailedInitsLeak
  BY DEF Inv, LeakInv, OnlyFailedInitsLeak
<1> QED
  BY <1>1, SceneInv, PTL

(* A scene has what it says it has, and gives it back (scene.c:13-92).      *)
THEOREM ScenesWhole == SceneSpec => []ScenesAreWhole
BY TypeCorrect, OkayMeansLoaded, EffectIsOwned, LeaksAreKnown, PTL DEF ScenesAreWhole

-----------------------------------------------------------------------------
(* What a frame draws, and from which file.  Unless their own loads failed  *)
(* the bar, the continue icon and the actors are there once Scene_Init has  *)
(* passed them, and what the last frame drew is of this scene.              *)

PastContinue == {"malloc", "effect", "actors", "up", "undefined"}
PastBar == PastContinue \cup {"continue"}

BarInv ==
  /\ pc \in PastBar /\ sceneInfo.barType # NVLBar /\ "bar" \notin stale
       => holds["bar"] = BarFile[sceneInfo.barType]
  /\ pc \in PastContinue /\ sceneInfo.barType = CharBar /\ "continue" \notin stale
       => holds["continue"] = ContinueFile

(* The Image struct of an actor holds the pose of the last actor that was   *)
(* loaded into it.                                                          *)
Holds(n) ==
  \E m \in DOMAIN actors :
    ActorSlots[m] = ActorSlots[n] /\ holds[ActorSlots[n]] = actors[m]
ActorsInv ==
  \A n \in DOMAIN actors :
    actors[n] # Nobody /\ ActorSlots[n] \notin stale => Holds(n)

DrawnSlots ==
  {"font", "continue", "bar", "background"}
    \cup (IF sceneInfo.effect = SnowFall THEN {"effect"} ELSE {})
    \cup {ActorSlots[n] : n \in DOMAIN actors}
DrawnInv == \A k \in DOMAIN drawn : drawn[k] \in DrawnSlots

AskedInv == Inv /\ BarInv /\ ActorsInv /\ DrawnInv

(* A load that does not leave its struct stale answered Okay; it leaves all *)
(* other structs alone.                                                     *)
LEMMA LoadOutcome ==
  ASSUME TypeOK, NEW s \in Slots, NEW f \in Files, NEW okay, NEW failed,
         Load(s, f, okay, failed)
  PROVE  /\ pc' \in {okay, failed}
         /\ s \notin stale' => pc' = okay /\ holds'[s] = f
         /\ \A u \in Slots : u # s => holds'[u] = holds[u] /\ (u \in stale' <=> u \in stale)
BY DEF Load, Goto, TypeOK

(* A load of one of the Scene's own structs leaves those of the actors      *)
(* alone.                                                                   *)
LEMMA OwnLoad ==
  ASSUME Inv, ActorsInv, NEW s \in SceneSlots, NEW f \in Files, NEW okay,
         NEW failed, Load(s, f, okay, failed), actors' = actors
  PROVE  ActorsInv'
<1> SUFFICES ASSUME NEW n \in DOMAIN actors, actors[n] # Nobody, ActorSlots[n] \notin stale'
             PROVE  Holds(n)'
  BY DEF ActorsInv
<1>1. ActorSlots[n] \in Slots /\ ActorSlots[n] # s
  <2>1. n \in 1 .. MAX_ACTORS
    BY ScenesAssumption DEF Inv, TypeOK
  <2> QED BY <2>1, SlotFacts
<1>2. holds'[ActorSlots[n]] = holds[ActorSlots[n]] /\ ActorSlots[n] \notin stale
  <2>1. s \in Slots /\ TypeOK
    BY SlotFacts DEF Inv
  <2> QED BY <1>1, <2>1, LoadOutcome
<1>3. Holds(n)
  BY <1>2 DEF ActorsInv
<1> QED BY <1>2, <1>3, Zenon DEF Holds

(* Actor_Init adds one actor, and its image when it has one. *)
LEMMA ActorLoad ==
  ASSUME AskedInv, NEW a \in ActorInfo, Len(actors) < MAX_ACTORS, Actor_Init(a)
  PROVE  BarInv' /\ ActorsInv' /\ DrawnInv'
<1> DEFINE next == Len(actors) + 1
<1>1. /\ TypeOK /\ BarInv /\ ActorsInv /\ DrawnInv
      /\ actors \in Seq(ActorInfo) /\ holds \in [Slots -> Files \cup {Nothing}]
  BY DEF AskedInv, Inv, TypeOK
<1>2. next \in 1 .. MAX_ACTORS
  BY <1>1, ScenesAssumption DEF TypeOK
<1>3. ActorSlots[next] \in Slots /\ ActorSlots[next] \notin SceneSlots
  BY <1>2, SlotFacts
<1>4. /\ actors' = Append(actors, a) /\ pc' = pc
      /\ DOMAIN actors' = DOMAIN actors \cup {next} /\ next \notin DOMAIN actors
      /\ actors'[next] = a /\ \A n \in DOMAIN actors : actors'[n] = actors[n]
      /\ UNCHANGED <<sceneInfo, drawn>>
      /\ \A s \in SceneSlots : holds'[s] = holds[s]
  <2>1. actors' = Append(actors, a)
    BY DEF Actor_Init
  <2> QED BY <1>1, <2>1, ActorParts
<1>5. \A s \in SceneSlots : s \in stale' <=> s \in stale
  <2>1. UNCHANGED stale \/ \E f \in Files : Load(ActorSlots[next], f, pc, pc)
    BY DEF Actor_Init, ActorInfo
  <2> QED BY <1>1, <1>3, <2>1, SlotFacts, LoadOutcome
<1>6. BarInv'
  BY <1>1, <1>4, <1>5 DEF BarInv, SceneSlots
<1>7. DrawnInv'
  <2>1. DrawnSlots \subseteq DrawnSlots'
    BY <1>4, Zenon DEF DrawnSlots
  <2> QED BY <1>1, <1>4, <2>1 DEF DrawnInv
<1> HIDE DEF next
<1>8. CASE a # Nobody /\ Load(ActorSlots[next], a, pc, pc)
  <2> SUFFICES ASSUME NEW n \in DOMAIN actors', actors'[n] # Nobody, ActorSlots[n] \notin stale'
               PROVE  Holds(n)'
    BY <1>6, <1>7, Zenon DEF ActorsInv
  <2>1. /\ ActorSlots[next] \notin stale' => holds'[ActorSlots[next]] = a
        /\ \A s \in Slots : s # ActorSlots[next] =>
             holds'[s] = holds[s] /\ (s \in stale' <=> s \in stale)
    <3>1. a \in Files
      BY <1>8 DEF ActorInfo
    <3> QED BY <1>1, <1>3, <1>8, <3>1, LoadOutcome
  <2>2. CASE ActorSlots[n] = ActorSlots[next]
    <3>1. holds'[ActorSlots[n]] = actors'[next] /\ next \in DOMAIN actors'
      BY <1>4, <2>1, <2>2
    <3> QED BY <2>2, <3>1, Zenon DEF Holds
  <2>3. CASE ActorSlots[n] # ActorSlots[next]
    <3>1. n \in DOMAIN actors /\ actors[n] # Nobody
      BY <1>4, <2>3
    <3>2. ActorSlots[n] \in Slots
      BY <1>1, <3>1, SlotFacts, ScenesAssumption DEF TypeOK
    <3>3. holds'[ActorSlots[n]] = holds[ActorSlots[n]] /\ ActorSlots[n] \notin stale
      BY <2>1, <2>3, <3>2
    <3>4. Holds(n)
      BY <1>1, <3>1, <3>3 DEF ActorsInv
    <3> QED BY <1>4, <3>3, <3>4, Zenon DEF Holds
  <2> QED BY <2>2, <2>3
<1>9. CASE a = Nobody /\ UNCHANGED <<holds, stale>>
  <2> SUFFICES ASSUME NEW n \in DOMAIN actors', actors'[n] # Nobody, ActorSlots[n] \notin stale'
               PROVE  Holds(n)'
    BY <1>6, <1>7, Zenon DEF ActorsInv
  <2>1. n \in DOMAIN actors /\ actors[n] # Nobody
    BY <1>4, <1>9
  <2>2. Holds(n)
    BY <1>1, <1>9, <2>1 DEF ActorsInv
  <2> QED BY <1>4, <1>9, <2>2, Zenon DEF Holds
<1> QED
  BY <1>8, <1>9 DEF Actor_Init, next

LEMMA StepAsked == ASSUME AskedInv, SceneNext PROVE BarInv' /\ ActorsInv' /\ DrawnInv'
<1> USE DEF Goto, PastBar, PastContinue
<1>a. /\ FontFile \in Files /\ ContinueFile \in Files
      /\ BarFile[NormalBar] \in Files /\ BarFile[CharBar] \in Files
      /\ EffectFile[SnowFall] \in Files
      /\ sceneInfo.background \in Files
      /\ sceneInfo.barType \in {NormalBar, CharBar, NVLBar}
  BY FilesAssumption, InfoParts DEF AskedInv, Inv, TypeOK, BarType
<1>b. {"background", "font", "bar", "continue", "effect"} \subseteq Slots
  BY SlotFacts DEF SceneSlots
<1>c. Inv /\ TypeOK /\ BarInv /\ ActorsInv /\ DrawnInv
  BY DEF AskedInv, Inv
<1>d. holds \in [Slots -> Files \cup {Nothing}]
  BY <1>c DEF TypeOK
<1>e. ASSUME UNCHANGED <<actors, holds, stale>> PROVE ActorsInv'
  BY <1>c, <1>e, Zenon DEF ActorsInv, Holds
<1>f. ASSUME UNCHANGED <<drawn, actors, sceneInfo>> PROVE DrawnInv'
  BY <1>c, <1>f, Zenon DEF DrawnInv, DrawnSlots
<1>g. ASSUME UNCHANGED <<sceneInfo, holds, stale>>,
             pc' \in PastBar => pc \in PastContinue
      PROVE  BarInv'
  BY <1>c, <1>g DEF BarInv
<1>1. ASSUME NEW info \in SceneInfos, Scene_Init(info)
      PROVE  BarInv' /\ ActorsInv' /\ DrawnInv'
  <2>1. /\ actors' = <<>> /\ drawn' = <<>> /\ pc' = "background"
    BY <1>1 DEF Scene_Init
  <2>2. DOMAIN actors' = {} /\ DOMAIN drawn' = {}
    BY <2>1
  <2> QED
    BY <2>1, <2>2 DEF BarInv, ActorsInv, DrawnInv
<1>2. CASE LoadBackground
  <2>1. /\ Load("background", sceneInfo.background, "font", "none")
        /\ UNCHANGED <<drawn, actors, sceneInfo>>
    BY <1>2 DEF LoadBackground
  <2>2. ActorsInv'
    BY <1>a, <1>c, <2>1, OwnLoad DEF SceneSlots
  <2>3. BarInv'
    BY <2>1 DEF Load, BarInv
  <2> QED BY <1>f, <2>1, <2>2, <2>3
<1>3. CASE LoadFont
  <2>1. /\ Load("font", FontFile, "bar", "none")
        /\ UNCHANGED <<drawn, actors, sceneInfo>>
    BY <1>3 DEF LoadFont
  <2>2. ActorsInv'
    BY <1>a, <1>c, <2>1, OwnLoad DEF SceneSlots
  <2>3. BarInv'
    BY <2>1 DEF Load, BarInv
  <2> QED BY <1>f, <2>1, <2>2, <2>3
<1>4. CASE LoadBar
  <2>0. UNCHANGED <<drawn, actors, sceneInfo>>
    BY <1>4 DEF LoadBar
  <2>1. CASE /\ sceneInfo.barType = NormalBar
             /\ Load("bar", BarFile[NormalBar], "malloc", "malloc")
    <3>1. ActorsInv'
      BY <1>a, <1>c, <2>0, <2>1, OwnLoad DEF SceneSlots
    <3>2. "bar" \notin stale' => holds'["bar"] = BarFile[NormalBar]
      BY <1>a, <1>b, <1>c, <2>1, LoadOutcome
    <3>3. BarInv'
      BY <2>0, <2>1, <3>2 DEF BarInv, NormalBar, CharBar
    <3> QED BY <1>f, <2>0, <3>1, <3>3
  <2>2. CASE /\ sceneInfo.barType = CharBar
             /\ Load("bar", BarFile[CharBar], "continue", "continue")
    <3>1. ActorsInv'
      BY <1>a, <1>c, <2>0, <2>2, OwnLoad DEF SceneSlots
    <3>2. pc' = "continue" /\ ("bar" \notin stale' => holds'["bar"] = BarFile[CharBar])
      BY <1>a, <1>b, <1>c, <2>2, LoadOutcome
    <3>3. BarInv'
      BY <2>0, <2>2, <3>2 DEF BarInv
    <3> QED BY <1>f, <2>0, <3>1, <3>3
  <2>3. CASE /\ sceneInfo.barType \notin {NormalBar, CharBar}
             /\ pc' = "malloc" /\ UNCHANGED <<holds, stale>>
    <3>1. sceneInfo'.barType = NVLBar
      BY <1>a, <2>0, <2>3
    <3>2. BarInv'
      BY <3>1 DEF BarInv, NVLBar, CharBar
    <3> QED BY <1>e, <1>f, <2>0, <2>3, <3>2
  <2> QED
    BY <1>4, <2>1, <2>2, <2>3 DEF LoadBar
<1>5. CASE LoadContinue
  <2>1. /\ Load("continue", ContinueFile, "malloc", "malloc")
        /\ UNCHANGED <<drawn, actors, sceneInfo>> /\ pc = "continue"
    BY <1>5 DEF LoadContinue
  <2>2. ActorsInv'
    BY <1>a, <1>c, <2>1, OwnLoad DEF SceneSlots
  <2>3. /\ "continue" \notin stale' => holds'["continue"] = ContinueFile
        /\ holds'["bar"] = holds["bar"] /\ ("bar" \in stale' <=> "bar" \in stale)
    BY <1>a, <1>b, <1>c, <2>1, LoadOutcome
  <2>4. BarInv'
    BY <1>c, <2>1, <2>3 DEF BarInv
  <2> QED BY <1>f, <2>1, <2>2, <2>4
<1>6. CASE MallocEffect
  BY <1>6, <1>e, <1>f, <1>g DEF MallocEffect
<1>7. CASE SkipEffect
  BY <1>7, <1>e, <1>f, <1>g DEF SkipEffect
<1>8. CASE LoadEffect
  <2>1. /\ Load("effect", EffectFile[SnowFall], "actors", "none")
        /\ UNCHANGED <<drawn, actors, sceneInfo>> /\ pc = "effect"
    BY <1>8 DEF LoadEffect
  <2>2. ActorsInv'
    BY <1>a, <1>c, <2>1, OwnLoad DEF SceneSlots
  <2>3. \A u \in {"bar", "continue"} :
          holds'[u] = holds[u] /\ (u \in stale' <=> u \in stale)
    BY <1>a, <1>b, <1>c, <2>1, LoadOutcome
  <2>4. BarInv'
    BY <1>c, <2>1, <2>3 DEF BarInv
  <2> QED BY <1>f, <2>1, <2>2, <2>4
<1>9. CASE InitActor
  <2>1. /\ sceneInfo.actors[Len(actors) + 1] \in ActorInfo
        /\ Len(actors) < MAX_ACTORS
    BY <1>9, <1>c, InfoParts, ScenesAssumption DEF InitActor, TypeOK
  <2> QED
    BY <1>9, <2>1, ActorLoad DEF InitActor
<1>10. CASE InitDone
  BY <1>10, <1>e, <1>f, <1>g DEF InitDone
<1>11. ASSUME NEW a \in Added, Scene_AddActor(a)
       PROVE  BarInv' /\ ActorsInv' /\ DrawnInv'
  <2>1. a \in ActorInfo
    BY ScenesAssumption
  <2> QED
    BY <1>11, <2>1, ActorLoad DEF Scene_AddActor
<1>12. CASE Frame
  <2>1. /\ UNCHANGED <<pc, sceneInfo, actors, holds, stale>>
    BY <1>12 DEF Frame
  <2>2. drawn' = <<"font">> \o (IF textFinished' THEN <<"continue">> ELSE <<>>)
                   \o <<"bar">>
                   \o (IF sceneInfo.effect = SnowFall THEN <<"effect">> ELSE <<>>)
                   \o SubSeq(ActorSlots, 1, Len(actors)) \o <<"background">>
    BY <1>12 DEF Frame
  <2>3. drawn' \in Seq(DrawnSlots)
    <3>1. SubSeq(ActorSlots, 1, Len(actors)) \in Seq(DrawnSlots)
      <4>1. /\ ActorSlots \in Seq(Slots) /\ Len(ActorSlots) = MAX_ACTORS
            /\ Len(actors) \in 0 .. MAX_ACTORS
        BY <1>c, SlotsAssumption, ScenesAssumption DEF TypeOK
      <4>2. /\ Len(SubSeq(ActorSlots, 1, Len(actors))) = Len(actors)
            /\ SubSeq(ActorSlots, 1, Len(actors)) \in Seq(Slots)
            /\ \A n \in 1 .. Len(actors) :
                 SubSeq(ActorSlots, 1, Len(actors))[n] = ActorSlots[n]
        BY <4>1
      <4>3. DOMAIN actors = 1 .. Len(actors)
        BY <1>c DEF TypeOK
      <4>4. \A n \in 1 .. Len(actors) : ActorSlots[n] \in DrawnSlots
        BY <4>3 DEF DrawnSlots
      <4> QED BY <4>1, <4>2, <4>4
    <3>2. /\ {"font", "continue", "bar", "background"} \subseteq DrawnSlots
          /\ sceneInfo.effect = SnowFall => "effect" \in DrawnSlots
      BY DEF DrawnSlots
    <3>3. /\ <<"font">> \in Seq(DrawnSlots) /\ <<"bar">> \in Seq(DrawnSlots)
          /\ <<"background">> \in Seq(DrawnSlots)
          /\ (IF textFinished' THEN <<"continue">> ELSE <<>>) \in Seq(DrawnSlots)
          /\ (IF sceneInfo.effect = SnowFall THEN <<"effect">> ELSE <<>>)
               \in Seq(DrawnSlots)
      BY <3>2
    <3> QED
      BY <2>2, <3>1, <3>3
  <2>4. DrawnInv'
    <3>1. DrawnSlots' = DrawnSlots
      BY <2>1 DEF DrawnSlots
    <3> QED BY <2>3, <3>1 DEF DrawnInv
  <2>5. BarInv'
    BY <1>c, <2>1 DEF BarInv
  <2> QED
    BY <1>e, <2>1, <2>4, <2>5
<1>13. CASE Scene_Destroy
  BY <1>13, <1>e, <1>f, <1>g DEF Scene_Destroy
<1> QED
  BY <1>1, <1>2, <1>3, <1>4, <1>5, <1>6, <1>7, <1>8, <1>9, <1>10, <1>11,
     <1>12, <1>13 DEF SceneNext

(* What the frame drew is what the scene asked for, where it was loaded.    *)
LEMMA AskedImpliesDrawn == AskedInv => DrawnAsAsked
<1> SUFFICES ASSUME AskedInv, pc = "up", NEW k \in DOMAIN drawn,
                    drawn[k] \notin stale \ {"background", "font", "effect"},
                    Asked(drawn[k]) # {Nobody}
             PROVE  holds[drawn[k]] \in Asked(drawn[k])
  BY DEF DrawnAsAsked
<1>1. /\ TypeOK /\ ImagesInv /\ BarInv /\ ActorsInv /\ DrawnInv
      /\ drawn[k] \in DrawnSlots
  BY DEF AskedInv, Inv, DrawnInv
<1>2. CASE drawn[k] = "background"
  BY <1>1, <1>2 DEF Asked, ImagesInv, PastBackground
<1>3. CASE drawn[k] = "font"
  BY <1>1, <1>3 DEF Asked, ImagesInv, PastBackground, PastFont
<1>4. CASE drawn[k] = "bar"
  <2>1. holds["bar"] \in Files \cup {Nothing}
    BY <1>1, SlotFacts DEF TypeOK, SceneSlots
  <2> QED
    BY <1>1, <1>4, <2>1 DEF Asked, BarInv, PastBar, PastContinue
<1>5. CASE drawn[k] = "continue"
  <2>1. holds["continue"] \in Files \cup {Nothing}
    BY <1>1, SlotFacts DEF TypeOK, SceneSlots
  <2> QED
    BY <1>1, <1>5, <2>1 DEF Asked, BarInv, PastContinue
<1>6. CASE drawn[k] = "effect" /\ sceneInfo.effect = SnowFall
  BY <1>1, <1>6 DEF Asked, ImagesInv, PastEffect
<1>7. CASE \E n \in DOMAIN actors : drawn[k] = ActorSlots[n]
  <2>1. PICK n \in DOMAIN actors : drawn[k] = ActorSlots[n]
    BY <1>7
  <2> DEFINE there == {m \in DOMAIN actors : ActorSlots[m] = drawn[k]}
  <2>2. Asked(drawn[k]) = {actors[m] : m \in there}
    <3>1. n \in 1 .. MAX_ACTORS
      BY <1>1, ScenesAssumption DEF TypeOK
    <3>2. drawn[k] \notin SceneSlots
      BY <2>1, <3>1, SlotFacts
    <3> QED
      BY <3>2 DEF Asked, SceneSlots
  <2>3. PICK m \in there : actors[m] # Nobody
    BY <2>1, <2>2
  <2>4. Holds(m)
    <3>1. ActorSlots[m] \notin stale
      <4>1. n \in 1 .. MAX_ACTORS
        BY <1>1, ScenesAssumption DEF TypeOK
      <4>2. drawn[k] \notin SceneSlots
        BY <2>1, <4>1, SlotFacts
      <4> QED BY <2>3, <4>2 DEF SceneSlots
    <3> QED BY <1>1, <2>3, <3>1 DEF ActorsInv
  <2>5. PICK l \in DOMAIN actors :
          ActorSlots[l] = ActorSlots[m] /\ holds[ActorSlots[m]] = actors[l]
    BY <2>4 DEF Holds
  <2> QED
    BY <2>2, <2>3, <2>5
<1> QED
  BY <1>1, <1>2, <1>3, <1>4, <1>5, <1>6, <1>7 DEF DrawnSlots

(* Whatever loads fail in this scene and in those before it, a frame draws  *)
(* every image but those whose own load failed from the file its SceneInfo  *)
(* asks for, for every list of actors (scene.c:23-38, 108-170).             *)
THEOREM FramesAsAsked == SceneSpec => []DrawnAsAsked
<1>1. SceneInit => BarInv /\ ActorsInv /\ DrawnInv
  <2> SUFFICES ASSUME SceneInit PROVE BarInv /\ ActorsInv /\ DrawnInv
    OBVIOUS
  <2>1. DOMAIN actors = {} /\ DOMAIN drawn = {} /\ pc = "none"
    BY DEF SceneInit
  <2> QED
    BY <2>1 DEF BarInv, ActorsInv, DrawnInv, PastBar, PastContinue
<1>2. Inv /\ Inv' /\ BarInv /\ ActorsInv /\ DrawnInv /\ [SceneNext]_vars
        => (BarInv /\ ActorsInv /\ DrawnInv)'
  <2> SUFFICES ASSUME AskedInv, [SceneNext]_vars
               PROVE  (BarInv /\ ActorsInv /\ DrawnInv)'
    BY DEF AskedInv
  <2>1. CASE SceneNext
    BY <2>1, StepAsked
  <2>2. CASE UNCHANGED vars
    BY <2>2, Zenon DEF vars, sceneVars, AskedInv, BarInv, ActorsInv, Holds, DrawnInv,
                DrawnSlots
  <2> QED
    BY <2>1, <2>2
<1>3. Inv /\ BarInv /\ ActorsInv /\ DrawnInv => DrawnAsAsked
  BY AskedImpliesDrawn DEF AskedInv
<1> QED
  BY <1>1, <1>2, <1>3, SceneInv, PTL DEF SceneSpec

=============================================================================
