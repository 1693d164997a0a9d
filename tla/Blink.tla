------------------------------- MODULE Blink -------------------------------
(***************************************************************************)
(* What the player sees of the continue icon, without saying how scene.c   *)
(* keeps time: hidden while the text is written, then dark; it brightens   *)
(* by one step a frame, stays at full brightness for Hold frames, dims by  *)
(* one step a frame until it is dark, and brightens again.                 *)
(***************************************************************************)
EXTENDS Integers

CONSTANTS
  Full,   \* the steps from dark to full brightness, at least 1
  Hold    \* the frames spent at full brightness, at least 1

Hidden == -1
Dark == 0

VARIABLES
  level,  \* the brightness of the icon in the last frame
  held,   \* the frames it has been at full brightness
  rising  \* it is not on its way down

blinkVars == <<level, held, rising>>

Init ==
  /\ level = Hidden
  /\ held = 0
  /\ rising = TRUE

Appear ==
  /\ level = Hidden
  /\ level' = Dark
  /\ UNCHANGED <<held, rising>>

Brighten ==
  /\ level \in Dark .. Full - 1 /\ rising
  /\ level' = level + 1
  /\ held' = IF level' = Full THEN 1 ELSE 0
  /\ UNCHANGED rising

Stay ==
  /\ level = Full /\ held < Hold
  /\ held' = held + 1
  /\ UNCHANGED <<level, rising>>

Dim ==
  /\ \/ level = Full /\ held = Hold
     \/ level \in Dark + 1 .. Full - 1 /\ ~rising
  /\ level' = level - 1
  /\ held' = 0
  /\ rising' = (level' = Dark)

Next == Appear \/ Brighten \/ Stay \/ Dim

Spec == Init /\ [][Next]_blinkVars

=============================================================================
