-------------------------------- MODULE Snow --------------------------------
(***************************************************************************)
(* One coordinate of one flake of the snow (effects.c), in the 20.12       *)
(* fixed-point numbers of fixed.h.  SnowSystem_Update treats every flake   *)
(* by itself, and x with the screen's width as y with its height, so one   *)
(* coordinate of either axis, with any start and velocity, stands for all. *)
(*                                                                         *)
(* A fixed is an int of 32 bits; the largest value here is under 2^21.     *)
(***************************************************************************)
EXTENDS Integers

CONSTANTS
  Axes,         \* [edge, size, starts, velocities] of each axis: the screen's
                \* extent, the prect of the sprite, and what rand() can give
  Rates         \* updates a second: 60 in NTSC, 50 in PAL

ASSUME AxesAssumption ==
  \A a \in Axes :
    /\ a.edge \in Nat \ {0} /\ a.size \in Nat \ {0}
    /\ a.starts \subseteq 0 .. a.edge - 1
    /\ a.velocities \subseteq 10 .. 49
ASSUME RatesAssumption == Rates \subseteq {50, 60}

One == 4096
itoF(n) == n * One
Ftoi(n) == n \div One

VARIABLES
  tickPerSecond,            \* set once, by Renderer_Init
  axis, position, velocity, \* of the flake
  ticks,    \* history: updates since the flake last wrapped, or began
  from      \* history: its position at that time

vars == <<tickPerSecond, axis, position, velocity, ticks, from>>

-----------------------------------------------------------------------------

(* 1/60 or 1/50 of One, as Renderer_Init has them. *)
syncReciprocal == IF tickPerSecond = 60 THEN 68 ELSE 82

(* Renderer_Init, and then SnowSystem_Init. *)
Init ==
  /\ tickPerSecond \in Rates
  /\ axis \in Axes
  /\ \E n \in axis.starts : position = itoF(n)
  /\ velocity \in axis.velocities
  /\ ticks = 0
  /\ from = position

(* Velocities are in pixels a second. *)
SyncToRefresh(v) == v * syncReciprocal

Moved == position + SyncToRefresh(velocity)

(* Past the far edge of the screen ... *)
PastEdge == Moved > itoF(axis.edge)

(* ... it comes back before the near one. *)
BeforeInside == itoF(0)   \* mutant: in view at once
Before == itoF(-axis.size)

SnowSystem_Update ==
  /\ position' = IF PastEdge THEN Before ELSE Moved
  /\ ticks' = IF PastEdge THEN 0 ELSE ticks + 1
  /\ from' = IF PastEdge THEN Before ELSE from
  /\ UNCHANGED <<tickPerSecond, axis, velocity>>

(* The main loop updates the scene every time round. *)
Spec == Init /\ [][SnowSystem_Update]_vars /\ WF_vars(SnowSystem_Update)

-----------------------------------------------------------------------------

(* What the variables hold: a flake is never further outside the screen     *)
(* than where it comes back, and never past the far edge.                   *)
Reach == itoF(-axis.size) .. itoF(axis.edge)
TypeOK ==
  /\ axis \in Axes /\ velocity \in axis.velocities
  /\ position \in Reach /\ from \in Reach
  /\ ticks \in Nat /\ tickPerSecond \in Rates

(* Renderer_DrawSnow draws a flake at most one pixel from where it drew it  *)
(* in the last frame, unless it wraps; and it wraps from the last column or *)
(* row of the screen to outside the first, not from the middle              *)
(* (effects.c:23-40).                                                       *)
FallsSmoothly ==
  [][ \/ Ftoi(position') - Ftoi(position) \in {0, 1}
      \/ Ftoi(position') < 0 /\ Ftoi(position) >= axis.edge - 1 ]_vars

(* "1/60 or 1/50 in 20.12 fixed point representation" (renderer.c:41): in a *)
(* second a flake drifts as many pixels as its velocity says, give or take  *)
(* one, in PAL as in NTSC: the rounding of the reciprocal does not add up   *)
(* to more (renderer.c:42, effects.c:23-24).                                *)
DriftsAtItsVelocity ==
  ticks = tickPerSecond =>
    position - from \in itoF(velocity - 1) .. itoF(velocity + 1)

(* The snow falls as fast as it should and never jumps (effects.c).         *)
SnowFalls == FallsSmoothly /\ []DriftsAtItsVelocity

(* A flake crosses the screen again and again: it is drawn in the first and *)
(* in the last column, or row, infinitely often (effects.c:19-33).          *)
SnowsForever ==
  []<>(Ftoi(position) = 0) /\ []<>(Ftoi(position) = axis.edge - 1)

=============================================================================
