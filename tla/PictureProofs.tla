--------------------------- MODULE PictureProofs ---------------------------
(***************************************************************************)
(* Snow's invariants for any screen and sprite: a flake moves less than a  *)
(* pixel a frame because no velocity of effects.c times the reciprocal of  *)
(* renderer.c reaches One, and its distance since it last wrapped is the   *)
(* number of updates times that product.                                   *)
(*                                                                         *)
(* DrawImage's picture for any image at any place of VRAM: the loops       *)
(* advance from border to border (Column, Row) of the pages the image      *)
(* spans, and what is drawn at any time are the cells of the pages passed. *)
(*                                                                         *)
(* DrawText's glyphs for any text: the layout of a text is one (OneLayout) *)
(* and only grows along it (GlyphsAdded), so a frame that lays out more of *)
(* it begins with the glyphs of the frame before.                          *)
(*                                                                         *)
(* Frame's pictures for any table and any frames: while a frame is built   *)
(* every entry holds the glyph or slice it was fetched for, and the links  *)
(* pass them in the order they were drawn in (Built); while it is shown    *)
(* the GPU is at one of them and has painted those before it (Showing).    *)
(***************************************************************************)
EXTENDS Snow, DrawImage, DrawText, Frame, FiniteSetTheorems, SequenceTheorems,
        WellFoundedInduction, TLAPS

DistanceInv == position = from + ticks * SyncToRefresh(velocity)
Inv == TypeOK /\ DistanceInv

(* What an axis is, with the numbers the provers need. *)
LEMMA AxisParts ==
  ASSUME NEW a \in Axes
  PROVE  /\ a.edge \in Nat \ {0} /\ a.size \in Nat \ {0}
         /\ a.starts \subseteq 0 .. a.edge - 1
         /\ a.velocities \subseteq 10 .. 49
BY AxesAssumption

(* A flake moves, and by less than a pixel. *)
LEMMA LessThanAPixel ==
  ASSUME TypeOK
  PROVE  /\ position \in Int /\ SyncToRefresh(velocity) \in 1 .. One - 1
         /\ Moved = position + SyncToRefresh(velocity)
<1>1. velocity \in 10 .. 49
  BY AxisParts DEF TypeOK
<1>2. syncReciprocal \in {68, 82}
  BY DEF syncReciprocal
<1>3. position \in Int
  BY AxisParts DEF TypeOK, Reach, itoF, One
<1>4. CASE syncReciprocal = 68
  BY <1>1, <1>3, <1>4 DEF SyncToRefresh, One, Moved
<1>5. CASE syncReciprocal = 82
  BY <1>1, <1>3, <1>5 DEF SyncToRefresh, One, Moved
<1> QED
  BY <1>2, <1>4, <1>5

LEMMA StepInv == ASSUME Inv, SnowSystem_Update PROVE Inv'
<1> DEFINE step == SyncToRefresh(velocity)
<1>1. /\ position \in Int /\ step \in 1 .. One - 1 /\ Moved = position + step
      /\ axis.edge \in Nat /\ axis.size \in Nat /\ ticks \in Nat /\ from \in Int
  BY LessThanAPixel, AxisParts DEF Inv, TypeOK, Reach, itoF, One
<1>2. UNCHANGED <<tickPerSecond, axis, velocity>> /\ step' = step
  BY DEF SnowSystem_Update, SyncToRefresh, syncReciprocal
<1> HIDE DEF step
<1>3. CASE PastEdge
  <2>1. position' = Before /\ from' = Before /\ ticks' = 0
    BY <1>3 DEF SnowSystem_Update
  <2>2. Before \in Reach /\ Before \in Int
    BY <1>1 DEF Before, Reach, itoF, One
  <2>3. position' = from' + ticks' * step'
    BY <1>1, <1>2, <2>1, <2>2
  <2> QED
    BY <1>2, <2>1, <2>2, <2>3 DEF Inv, TypeOK, DistanceInv, Reach, step
<1>4. CASE ~PastEdge
  <2>1. position' = position + step /\ from' = from /\ ticks' = ticks + 1
    BY <1>1, <1>4 DEF SnowSystem_Update
  <2>2. position' \in Reach
    BY <1>1, <1>4, <2>1 DEF PastEdge, Reach, itoF, One, Inv, TypeOK
  <2>3. position = from + ticks * step
    BY DEF Inv, DistanceInv, step
  <2>4. position' = from' + ticks' * step'
    <3>1. (ticks + 1) * step = ticks * step + step
      BY <1>1
    <3>2. ticks * step \in Int
      BY <1>1
    <3> QED
      BY <1>1, <1>2, <2>1, <2>3, <3>1, <3>2
  <2> QED
    BY <1>1, <1>2, <2>1, <2>2, <2>4 DEF Inv, TypeOK, DistanceInv, Reach, step
<1> QED
  BY <1>3, <1>4

LEMMA SnowInv == Spec => []Inv
<1>1. Init => Inv
  <2> SUFFICES ASSUME Init PROVE Inv
    OBVIOUS
  <2>1. PICK n \in axis.starts : position = itoF(n)
    BY DEF Init
  <2>2. position \in Reach
    BY <2>1, AxisParts DEF Init, Reach, itoF, One
  <2>3. position \in Int
    BY <2>2, AxisParts DEF Init, Reach, itoF, One
  <2>4. TypeOK
    BY <2>2 DEF Init, TypeOK
  <2>5. DistanceInv
    BY <2>3, <2>4, LessThanAPixel DEF Init, DistanceInv
  <2> QED
    BY <2>4, <2>5 DEF Inv
<1>2. Inv /\ [SnowSystem_Update]_vars => Inv'
  <2> SUFFICES ASSUME Inv, [SnowSystem_Update]_vars PROVE Inv'
    OBVIOUS
  <2>1. CASE UNCHANGED vars
    BY <2>1 DEF vars, Inv, TypeOK, Reach, DistanceInv, SyncToRefresh,
                syncReciprocal
  <2> QED
    BY <2>1, StepInv
<1> QED
  BY <1>1, <1>2, PTL DEF Spec

-----------------------------------------------------------------------------

(* Every flake stays between where it comes back and the far edge           *)
(* (effects.c:26-30).                                                       *)
THEOREM TypeCorrect == Spec => []TypeOK
BY SnowInv, PTL DEF Inv

(* No flake jumps, on a screen of any size: it is drawn at most one pixel   *)
(* further on, or it wraps, from the last column or row to outside the      *)
(* first (effects.c:23-40).                                                 *)
THEOREM Smoothly == Spec => FallsSmoothly
<1>1. Inv /\ [SnowSystem_Update]_vars =>
        [ \/ Ftoi(position') - Ftoi(position) \in {0, 1}
          \/ Ftoi(position') < 0 /\ Ftoi(position) >= axis.edge - 1 ]_vars
  <2> SUFFICES ASSUME Inv, SnowSystem_Update
               PROVE  \/ Ftoi(position') - Ftoi(position) \in {0, 1}
                      \/ /\ Ftoi(position') < 0
                         /\ Ftoi(position) >= axis.edge - 1
    OBVIOUS
  <2> DEFINE step == SyncToRefresh(velocity)
  <2>1. /\ position \in Int /\ step \in 1 .. One - 1 /\ Moved = position + step
        /\ axis.edge \in Nat /\ axis.size \in Nat \ {0}
    BY LessThanAPixel, AxisParts DEF Inv, TypeOK
  <2> HIDE DEF step
  <2>2. CASE PastEdge
    <3>1. position' = itoF(-axis.size) /\ position + step > itoF(axis.edge)
      BY <2>1, <2>2 DEF SnowSystem_Update, Before, PastEdge
    <3>2. Ftoi(position') < 0
      BY <2>1, <3>1 DEF Ftoi, itoF, One
    <3>3. Ftoi(position) >= axis.edge - 1
      BY <2>1, <3>1, SMTT(30) DEF Ftoi, itoF, One
    <3> QED
      BY <3>2, <3>3
  <2>3. CASE ~PastEdge
    <3>1. position' = position + step
      BY <2>1, <2>3 DEF SnowSystem_Update
    <3> QED
      BY <2>1, <3>1 DEF Ftoi, One
  <2> QED
    BY <2>2, <2>3
<1> QED
  BY <1>1, SnowInv, PTL DEF Spec, FallsSmoothly

(* The rounding of the reciprocal costs no flake a pixel in a second, at    *)
(* either rate (renderer.c:41-42, effects.c:23-24).                         *)
THEOREM Drifts == Spec => []DriftsAtItsVelocity
<1>1. Inv => DriftsAtItsVelocity
  <2> SUFFICES ASSUME Inv, ticks = tickPerSecond
               PROVE  position - from \in itoF(velocity - 1) .. itoF(velocity + 1)
    BY DEF DriftsAtItsVelocity
  <2>1. velocity \in 10 .. 49 /\ position \in Int /\ from \in Int
    BY AxisParts DEF Inv, TypeOK, Reach, itoF, One
  <2>2. CASE tickPerSecond = 60
    <3>1. position = from + 60 * (velocity * 68)
      BY <2>2 DEF Inv, DistanceInv, SyncToRefresh, syncReciprocal
    <3> QED
      BY <2>1, <3>1 DEF itoF, One
  <2>3. CASE tickPerSecond = 50
    <3>1. position = from + 50 * (velocity * 82)
      BY <2>3 DEF Inv, DistanceInv, SyncToRefresh, syncReciprocal
    <3> QED
      BY <2>1, <3>1 DEF itoF, One
  <2> QED
    BY <2>2, <2>3, RatesAssumption DEF Inv, TypeOK
<1> QED
  BY <1>1, SnowInv, PTL

(* Both of a flake's promises (effects.c:23-40, renderer.c:41-42).          *)
THEOREM Falls == Spec => SnowFalls
BY Smoothly, Drifts, PTL DEF SnowFalls

-----------------------------------------------------------------------------
(* The width of a page in words in each mode; 256 is its height as well.    *)
PageWidths == {64, 128, 256}

(* An extent of w from x on meets so many pages of length W, and its parts  *)
(* on them begin at these borders.                                          *)
Spans(x, w, W) == (x + w - 1) \div W - x \div W + 1
Border(x, w, W, k) ==
  IF k = 0 THEN x ELSE IF k = Spans(x, w, W) THEN x + w ELSE W * (x \div W + k)

LEMMA Pages ==
  ASSUME NEW W \in PageWidths, NEW n \in Nat
  PROVE  /\ n \div W \in Nat /\ n % W \in 0 .. W - 1
         /\ n = W * (n \div W) + (n % W)
<1>1. CASE W = 64
  BY <1>1, SMT
<1>2. CASE W = 128
  BY <1>2, SMT
<1>3. CASE W = 256
  BY <1>3, SMT
<1> QED BY <1>1, <1>2, <1>3 DEF PageWidths

LEMMA PagesAt ==
  ASSUME NEW W \in PageWidths, NEW k \in Nat
  PROVE  /\ W * k \in Nat /\ (W * k) % W = 0 /\ (W * k) \div W = k /\ k * W = W * k
<1>1. CASE W = 64
  BY <1>1, SMT
<1>2. CASE W = 128
  BY <1>2, SMT
<1>3. CASE W = 256
  BY <1>3, SMT
<1> QED BY <1>1, <1>2, <1>3 DEF PageWidths

LEMMA BordersOf ==
  ASSUME NEW x \in Nat, NEW w \in Nat \ {0}, NEW W \in PageWidths,
         NEW k \in 0 .. Spans(x, w, W) - 1
  PROVE  LET b == Border(x, w, W, k)
             c == Border(x, w, W, k + 1)
         IN  /\ b \in Nat /\ c \in Nat /\ x =< b /\ b < c /\ c =< x + w
             /\ (b % W) + (c - b) =< W
             /\ Least(W - (b % W), x + w - b) = c - b
<1> DEFINE p == x \div W
           r == x % W
           q == (x + w - 1) \div W
           t == (x + w - 1) % W
           b == Border(x, w, W, k)
           c == Border(x, w, W, k + 1)
<1>1. /\ p \in Nat /\ r \in 0 .. W - 1 /\ x = W * p + r
      /\ q \in Nat /\ t \in 0 .. W - 1 /\ x + w - 1 = W * q + t
  <2>1. x + w - 1 \in Nat
    BY SMT
  <2> QED BY <2>1, Pages, Zenon
<1>2. Spans(x, w, W) = q - p + 1
  BY DEF Spans
<1>3. /\ b = IF k = 0 THEN x ELSE W * (p + k)
      /\ c = IF k + 1 = q - p + 1 THEN x + w ELSE W * (p + (k + 1))
      /\ k \in Nat /\ p + k \in Nat /\ p + k =< q
  BY <1>1, <1>2, SMT DEF Border
<1>4. b % W = IF k = 0 THEN r ELSE 0
  BY <1>3, PagesAt
<1> HIDE DEF p, r, q, t, b, c
<1>5. /\ b \in Nat /\ c \in Nat /\ x =< b /\ b < c /\ c =< x + w
      /\ IF c = x + w THEN c - b =< W - (b % W) ELSE c - b = W - (b % W) /\ c =< x + w
  <2>1. CASE W = 64
    BY <1>1, <1>3, <1>4, <2>1, SMT
  <2>2. CASE W = 128
    BY <1>1, <1>3, <1>4, <2>2, SMT
  <2>3. CASE W = 256
    BY <1>1, <1>3, <1>4, <2>3, SMT
  <2> QED BY <2>1, <2>2, <2>3 DEF PageWidths
<1>6. b % W \in Nat /\ W \in Nat
  BY <1>4, <1>1, SMT DEF PageWidths
<1>7. Least(W - (b % W), x + w - b) = c - b
  BY <1>5, <1>6, SMT DEF Least
<1> QED BY <1>5, <1>6, <1>7, SMT DEF b, c

LEMMA BordersGrow ==
  ASSUME NEW x \in Nat, NEW w \in Nat \ {0}, NEW W \in PageWidths,
         NEW k \in 0 .. Spans(x, w, W), NEW l \in 0 .. Spans(x, w, W), k < l
  PROVE  /\ Border(x, w, W, k) < Border(x, w, W, l)
         /\ Border(x, w, W, k + 1) =< Border(x, w, W, l)
<1>1. CASE W = 64
  BY <1>1, SMT DEF Spans, Border
<1>2. CASE W = 128
  BY <1>2, SMT DEF Spans, Border
<1>3. CASE W = 256
  BY <1>3, SMT DEF Spans, Border
<1> QED BY <1>1, <1>2, <1>3 DEF PageWidths

LEMMA BordersEnd ==
  ASSUME NEW x \in Nat, NEW w \in Nat \ {0}, NEW W \in PageWidths
  PROVE  /\ Spans(x, w, W) \in Nat \ {0}
         /\ Border(x, w, W, 0) = x /\ Border(x, w, W, Spans(x, w, W)) = x + w
<1>1. CASE W = 64
  BY <1>1, SMT DEF Spans, Border
<1>2. CASE W = 128
  BY <1>2, SMT DEF Spans, Border
<1>3. CASE W = 256
  BY <1>3, SMT DEF Spans, Border
<1> QED BY <1>1, <1>2, <1>3 DEF PageWidths

LEMMA BordersStart ==
  ASSUME NEW x, NEW w, NEW W PROVE Border(x, w, W, 0) = x
BY DEF Border

(* The first column of slice k of a row, and the first row of the slices of *)
(* row k of pages.                                                          *)
Wide == WordPerTPage(image.mode)
Pixels == PixelPerWord(image.mode)
Column(k) == Border(image.x, image.w, Wide, k)
Row(k) == Border(image.y, image.h, 256, k)

(* The slice on page a, b of those the image spans, and the ones drawn.     *)
Cell(a, b) ==
  [x |-> pos[1] + (Column(a) - image.x) * Pixels,
   y |-> pos[2] + (Row(b) - image.y),
   w |-> (Column(a + 1) - Column(a)) * Pixels, h |-> Row(b + 1) - Row(b),
   u |-> (Column(a) % Wide) * Pixels, v |-> Row(b) % 256,
   tPageX |-> PageX(image.mode, Column(a)) * Wide, tPageY |-> PageY(Row(b)) * 256]

Cells == (0 .. TPageCountX - 1) \X (0 .. TPageCountY - 1)
Done(c) == c[2] < j \/ (c[2] = j /\ c[1] < i)
DoneCells == {c \in Cells : Done(c)}

(* The loops: where the next slice goes, and what has been drawn.           *)
LoopsInv ==
  /\ image \in Images /\ pos \in Positions /\ free \in Nat
  /\ result \in {"none", "drawn", "full"}
  /\ j \in 0 .. TPageCountY /\ i \in 0 .. TPageCountX
  /\ j = TPageCountY => i = 0
  /\ result = "drawn" => j = TPageCountY
  /\ currentVramX = Column(i) /\ remainingWidth = image.x + image.w - Column(i)
  /\ drawX = pos[1] + (Column(i) - image.x) * Pixels
  /\ currentVramY = Row(j) /\ remainingHeight = image.y + image.h - Row(j)
  /\ drawY = pos[2] + (Row(j) - image.y)

SlicesInv ==
  /\ slices = {Cell(c[1], c[2]) : c \in DoneCells}
  /\ IsFiniteSet(slices) /\ Cardinality(slices) = j * TPageCountX + i

DrawInv == LoopsInv /\ SlicesInv

LEMMA ImageFacts ==
  ASSUME image \in Images, pos \in Positions
  PROVE  /\ Wide \in PageWidths /\ Pixels \in {1, 2, 4} /\ Wide * Pixels = 256
         /\ image.x \in Nat /\ image.w \in Nat \ {0}
         /\ image.y \in Nat /\ image.h \in Nat \ {0}
         /\ pos[1] \in Int /\ pos[2] \in Int
         /\ TPageCountX = Spans(image.x, image.w, Wide)
         /\ TPageCountY = Spans(image.y, image.h, 256)
         /\ TPageCountX \in Nat \ {0} /\ TPageCountY \in Nat \ {0}
<1>1. /\ image \in [mode : Mode, x : Nat, y : Nat, w : Nat \ {0}, h : Nat \ {0}]
      /\ pos \in Int \X Int
  BY ImagesAssumption
<1>2. Wide \in PageWidths /\ Pixels \in {1, 2, 4} /\ Wide * Pixels = 256
  BY <1>1, SMT DEF PageWidths, Wide, Pixels, WordPerTPage, PixelPerWord, Mode
<1>3. /\ TPageCountX = Spans(image.x, image.w, Wide)
      /\ TPageCountY = Spans(image.y, image.h, 256)
  BY DEF TPageCountX, TPageCountY, Spans, PageX, PageY, Wide
<1>0. /\ image.x \in Nat /\ image.w \in Nat \ {0}
      /\ image.y \in Nat /\ image.h \in Nat \ {0}
  BY <1>1, SMT
<1>4. TPageCountX \in Nat \ {0}
  BY <1>0, <1>2, <1>3, BordersEnd, ZenonT(60)
<1>5. TPageCountY \in Nat \ {0}
  <2>1. 256 \in PageWidths
    BY DEF PageWidths
  <2> QED BY <1>0, <1>3, <2>1, BordersEnd, ZenonT(60)
<1> QED BY <1>1, <1>2, <1>3, <1>4, <1>5

LEMMA ColumnFacts ==
  ASSUME image \in Images, pos \in Positions,
         NEW k \in 0 .. TPageCountX - 1
  PROVE  /\ Column(k) \in Nat /\ Column(k + 1) \in Nat
         /\ image.x =< Column(k) /\ Column(k) < Column(k + 1)
         /\ Column(k + 1) =< image.x + image.w
         /\ (Column(k) % Wide) + (Column(k + 1) - Column(k)) =< Wide
         /\ Least(Wide - (Column(k) % Wide), image.x + image.w - Column(k))
              = Column(k + 1) - Column(k)
         /\ Column(k) % Wide \in Nat /\ Column(k) \div Wide \in Nat
         /\ Wide * (Column(k) \div Wide) + (Column(k) % Wide) = Column(k)
<1>1. k \in 0 .. Spans(image.x, image.w, Wide) - 1
  BY ImageFacts
<1>0. /\ image.x \in Nat /\ image.w \in Nat \ {0} /\ Wide \in PageWidths
  BY ImageFacts
<1>2. LET b == Border(image.x, image.w, Wide, k)
          c == Border(image.x, image.w, Wide, k + 1)
      IN  /\ b \in Nat /\ c \in Nat /\ image.x =< b /\ b < c
          /\ c =< image.x + image.w
          /\ (b % Wide) + (c - b) =< Wide
          /\ Least(Wide - (b % Wide), image.x + image.w - b) = c - b
  BY <1>0, <1>1, BordersOf, Zenon
<1>4. Column(k) \in Nat
  BY <1>2 DEF Column
<1>3. /\ Column(k) \div Wide \in Nat /\ Column(k) % Wide \in 0 .. Wide - 1
      /\ Column(k) = Wide * (Column(k) \div Wide) + (Column(k) % Wide)
  BY <1>0, <1>4, Pages, Zenon
<1> QED BY <1>2, <1>3 DEF Column

LEMMA RowFacts ==
  ASSUME image \in Images, pos \in Positions,
         NEW k \in 0 .. TPageCountY - 1
  PROVE  /\ Row(k) \in Nat /\ Row(k + 1) \in Nat
         /\ image.y =< Row(k) /\ Row(k) < Row(k + 1)
         /\ Row(k + 1) =< image.y + image.h
         /\ (Row(k) % 256) + (Row(k + 1) - Row(k)) =< 256
         /\ Least(256 - (Row(k) % 256), image.y + image.h - Row(k)) = Row(k + 1) - Row(k)
         /\ Row(k) % 256 \in Nat /\ Row(k) \div 256 \in Nat
         /\ 256 * (Row(k) \div 256) + (Row(k) % 256) = Row(k)
<1>1. k \in 0 .. Spans(image.y, image.h, 256) - 1
  BY ImageFacts
<1>0. /\ image.y \in Nat /\ image.h \in Nat \ {0} /\ 256 \in PageWidths
  BY ImageFacts DEF PageWidths
<1>2. LET b == Border(image.y, image.h, 256, k)
          c == Border(image.y, image.h, 256, k + 1)
      IN  /\ b \in Nat /\ c \in Nat /\ image.y =< b /\ b < c
          /\ c =< image.y + image.h
          /\ (b % 256) + (c - b) =< 256
          /\ Least(256 - (b % 256), image.y + image.h - b) = c - b
  BY <1>0, <1>1, BordersOf, SMT
<1>4. Row(k) \in Nat
  BY <1>2 DEF Row
<1>3. /\ Row(k) \div 256 \in Nat /\ Row(k) % 256 \in 0 .. 256 - 1
      /\ 256 * (Row(k) \div 256) + (Row(k) % 256) = Row(k)
  BY <1>4, SMT
<1>5. Row(k) % 256 \in Nat
  BY <1>3, SMT
<1>6. /\ Row(k + 1) \in Nat /\ image.y =< Row(k) /\ Row(k) < Row(k + 1)
      /\ Row(k + 1) =< image.y + image.h
      /\ (Row(k) % 256) + (Row(k + 1) - Row(k)) =< 256
      /\ Least(256 - (Row(k) % 256), image.y + image.h - Row(k)) = Row(k + 1) - Row(k)
  BY <1>2, Zenon DEF Row
<1> QED BY <1>3, <1>4, <1>5, <1>6, Zenon

LEMMA CellFacts ==
  ASSUME image \in Images, pos \in Positions,
         NEW a \in 0 .. TPageCountX - 1, NEW b \in 0 .. TPageCountY - 1
  PROVE  LET s == Cell(a, b)
         IN  /\ s \in SliceType
             /\ s.w > 0 /\ s.u + s.w =< 256 /\ s.h > 0 /\ s.v + s.h =< 256
             /\ (s.tPageX - image.x) * PixelPerWord(image.mode) + s.u = s.x - pos[1]
             /\ s.tPageY + s.v - image.y = s.y - pos[2]
             /\ pos[1] =< s.x /\ s.x + s.w =< Right
             /\ pos[2] =< s.y /\ s.y + s.h =< Bottom
<1> DEFINE s == Cell(a, b)
           c == Column(a)
           d == Column(a + 1)
           m == c % Wide
           n == c \div Wide
           e == Row(b)
           f == Row(b + 1)
           o == e % 256
           q == e \div 256
<1>1. /\ c \in Nat /\ d \in Nat /\ image.x =< c /\ c < d /\ d =< image.x + image.w
      /\ m + (d - c) =< Wide /\ m \in Nat /\ n \in Nat /\ Wide * n + m = c
  BY ColumnFacts, ZenonT(60)
<1>2. /\ e \in Nat /\ f \in Nat /\ image.y =< e /\ e < f /\ f =< image.y + image.h
      /\ o + (f - e) =< 256 /\ o \in Nat /\ q \in Nat /\ 256 * q + o = e
  BY RowFacts, SMT
<1>3. /\ s.x = pos[1] + (c - image.x) * Pixels /\ s.y = pos[2] + (e - image.y)
      /\ s.w = (d - c) * Pixels /\ s.h = f - e /\ s.u = m * Pixels /\ s.v = o
      /\ s.tPageX = n * Wide /\ s.tPageY = q * 256
      /\ s = [x |-> s.x, y |-> s.y, w |-> s.w, h |-> s.h, u |-> s.u, v |-> s.v,
              tPageX |-> s.tPageX, tPageY |-> s.tPageY]
  BY Zenon DEF Cell, PageX, PageY, Wide
<1>4. /\ Pixels = PixelPerWord(image.mode)
      /\ Right = pos[1] + image.w * Pixels /\ Bottom = pos[2] + image.h
  BY Zenon DEF Pixels, Right, Bottom
<1>5. /\ Wide \in {64, 128, 256} /\ Pixels \in {1, 2, 4} /\ Wide * Pixels = 256
      /\ image.x \in Nat /\ image.w \in Nat /\ image.y \in Nat /\ image.h \in Nat
      /\ pos[1] \in Int /\ pos[2] \in Int
  BY ImageFacts DEF PageWidths
<1> HIDE DEF s, c, d, m, n, e, f, o, q
<1> DEFINE ix == image.x
           iw == image.w
           iy == image.y
           ih == image.h
           px == pos[1]
           py == pos[2]
<1>6. /\ s.x \in Int /\ s.y \in Int /\ s.w \in Nat /\ s.h \in Nat
      /\ s.u \in Nat /\ s.v \in Nat /\ s.tPageX \in Nat /\ s.tPageY \in Nat
      /\ s.w > 0 /\ s.u + s.w =< 256 /\ s.h > 0 /\ s.v + s.h =< 256
      /\ (s.tPageX - ix) * Pixels + s.u = s.x - px
      /\ s.tPageY + s.v - iy = s.y - py
      /\ px =< s.x /\ s.x + s.w =< px + iw * Pixels
      /\ py =< s.y /\ s.y + s.h =< py + ih
  <2>0. /\ \/ Wide = 64 /\ Pixels = 4
           \/ Wide = 128 /\ Pixels = 2
           \/ Wide = 256 /\ Pixels = 1
        /\ ix \in Nat /\ iw \in Nat /\ iy \in Nat /\ ih \in Nat
        /\ px \in Int /\ py \in Int
        /\ ix =< c /\ d =< ix + iw /\ iy =< e /\ f =< iy + ih
        /\ s.x = px + (c - ix) * Pixels /\ s.y = py + (e - iy)
    <3>1. \/ Wide = 64 /\ Pixels = 4
          \/ Wide = 128 /\ Pixels = 2
          \/ Wide = 256 /\ Pixels = 1
      BY <1>5, SMT
    <3> QED BY <3>1, <1>1, <1>2, <1>3, <1>5, Zenon
  <2> HIDE DEF ix, iw, iy, ih, px, py
  <2>1. CASE Wide = 64 /\ Pixels = 4
    BY <1>1, <1>2, <1>3, <2>0, <2>1, SMT
  <2>2. CASE Wide = 128 /\ Pixels = 2
    BY <1>1, <1>2, <1>3, <2>0, <2>2, SMT
  <2>3. CASE Wide = 256 /\ Pixels = 1
    BY <1>1, <1>2, <1>3, <2>0, <2>3, SMT
  <2> QED BY <2>0, <2>1, <2>2, <2>3
<1>7. s \in SliceType
  BY <1>3, <1>6, SMT DEF SliceType
<1> QED BY <1>4, <1>6, <1>7, Zenon DEF s

LEMMA CellsApart ==
  ASSUME image \in Images, pos \in Positions,
         NEW a \in 0 .. TPageCountX - 1, NEW b \in 0 .. TPageCountY - 1,
         NEW k \in 0 .. TPageCountX - 1, NEW l \in 0 .. TPageCountY - 1,
         a # k \/ b # l
  PROVE  LET s == Cell(a, b)
             t == Cell(k, l)
         IN  \/ s.x + s.w =< t.x \/ t.x + t.w =< s.x
             \/ s.y + s.h =< t.y \/ t.y + t.h =< s.y
<1>1. /\ image.x \in Nat /\ image.w \in Nat \ {0} /\ Wide \in PageWidths
      /\ image.y \in Nat /\ image.h \in Nat \ {0} /\ 256 \in PageWidths
      /\ pos[1] \in Int /\ pos[2] \in Int /\ Pixels \in {1, 2, 4}
      /\ TPageCountX \in Nat /\ TPageCountY \in Nat
      /\ TPageCountX = Spans(image.x, image.w, Wide)
      /\ TPageCountY = Spans(image.y, image.h, 256)
  BY ImageFacts DEF PageWidths
<1>2. /\ Column(a) \in Nat /\ Column(a + 1) \in Nat
      /\ Column(k) \in Nat /\ Column(k + 1) \in Nat
  BY ColumnFacts, ZenonT(60)
<1>3. /\ Row(b) \in Nat /\ Row(b + 1) \in Nat /\ Row(l) \in Nat /\ Row(l + 1) \in Nat
  BY RowFacts, ZenonT(60)
<1>4. ASSUME NEW m \in 0 .. TPageCountX - 1, NEW n \in 0 .. TPageCountX - 1, m < n
      PROVE  Column(m + 1) =< Column(n)
  <2>1. /\ m \in 0 .. Spans(image.x, image.w, Wide)
        /\ n \in 0 .. Spans(image.x, image.w, Wide)
    BY <1>1
  <2> QED BY <1>1, <1>4, <2>1, BordersGrow, Zenon DEF Column
<1>5. ASSUME NEW m \in 0 .. TPageCountY - 1, NEW n \in 0 .. TPageCountY - 1, m < n
      PROVE  Row(m + 1) =< Row(n)
  <2>1. /\ m \in 0 .. Spans(image.y, image.h, 256)
        /\ n \in 0 .. Spans(image.y, image.h, 256)
    BY <1>1
  <2> QED BY <1>1, <1>5, <2>1, BordersGrow, SMT DEF Row
<1>6. \/ Column(a + 1) =< Column(k) \/ Column(k + 1) =< Column(a)
      \/ Row(b + 1) =< Row(l) \/ Row(l + 1) =< Row(b)
  <2>1. a < k \/ k < a \/ b < l \/ l < b
    BY <1>1, SMT
  <2> QED BY <2>1, <1>4, <1>5
<1> DEFINE s == Cell(a, b)
           t == Cell(k, l)
           ix == image.x
           iy == image.y
           px == pos[1]
           py == pos[2]
           c == Column(a)
           d == Column(a + 1)
           e == Column(k)
           f == Column(k + 1)
           m == Row(b)
           n == Row(b + 1)
           o == Row(l)
           q == Row(l + 1)
<1>7. /\ s.x = px + (c - ix) * Pixels /\ s.w = (d - c) * Pixels
      /\ t.x = px + (e - ix) * Pixels /\ t.w = (f - e) * Pixels
      /\ s.y = py + (m - iy) /\ s.h = n - m
      /\ t.y = py + (o - iy) /\ t.h = q - o
  BY Zenon DEF Cell
<1>8. /\ ix \in Nat /\ iy \in Nat /\ px \in Int /\ py \in Int
       /\ c \in Nat /\ d \in Nat /\ e \in Nat /\ f \in Nat
       /\ m \in Nat /\ n \in Nat /\ o \in Nat /\ q \in Nat
       /\ (d =< e \/ f =< c \/ n =< o \/ q =< m)
  BY <1>1, <1>2, <1>3, <1>6, Zenon
<1> HIDE DEF s, t, ix, iy, px, py, c, d, e, f, m, n, o, q
<1>9. \/ s.x + s.w =< t.x \/ t.x + t.w =< s.x
      \/ s.y + s.h =< t.y \/ t.y + t.h =< s.y
  <2>1. CASE Pixels = 1
    BY <1>7, <1>8, <2>1, SMT
  <2>2. CASE Pixels = 2
    BY <1>7, <1>8, <2>2, SMT
  <2>3. CASE Pixels = 4
    BY <1>7, <1>8, <2>3, SMT
  <2> QED BY <1>1, <2>1, <2>2, <2>3
<1> QED BY <1>9, Zenon DEF s, t

(* What the drawing invariant says of the picture.                          *)
LEMMA DrawInvGivesPicture == DrawInv => ImageIsDrawn
<1> SUFFICES ASSUME DrawInv PROVE ImageIsDrawn
  OBVIOUS
<1>1. image \in Images /\ pos \in Positions
  BY DEF DrawInv, LoopsInv
<1>2. /\ TPageCountX \in Nat \ {0} /\ TPageCountY \in Nat \ {0}
      /\ image.x \in Nat /\ image.w \in Nat /\ image.y \in Nat /\ image.h \in Nat
      /\ pos[1] \in Int /\ pos[2] \in Int /\ Pixels \in Nat
      /\ image.w \in Nat \ {0} /\ image.h \in Nat \ {0}
      /\ TPageCountX = Spans(image.x, image.w, Wide)
      /\ TPageCountY = Spans(image.y, image.h, 256)
      /\ Wide \in PageWidths /\ 256 \in PageWidths
  BY <1>1, ImageFacts DEF PageWidths
<1>3. ASSUME NEW s \in slices
      PROVE  \E a \in 0 .. TPageCountX - 1, b \in 0 .. TPageCountY - 1 : s = Cell(a, b)
  BY <1>3, Zenon DEF DrawInv, SlicesInv, DoneCells, Cells
<1>4. /\ Column(0) = image.x /\ Column(TPageCountX) = image.x + image.w
      /\ Row(0) = image.y /\ Row(TPageCountY) = image.y + image.h
  <2>1. Column(0) = image.x /\ Column(TPageCountX) = image.x + image.w
    BY <1>2, BordersEnd, Zenon DEF Column
  <2>2. Row(0) = image.y /\ Row(TPageCountY) = image.y + image.h
    <3>1. ASSUME NEW W \in PageWidths, W = 256
          PROVE  /\ Border(image.y, image.h, W, 0) = image.y
                 /\ Border(image.y, image.h, W, Spans(image.y, image.h, W))
                      = image.y + image.h
      BY <1>2, BordersEnd, Zenon
    <3>2. /\ Border(image.y, image.h, 256, 0) = image.y
          /\ Border(image.y, image.h, 256, Spans(image.y, image.h, 256))
               = image.y + image.h
      BY <1>2, <3>1, SMT
    <3> QED BY <1>2, <3>2 DEF Row
  <2> QED BY <2>1, <2>2
<1>5. DrawTypeOK
  <2>1. slices \subseteq SliceType
    BY <1>1, <1>3, CellFacts
  <2>2. i \in 0 .. TPageCountX /\ j \in 0 .. TPageCountY /\ free \in Nat
    BY DEF DrawInv, LoopsInv
  <2>3. Column(i) \in Nat /\ image.x =< Column(i) /\ Column(i) =< image.x + image.w
    <3>1. CASE i = TPageCountX
      BY <1>2, <1>4, <3>1
    <3>2. CASE i \in 0 .. TPageCountX - 1
      BY <1>1, <1>2, <3>2, ColumnFacts, SMT
    <3> QED BY <1>2, <2>2, <3>1, <3>2
  <2>4. Row(j) \in Nat /\ image.y =< Row(j) /\ Row(j) =< image.y + image.h
    <3>1. CASE j = TPageCountY
      BY <1>2, <1>4, <3>1
    <3>2. CASE j \in 0 .. TPageCountY - 1
      BY <1>1, <1>2, <3>2, RowFacts, SMT
    <3> QED BY <1>2, <2>2, <3>1, <3>2
  <2>5. /\ currentVramX = Column(i) /\ remainingWidth = image.x + image.w - Column(i)
        /\ drawX = pos[1] + (Column(i) - image.x) * Pixels
        /\ currentVramY = Row(j) /\ remainingHeight = image.y + image.h - Row(j)
        /\ drawY = pos[2] + (Row(j) - image.y)
        /\ result \in {"none", "drawn", "full"}
    BY DEF DrawInv, LoopsInv
  <2>6. remainingWidth \in Nat /\ remainingHeight \in Nat
    BY <1>2, <2>3, <2>4, <2>5, SMT
  <2>7. drawX \in Int
    <3>1. Column(i) - image.x \in Int
      BY <1>2, <2>3, SMT
    <3>2. (Column(i) - image.x) * Pixels \in Int
      BY <1>2, <3>1, SMT
    <3> QED BY <1>2, <2>5, <3>2, SMT
  <2>8. drawY \in Int
    BY <1>2, <2>4, <2>5, SMT
  <2>9. i \in Nat /\ j \in Nat
    BY <1>2, <2>2, SMT
  <2> QED BY <1>1, <2>1, <2>2, <2>3, <2>4, <2>5, <2>6, <2>7, <2>8, <2>9 DEF DrawTypeOK
<1>6. SlicesStayOnPage
  BY <1>1, <1>3, CellFacts, ZenonT(60) DEF SlicesStayOnPage
<1>7. SlicesShowTheirPart
  BY <1>1, <1>3, CellFacts, Zenon DEF SlicesShowTheirPart
<1>8. SlicesDisjoint
  <2> SUFFICES ASSUME NEW s \in slices, NEW t \in slices
               PROVE  /\ s # t => \/ s.x + s.w =< t.x \/ t.x + t.w =< s.x
                                  \/ s.y + s.h =< t.y \/ t.y + t.h =< s.y
                      /\ pos[1] =< s.x /\ s.x + s.w =< Right
                      /\ pos[2] =< s.y /\ s.y + s.h =< Bottom
    BY DEF SlicesDisjoint
  <2>1. PICK a \in 0 .. TPageCountX - 1, b \in 0 .. TPageCountY - 1 : s = Cell(a, b)
    BY <1>3
  <2>2. PICK k \in 0 .. TPageCountX - 1, l \in 0 .. TPageCountY - 1 : t = Cell(k, l)
    BY <1>3
  <2>3. s # t => a # k \/ b # l
    BY <2>1, <2>2
  <2>4. s # t => \/ s.x + s.w =< t.x \/ t.x + t.w =< s.x
                 \/ s.y + s.h =< t.y \/ t.y + t.h =< s.y
    BY <1>1, <2>1, <2>2, <2>3, CellsApart, Zenon
  <2>5. /\ pos[1] =< s.x /\ s.x + s.w =< Right
        /\ pos[2] =< s.y /\ s.y + s.h =< Bottom
    BY <1>1, <2>1, CellFacts, Zenon
  <2> QED BY <2>4, <2>5
<1>9. DrawnMeansWhole
  <2> SUFFICES ASSUME result = "drawn"
               PROVE  /\ \E s \in slices : s.x = pos[1] /\ s.y = pos[2]
                      /\ \A s \in slices :
                           /\ s.x + s.w = Right
                                \/ \E t \in slices :
                                     t.x = s.x + s.w /\ t.y = s.y /\ t.h = s.h
                           /\ s.y + s.h = Bottom
                                \/ \E t \in slices :
                                     t.y = s.y + s.h /\ t.x = s.x /\ t.w = s.w
                      /\ Cardinality(slices) = TPageCountX * TPageCountY
    BY DEF DrawnMeansWhole
  <2>1. j = TPageCountY /\ i = 0
    BY DEF DrawInv, LoopsInv
  <2>2. ASSUME NEW a \in 0 .. TPageCountX - 1, NEW b \in 0 .. TPageCountY - 1
        PROVE  Cell(a, b) \in slices
    <3>1. <<a, b>> \in Cells /\ <<a, b>>[1] = a /\ <<a, b>>[2] = b
      BY DEF Cells
    <3>2. b < j
      BY <1>2, <2>1, SMT
    <3>3. <<a, b>> \in DoneCells
      BY <3>1, <3>2 DEF DoneCells, Done
    <3> QED BY <3>1, <3>3, Zenon DEF DrawInv, SlicesInv
  <2>3. \E s \in slices : s.x = pos[1] /\ s.y = pos[2]
    <3>1. 0 \in 0 .. TPageCountX - 1 /\ 0 \in 0 .. TPageCountY - 1
      BY <1>2, SMT
    <3>2. Cell(0, 0) \in slices
      BY <2>2, <3>1
    <3>3. Cell(0, 0).x = pos[1] /\ Cell(0, 0).y = pos[2]
      <4>1. /\ Cell(0, 0).x = pos[1] + (image.x - image.x) * Pixels
            /\ Cell(0, 0).y = pos[2] + (image.y - image.y)
        BY <1>4, Zenon DEF Cell
      <4>2. image.x - image.x = 0 /\ image.y - image.y = 0
        BY <1>2, SMT
      <4>3. 0 * Pixels = 0 /\ pos[1] + 0 = pos[1] /\ pos[2] + 0 = pos[2]
        BY <1>2, SMT
      <4> QED BY <4>1, <4>2, <4>3
    <3> QED BY <3>2, <3>3
  <2>4. ASSUME NEW s \in slices
        PROVE  /\ s.x + s.w = Right
                    \/ \E t \in slices : t.x = s.x + s.w /\ t.y = s.y /\ t.h = s.h
               /\ s.y + s.h = Bottom
                    \/ \E t \in slices : t.y = s.y + s.h /\ t.x = s.x /\ t.w = s.w
    <3>1. PICK a \in 0 .. TPageCountX - 1, b \in 0 .. TPageCountY - 1 : s = Cell(a, b)
      BY <1>3
    <3>2. /\ Column(a) \in Nat /\ Column(a + 1) \in Nat
          /\ Row(b) \in Nat /\ Row(b + 1) \in Nat
      BY <1>1, ColumnFacts, RowFacts, ZenonT(60)
    <3>3. /\ s.x + s.w = pos[1] + (Column(a + 1) - image.x) * Pixels
          /\ s.y + s.h = pos[2] + (Row(b + 1) - image.y)
      <4>1. /\ s.x = pos[1] + (Column(a) - image.x) * Pixels
            /\ s.w = (Column(a + 1) - Column(a)) * Pixels
            /\ s.y = pos[2] + (Row(b) - image.y) /\ s.h = Row(b + 1) - Row(b)
        BY <3>1, Zenon DEF Cell
      <4> DEFINE ix == image.x
                 iy == image.y
                 px == pos[1]
                 py == pos[2]
                 c == Column(a)
                 d == Column(a + 1)
                 e == Row(b)
                 f == Row(b + 1)
      <4>2. /\ ix \in Nat /\ iy \in Nat /\ px \in Int /\ py \in Int
            /\ c \in Nat /\ d \in Nat /\ e \in Nat /\ f \in Nat /\ Pixels \in Nat
            /\ s.x = px + (c - ix) * Pixels /\ s.w = (d - c) * Pixels
            /\ s.y = py + (e - iy) /\ s.h = f - e
        BY <1>2, <3>2, <4>1, Zenon
      <4> HIDE DEF ix, iy, px, py, c, d, e, f
      <4>3. (c - ix) * Pixels \in Int /\ (d - c) * Pixels \in Int
        BY <4>2, SMT
      <4>4. (c - ix) * Pixels + (d - c) * Pixels = (d - ix) * Pixels
        BY <4>2, SMT
      <4>5. s.x + s.w = px + (d - ix) * Pixels /\ s.y + s.h = py + (f - iy)
        BY <4>2, <4>3, <4>4, SMT
      <4> QED BY <4>5 DEF ix, iy, px, py, c, d, e, f
    <3>4. s.x + s.w = Right
            \/ \E t \in slices : t.x = s.x + s.w /\ t.y = s.y /\ t.h = s.h
      <4>1. CASE a + 1 = TPageCountX
        <5>1. image.x + image.w - image.x = image.w
          BY <1>2, SMT
        <5>2. Column(a + 1) = image.x + image.w
          BY <1>4, <4>1, Zenon
        <5>3. Column(a + 1) - image.x = image.w
          BY <1>2, <5>2, SMT
        <5> QED BY <3>3, <5>3, Zenon DEF Right, Pixels
      <4>2. CASE a + 1 # TPageCountX
        <5>1. a + 1 \in 0 .. TPageCountX - 1
          BY <1>2, <4>2, SMT
        <5>2. Cell(a + 1, b) \in slices
          BY <2>2, <5>1
        <5>3. /\ Cell(a + 1, b).x = pos[1] + (Column(a + 1) - image.x) * Pixels
              /\ Cell(a + 1, b).y = Cell(a, b).y /\ Cell(a + 1, b).h = Cell(a, b).h
          BY Zenon DEF Cell
        <5> QED BY <3>1, <3>3, <5>2, <5>3
      <4> QED BY <4>1, <4>2
    <3>5. s.y + s.h = Bottom
            \/ \E t \in slices : t.y = s.y + s.h /\ t.x = s.x /\ t.w = s.w
      <4>1. CASE b + 1 = TPageCountY
        <5>1. image.y + image.h - image.y = image.h
          BY <1>2, SMT
        <5>2. Row(b + 1) = image.y + image.h
          BY <1>4, <4>1, Zenon
        <5>3. Row(b + 1) - image.y = image.h
          BY <1>2, <5>2, SMT
        <5> QED BY <3>3, <5>3, Zenon DEF Bottom
      <4>2. CASE b + 1 # TPageCountY
        <5>1. b + 1 \in 0 .. TPageCountY - 1
          BY <1>2, <4>2, SMT
        <5>2. Cell(a, b + 1) \in slices
          BY <2>2, <5>1
        <5>3. /\ Cell(a, b + 1).y = pos[2] + (Row(b + 1) - image.y)
              /\ Cell(a, b + 1).x = Cell(a, b).x /\ Cell(a, b + 1).w = Cell(a, b).w
          BY Zenon DEF Cell
        <5> QED BY <3>1, <3>3, <5>2, <5>3
      <4> QED BY <4>1, <4>2
    <3> QED BY <3>4, <3>5
  <2>5. Cardinality(slices) = TPageCountX * TPageCountY
    <3>1. Cardinality(slices) = TPageCountY * TPageCountX + 0
      BY <2>1 DEF DrawInv, SlicesInv
    <3> QED BY <1>2, <3>1, SMT
  <2> QED BY <2>3, <2>4, <2>5
<1> QED BY <1>5, <1>6, <1>7, <1>8, <1>9 DEF ImageIsDrawn

(* The loops begin at the first slice, with nothing drawn.                  *)
LEMMA DrawInitInv == DrawInit => DrawInv
<1> SUFFICES ASSUME DrawInit PROVE DrawInv
  OBVIOUS
<1>1. image \in Images /\ pos \in Positions
  BY DEF DrawInit
<1>2. /\ TPageCountX \in Nat \ {0} /\ TPageCountY \in Nat \ {0}
      /\ image.x \in Nat /\ image.w \in Nat \ {0}
      /\ image.y \in Nat /\ image.h \in Nat \ {0}
      /\ pos[1] \in Int /\ pos[2] \in Int /\ Pixels \in Nat
  BY <1>1, ImageFacts
<1>3. Column(0) = image.x /\ Row(0) = image.y
  BY <1>2, BordersStart DEF Column, Row
<1>4. LoopsInv
  <2>1. free \in Nat
    BY ImagesAssumption DEF DrawInit
  <2>2. /\ 0 \in 0 .. TPageCountX /\ 0 \in 0 .. TPageCountY
        /\ (image.x - image.x) * Pixels = 0 /\ image.y - image.y = 0
        /\ image.x + image.w - image.x = image.w /\ image.y + image.h - image.y = image.h
        /\ pos[1] + 0 = pos[1] /\ pos[2] + 0 = pos[2]
    BY <1>2, SMT
  <2>3. /\ j = 0 /\ i = 0 /\ result = "none" /\ drawX = pos[1] /\ drawY = pos[2]
        /\ currentVramX = image.x /\ currentVramY = image.y
        /\ remainingWidth = image.w /\ remainingHeight = image.h
    BY DEF DrawInit
  <2> QED BY <1>1, <1>3, <2>1, <2>2, <2>3, Zenon DEF LoopsInv
<1>5. SlicesInv
  <2>1. DoneCells = {}
    BY <1>2, SMT DEF DoneCells, Cells, Done, DrawInit
  <2>2. slices = {} /\ j = 0 /\ i = 0
    BY DEF DrawInit
  <2>3. slices = {Cell(c[1], c[2]) : c \in DoneCells}
    BY <2>1, <2>2
  <2>4. 0 * TPageCountX + 0 = 0
    BY <1>2, SMT
  <2> QED BY <2>2, <2>3, <2>4, FS_EmptySet DEF SlicesInv
<1> QED BY <1>4, <1>5 DEF DrawInv

LEMMA DrawStep == DrawInv /\ [DrawNext]_drawVars => DrawInv'
<1> SUFFICES ASSUME DrawInv, [DrawNext]_drawVars PROVE DrawInv'
  OBVIOUS
<1>1. /\ image \in Images /\ pos \in Positions
      /\ j \in 0 .. TPageCountY /\ i \in 0 .. TPageCountX
  BY DEF DrawInv, LoopsInv
<1>2. /\ TPageCountX \in Nat \ {0} /\ TPageCountY \in Nat \ {0}
      /\ image.x \in Nat /\ image.w \in Nat \ {0}
      /\ image.y \in Nat /\ image.h \in Nat \ {0}
      /\ pos[1] \in Int /\ pos[2] \in Int /\ Pixels \in Nat
  BY <1>1, ImageFacts
<1>3. image' = image /\ pos' = pos
  BY DEF DrawNext, DrawSlice, OutOfEntries, NextRow, Finish, drawVars
<1>4. /\ TPageCountX' = TPageCountX /\ TPageCountY' = TPageCountY
      /\ Pixels' = Pixels /\ Wide' = Wide /\ Cells' = Cells
      /\ \A k : Column(k)' = Column(k) /\ Row(k)' = Row(k)
      /\ \A a, b : Cell(a, b)' = Cell(a, b)
  BY <1>3, Zenon DEF TPageCountX, TPageCountY, Pixels, Wide, Cells, Column, Row, Cell
<1>5. ASSUME DrawSlice PROVE DrawInv'
  <2>1. /\ i < TPageCountX /\ j < TPageCountY /\ result = "none"
        /\ free > 0 /\ free' = free - 1 /\ i' = i + 1 /\ j' = j
        /\ slices' = slices \cup {Slice}
        /\ currentVramX' = currentVramX + SliceWidth
        /\ remainingWidth' = remainingWidth - SliceWidth
        /\ drawX' = drawX + SliceWidth * PixelPerWord(image.mode)
        /\ UNCHANGED <<drawY, currentVramY, remainingHeight, result>>
    BY <1>5 DEF DrawSlice, Running
  <2>2. i \in 0 .. TPageCountX - 1 /\ j \in 0 .. TPageCountY - 1
    BY <1>1, <1>2, <2>1, SMT
  <2>3. /\ Column(i) \in Nat /\ Column(i + 1) \in Nat
        /\ SliceWidth = Column(i + 1) - Column(i)
    <3>1. /\ currentVramX = Column(i) /\ remainingWidth = image.x + image.w - Column(i)
      BY DEF DrawInv, LoopsInv
    <3> QED BY <1>1, <2>2, <3>1, ColumnFacts, Zenon DEF SliceWidth, Wide
  <2>4. SliceHeight = Row(j + 1) - Row(j)
    <3>1. /\ currentVramY = Row(j) /\ remainingHeight = image.y + image.h - Row(j)
      BY DEF DrawInv, LoopsInv
    <3> QED BY <1>1, <2>2, <3>1, RowFacts, SMT DEF SliceHeight
  <2>5. Slice = Cell(i, j)
    <3>1. /\ currentVramX = Column(i) /\ currentVramY = Row(j)
          /\ drawX = pos[1] + (Column(i) - image.x) * Pixels
          /\ drawY = pos[2] + (Row(j) - image.y)
      BY DEF DrawInv, LoopsInv
    <3> QED BY <2>3, <2>4, <3>1, Zenon DEF Slice, OffsetInPixels, Cell, Wide, Pixels
  <2>6. LoopsInv'
    <3>1. free' \in Nat /\ i' \in 0 .. TPageCountX /\ j' # TPageCountY /\ result' # "drawn"
      <4>1. free \in Nat
        BY DEF DrawInv, LoopsInv
      <4> QED BY <1>2, <2>1, <2>2, <4>1, SMT
    <3>2. /\ currentVramX = Column(i) /\ remainingWidth = image.x + image.w - Column(i)
          /\ drawX = pos[1] + (Column(i) - image.x) * Pixels
          /\ currentVramY = Row(j) /\ remainingHeight = image.y + image.h - Row(j)
          /\ drawY = pos[2] + (Row(j) - image.y)
          /\ result \in {"none", "drawn", "full"}
      BY DEF DrawInv, LoopsInv
    <3> DEFINE c == Column(i)
               d == Column(i + 1)
               ix == image.x
               iw == image.w
               px == pos[1]
    <3>3. /\ c \in Nat /\ d \in Nat /\ ix \in Nat /\ iw \in Nat /\ px \in Int /\ Pixels \in Nat
          /\ currentVramX' = c + (d - c)
          /\ remainingWidth = ix + iw - c /\ remainingWidth' = remainingWidth - (d - c)
          /\ drawX' = px + (c - ix) * Pixels + (d - c) * Pixels
      <4>1. currentVramX' = c + (d - c)
        BY <2>1, <2>3, <3>2
      <4>2. remainingWidth = ix + iw - c /\ remainingWidth' = remainingWidth - (d - c)
        BY <2>1, <2>3, <3>2
      <4>3. drawX' = drawX + (d - c) * Pixels
        BY <2>1, <2>3 DEF Pixels
      <4>4. drawX = px + (c - ix) * Pixels
        BY <3>2
      <4>5. drawX' = px + (c - ix) * Pixels + (d - c) * Pixels
        BY <4>3, <4>4, Zenon
      <4> QED BY <1>2, <2>3, <4>1, <4>2, <4>5, Zenon
    <3> HIDE DEF c, d, ix, iw, px
    <3>4. currentVramX' = d /\ remainingWidth' = ix + iw - d
      BY <3>3, SMT
    <3>5. drawX' = px + (d - ix) * Pixels
      <4>1. (c - ix) * Pixels \in Int /\ (d - c) * Pixels \in Int
        BY <3>3, SMT
      <4>2. (c - ix) * Pixels + (d - c) * Pixels = (d - ix) * Pixels
        BY <3>3, SMT
      <4> QED BY <3>3, <4>1, <4>2, SMT
    <3>6. /\ currentVramX' = Column(i') /\ remainingWidth' = image.x + image.w - Column(i')
          /\ drawX' = pos[1] + (Column(i') - image.x) * Pixels
      BY <2>1, <3>4, <3>5, Zenon DEF d, ix, iw, px
    <3> QED BY <1>1, <1>3, <1>4, <2>1, <3>1, <3>2, <3>6, Zenon DEF LoopsInv
  <2>7. SlicesInv'
    <3>1. DoneCells' = DoneCells \cup {<<i, j>>}
      <4>1. ASSUME NEW a \in 0 .. TPageCountX - 1, NEW b \in 0 .. TPageCountY - 1
            PROVE  (b < j \/ (b = j /\ a < i + 1))
                     <=> (b < j \/ (b = j /\ a < i)) \/ (a = i /\ b = j)
        BY <2>2, SMT
      <4>2. ASSUME NEW c \in Cells PROVE Done(c)' <=> (Done(c) \/ c = <<i, j>>)
        <5>1. /\ c[1] \in 0 .. TPageCountX - 1 /\ c[2] \in 0 .. TPageCountY - 1
              /\ (c = <<i, j>> <=> c[1] = i /\ c[2] = j)
          BY DEF Cells
        <5>2. Done(c)' <=> c[2] < j \/ (c[2] = j /\ c[1] < i + 1)
          BY <2>1, Zenon DEF Done
        <5> QED BY <4>1, <5>1, <5>2, Zenon DEF Done
      <4>3. <<i, j>> \in Cells
        BY <2>2 DEF Cells
      <4> QED BY <1>4, <4>2, <4>3, Zenon DEF DoneCells
    <3>2. slices = {Cell(c[1], c[2]) : c \in DoneCells}
      BY DEF DrawInv, SlicesInv
    <3>3. slices' = {Cell(c[1], c[2]) : c \in DoneCells'}
      <4>1. <<i, j>>[1] = i /\ <<i, j>>[2] = j
        OBVIOUS
      <4> QED BY <2>1, <2>5, <3>1, <3>2, <4>1, Zenon
    <3>4. slices' = {Cell(c[1], c[2])' : c \in DoneCells'}
      BY <1>4, <3>3, Zenon
    <3>5. Slice \notin slices
      <4>1. SUFFICES ASSUME NEW c \in DoneCells, Cell(c[1], c[2]) = Cell(i, j)
                     PROVE  FALSE
        BY <2>5, <3>2, Zenon
      <4>2. /\ c[1] \in 0 .. TPageCountX - 1 /\ c[2] \in 0 .. TPageCountY - 1
            /\ Done(c)
        BY Zenon DEF DoneCells, Cells
      <4>3. c[1] # i \/ c[2] # j
        BY <2>2, <4>2, SMT DEF Done
      <4> DEFINE s == Cell(i, j)
      <4>4. \/ s.x + s.w =< s.x \/ s.y + s.h =< s.y
        BY <1>1, <2>2, <4>1, <4>2, <4>3, CellsApart, Zenon
      <4>5. s \in SliceType /\ s.w > 0 /\ s.h > 0
        BY <1>1, <2>2, CellFacts, Zenon
      <4> HIDE DEF s
      <4>6. s.x \in Int /\ s.y \in Int /\ s.w \in Nat /\ s.h \in Nat
        BY <4>5, Zenon DEF SliceType
      <4> QED BY <4>4, <4>5, <4>6, SMT
    <3>6. IsFiniteSet(slices') /\ Cardinality(slices') = Cardinality(slices) + 1
      BY <2>1, <3>5, FS_AddElement DEF DrawInv, SlicesInv
    <3>7. Cardinality(slices') = j' * TPageCountX + i'
      <4>1. Cardinality(slices) = j * TPageCountX + i
        BY DEF DrawInv, SlicesInv
      <4>2. j * TPageCountX \in Int
        BY <1>2, <2>2, SMT
      <4> QED BY <1>2, <2>1, <2>2, <3>6, <4>1, <4>2, SMT
    <3> QED BY <1>4, <3>4, <3>6, <3>7, Zenon DEF SlicesInv
  <2> QED BY <2>6, <2>7 DEF DrawInv
<1>6. ASSUME NextRow PROVE DrawInv'
  <2>1. /\ i = TPageCountX /\ j < TPageCountY /\ result = "none"
        /\ i' = 0 /\ j' = j + 1
        /\ currentVramY' = currentVramY + SliceHeight
        /\ remainingHeight' = remainingHeight - SliceHeight
        /\ drawY' = drawY + SliceHeight
        /\ drawX' = pos[1] /\ currentVramX' = image.x /\ remainingWidth' = image.w
        /\ UNCHANGED <<free, slices, result>>
    BY <1>6 DEF NextRow, Running
  <2>2. j \in 0 .. TPageCountY - 1
    BY <1>1, <1>2, <2>1, SMT
  <2>3. /\ currentVramY = Row(j) /\ remainingHeight = image.y + image.h - Row(j)
        /\ drawY = pos[2] + (Row(j) - image.y) /\ free \in Nat
    BY DEF DrawInv, LoopsInv
  <2>4. Row(j) \in Nat /\ Row(j + 1) \in Nat /\ SliceHeight = Row(j + 1) - Row(j)
    BY <1>1, <2>2, <2>3, RowFacts, SMT DEF SliceHeight
  <2>5. Column(0) = image.x
    BY <1>2, BordersStart DEF Column
  <2>6. /\ currentVramY' = Row(j + 1)
        /\ remainingHeight' = image.y + image.h - Row(j + 1)
        /\ drawY' = pos[2] + (Row(j + 1) - image.y)
    <3> DEFINE e == Row(j)
               f == Row(j + 1)
               iy == image.y
               ih == image.h
               py == pos[2]
    <3>1. /\ e \in Nat /\ f \in Nat /\ iy \in Nat /\ ih \in Nat /\ py \in Int
          /\ currentVramY' = e + (f - e) /\ remainingHeight = iy + ih - e
          /\ remainingHeight' = remainingHeight - (f - e)
          /\ drawY' = py + (e - iy) + (f - e)
      <4>1. currentVramY' = e + (f - e) /\ drawY' = drawY + (f - e)
        BY <2>1, <2>3, <2>4
      <4>2. remainingHeight = iy + ih - e /\ remainingHeight' = remainingHeight - (f - e)
        BY <2>1, <2>3, <2>4
      <4>3. drawY = py + (e - iy)
        BY <2>3
      <4>4. drawY' = py + (e - iy) + (f - e)
        BY <4>1, <4>3, Zenon
      <4> QED BY <1>2, <2>4, <4>1, <4>2, <4>4, Zenon
    <3> HIDE DEF e, f, iy, ih, py
    <3>2. currentVramY' = f /\ remainingHeight' = iy + ih - f /\ drawY' = py + (f - iy)
      BY <3>1, SMT
    <3> QED BY <3>2 DEF e, f, iy, ih, py
  <2>7. /\ drawX' = pos[1] + (Column(0) - image.x) * Pixels
        /\ currentVramX' = Column(0) /\ remainingWidth' = image.x + image.w - Column(0)
    <3>1. /\ (image.x - image.x) * Pixels = 0 /\ pos[1] + 0 = pos[1]
          /\ image.x + image.w - image.x = image.w
      BY <1>2, SMT
    <3> QED BY <2>1, <2>5, <3>1
  <2>8. /\ i' \in 0 .. TPageCountX /\ j' \in 0 .. TPageCountY
        /\ result' # "drawn" /\ result' \in {"none", "drawn", "full"} /\ free' \in Nat
    BY <1>2, <2>1, <2>2, <2>3, SMT
  <2>9. LoopsInv'
    BY <1>1, <1>3, <1>4, <2>1, <2>6, <2>7, <2>8, Zenon DEF LoopsInv
  <2>10. SlicesInv'
    <3>1. DoneCells' = DoneCells
      <4>1. ASSUME NEW a \in 0 .. TPageCountX - 1, NEW b \in 0 .. TPageCountY - 1
            PROVE  (b < j + 1 \/ (b = j + 1 /\ a < 0))
                     <=> (b < j \/ (b = j /\ a < TPageCountX))
        BY <1>2, <2>2, SMT
      <4>2. \A c \in Cells : Done(c)' <=> Done(c)
        BY <2>1, <4>1, Zenon DEF Cells, Done
      <4> QED BY <1>4, <4>2, Zenon DEF DoneCells
    <3>2. slices' = {Cell(c[1], c[2])' : c \in DoneCells'}
      <4>1. slices = {Cell(c[1], c[2]) : c \in DoneCells}
        BY DEF DrawInv, SlicesInv
      <4> QED BY <1>4, <2>1, <3>1, <4>1, Zenon
    <3>3. j * TPageCountX + TPageCountX = (j + 1) * TPageCountX + 0
      BY <1>2, <2>2, SMT
    <3> QED BY <1>4, <2>1, <3>2, <3>3, Zenon DEF DrawInv, SlicesInv
  <2> QED BY <2>9, <2>10 DEF DrawInv
<1>7. ASSUME UNCHANGED <<free, j, i, drawX, drawY, currentVramX, currentVramY,
                         remainingWidth, remainingHeight, slices>>,
             result' \in {"none", "drawn", "full"},
             result' = "drawn" => j = TPageCountY
      PROVE  DrawInv'
  <2>1. LoopsInv'
    BY <1>3, <1>4, <1>7, Zenon DEF DrawInv, LoopsInv
  <2>2. DoneCells' = DoneCells
    BY <1>4, <1>7, Zenon DEF DoneCells, Done
  <2>3. slices' = {Cell(c[1], c[2])' : c \in DoneCells'}
    <3>1. slices = {Cell(c[1], c[2]) : c \in DoneCells}
      BY DEF DrawInv, SlicesInv
    <3> QED BY <1>4, <1>7, <2>2, <3>1, Zenon
  <2> QED BY <1>4, <1>7, <2>1, <2>3, Zenon DEF DrawInv, SlicesInv
<1>8. CASE OutOfEntries
  BY <1>7, <1>8 DEF OutOfEntries
<1>9. CASE Finish
  BY <1>7, <1>9 DEF Finish
<1>10. CASE UNCHANGED drawVars
  <2>1. result' = result /\ result \in {"none", "drawn", "full"}
        /\ (result = "drawn" => j = TPageCountY)
    BY <1>10 DEF drawVars, DrawInv, LoopsInv
  <2> QED BY <1>7, <1>10, <2>1 DEF drawVars
<1> QED BY <1>5, <1>6, <1>8, <1>9, <1>10 DEF DrawNext

(* Every image, at every place of VRAM and of the screen, in each of the    *)
(* modes: what DrawImage has put on the table is its part of the picture,   *)
(* with no pixel twice, and all of it when the call returns 0               *)
(* (image.c:96-182).                                                        *)
THEOREM DrawsTheImage == DrawSpec => []ImageIsDrawn
<1>1. DrawSpec => []DrawInv
  BY DrawInitInv, DrawStep, PTL DEF DrawSpec
<1> QED BY <1>1, DrawInvGivesPicture, PTL

-----------------------------------------------------------------------------
(* The least of a set of numbers: induction without an operator to pass.    *)
LEMMA LeastExists ==
  ASSUME NEW S, S \subseteq Nat, S # {}
  PROVE  \E m \in S : \A n \in S : m =< n
<1> DEFINE R == OpToRel(<, Nat)
<1>1. \A m, n \in Nat : <<m, n>> \in R <=> m < n
  BY DEF OpToRel
<1> HIDE DEF R
<1>2. PICK m \in S : \A n \in S : ~(<<n, m>> \in R)
  BY NatLessThanWellFounded, WFMin DEF R
<1>3. \A n \in S : ~(n < m)
  BY <1>1, <1>2
<1>4. \A n \in S : m =< n
  BY <1>3, SMT
<1> QED BY <1>4

(* The text as it is laid out: where the next character goes, and the       *)
(* glyphs before it.                                                        *)
Char == DOMAIN charData \cup {Space, NewLine}
Layout == [x : {n \in Nat : n >= ArgX}, y : Nat, g : Seq(Glyph)]
Begun == [x |-> ArgX, y |-> ArgY, g |-> <<>>]
FullAt(l) == l.x >= SCREEN_WIDTH
GlyphAt(l, c) ==
  [x |-> IF FullAt(l) THEN ArgX ELSE l.x,
   y |-> IF FullAt(l) THEN l.y + LineHeight ELSE l.y,
   u |-> charData[c].u + imageOffsetX, v |-> charData[c].v + imageOffsetY, of |-> c]
After(l, c) ==
  IF c = Space
  THEN [x |-> IF l.x + 3 > SCREEN_WIDTH THEN ArgX ELSE l.x + 3, y |-> l.y, g |-> l.g]
  ELSE IF c = NewLine
  THEN [x |-> ArgX, y |-> l.y + LineHeight, g |-> l.g]
  ELSE [x |-> GlyphAt(l, c).x + charData[c].w, y |-> GlyphAt(l, c).y,
        g |-> Append(l.g, GlyphAt(l, c))]

(* r is the layouts after each of the first n characters.                   *)
Lays(r, n) ==
  /\ DOMAIN r = 0 .. n
  /\ r[0] = Begun
  /\ \A k \in 0 .. n - 1 : r[k + 1] = After(r[k], text[k + 1])

(* The glyphs of b are those of a and more.                                 *)
Grown(a, b) == Len(a) =< Len(b) /\ \A k \in 1 .. Len(a) : a[k] = b[k]

LEMMA Measures ==
  /\ ArgX \in Nat /\ ArgY \in Nat /\ SCREEN_WIDTH \in Nat /\ ArgX < SCREEN_WIDTH
  /\ LineHeight \in Nat /\ imageOffsetX = 0 /\ imageOffsetY \in Nat
  /\ imageOffsetY = FONTVRAM_Y % 256 /\ charHeight \in Nat
  /\ tPageX = FONTVRAM_X /\ tPageY + imageOffsetY = FONTVRAM_Y
  /\ FONTVRAM_X \in Nat /\ FONTVRAM_Y \in Nat /\ tPageY \in Nat
<1>1. /\ ArgX \in Nat /\ ArgY \in Nat /\ SCREEN_WIDTH \in Nat /\ ArgX < SCREEN_WIDTH
  BY PlaceAssumption, SMT
<1>2. /\ charHeight \in Nat /\ FONTVRAM_X \in Nat /\ FONTVRAM_Y \in Nat
      /\ FONTVRAM_X % 64 = 0
  BY FontAssumption
<1>3. LineHeight \in Nat
  BY <1>2, SMT DEF LineHeight
<1>4. tPageX = FONTVRAM_X /\ imageOffsetX = 0
  BY <1>2, SMT DEF tPageX, imageOffsetX
<1>5. /\ imageOffsetY \in Nat /\ tPageY \in Nat /\ tPageY + imageOffsetY = FONTVRAM_Y
  BY <1>2, SMT DEF tPageY, imageOffsetY
<1> QED BY <1>1, <1>2, <1>3, <1>4, <1>5 DEF imageOffsetY

LEMMA CharWidth ==
  ASSUME NEW c \in DOMAIN charData
  PROVE  /\ charData[c].u \in Nat /\ charData[c].v \in Nat /\ charData[c].w \in Nat
         /\ charData[c].u + charData[c].w =< 256
         /\ charData[c].v + imageOffsetY + charHeight =< 256
         /\ c # Space /\ c # NewLine
BY FontAssumption, TextsAssumption, SMT DEF imageOffsetY

LEMMA GlyphIsOne ==
  ASSUME NEW l \in Layout, NEW c \in DOMAIN charData
  PROVE  /\ GlyphAt(l, c) \in Glyph
         /\ GlyphAt(l, c).x \in ArgX .. SCREEN_WIDTH - 1
<1>1. l.x \in Nat /\ l.x >= ArgX /\ l.y \in Nat
  BY DEF Layout
<1> DEFINE x == IF FullAt(l) THEN ArgX ELSE l.x
           y == IF FullAt(l) THEN l.y + LineHeight ELSE l.y
<1>2. x \in ArgX .. SCREEN_WIDTH - 1 /\ x \in Nat /\ y \in Nat
  BY <1>1, Measures, SMT DEF FullAt
<1>3. charData[c].u + imageOffsetX \in Nat /\ charData[c].v + imageOffsetY \in Nat
  BY CharWidth, Measures, SMT
<1> HIDE DEF x, y
<1>4. GlyphAt(l, c) = [x |-> x, y |-> y, u |-> charData[c].u + imageOffsetX,
                       v |-> charData[c].v + imageOffsetY, of |-> c]
  BY Zenon DEF GlyphAt, x, y
<1> QED BY <1>2, <1>3, <1>4 DEF Glyph

LEMMA Adding ==
  ASSUME NEW l \in Layout, NEW c \in Char
  PROVE  After(l, c) \in Layout /\ Grown(l.g, After(l, c).g)
<1>1. l.x \in Nat /\ l.x >= ArgX /\ l.y \in Nat /\ l.g \in Seq(Glyph)
  BY DEF Layout
<1>2. Len(l.g) \in Nat
  BY <1>1, LenProperties
<1>3. Grown(l.g, l.g)
  BY <1>2, SMT DEF Grown
<1>4. CASE c = Space
  <2> DEFINE x == IF l.x + 3 > SCREEN_WIDTH THEN ArgX ELSE l.x + 3
  <2>1. x \in Nat /\ x >= ArgX
    BY <1>1, Measures, SMT
  <2> HIDE DEF x
  <2>2. After(l, c) = [x |-> x, y |-> l.y, g |-> l.g]
    BY <1>4, Zenon DEF After, x
  <2> QED BY <1>1, <1>3, <2>1, <2>2 DEF Layout
<1>5. CASE c = NewLine
  <2>1. l.y + LineHeight \in Nat /\ ArgX >= ArgX
    BY <1>1, Measures, SMT
  <2>2. c # Space
    BY <1>5 DEF Space, NewLine
  <2>3. After(l, c) = [x |-> ArgX, y |-> l.y + LineHeight, g |-> l.g]
    BY <1>5, <2>2, Zenon DEF After
  <2> QED BY <1>1, <1>3, Measures, <2>1, <2>3 DEF Layout
<1>6. CASE c \in DOMAIN charData
  <2> DEFINE h == GlyphAt(l, c)
  <2>1. h \in Glyph /\ h.x \in ArgX .. SCREEN_WIDTH - 1 /\ h.y \in Nat
    BY <1>6, GlyphIsOne DEF Glyph
  <2>2. After(l, c) = [x |-> h.x + charData[c].w, y |-> h.y, g |-> Append(l.g, h)]
    BY <1>6, CharWidth, Zenon DEF After
  <2> HIDE DEF h
  <2>3. h.x + charData[c].w \in Nat /\ h.x + charData[c].w >= ArgX
    BY <1>6, <2>1, CharWidth, Measures, SMT
  <2>4. /\ Append(l.g, h) \in Seq(Glyph) /\ Len(Append(l.g, h)) = Len(l.g) + 1
        /\ \A k \in 1 .. Len(l.g) : Append(l.g, h)[k] = l.g[k]
    BY <1>1, <2>1, AppendProperties
  <2>5. Grown(l.g, Append(l.g, h))
    BY <1>2, <2>4, SMT DEF Grown
  <2> QED BY <2>1, <2>2, <2>3, <2>4, <2>5 DEF Layout
<1> QED BY <1>4, <1>5, <1>6 DEF Char

(* A text has one layout, however far it is laid out.                       *)
LEMMA OneLayout ==
  ASSUME NEW m \in Nat, NEW n \in Nat, m =< n, NEW r, NEW s, Lays(r, m), Lays(s, n)
  PROVE  \A k \in 0 .. m : r[k] = s[k]
<1> DEFINE S == {k \in 0 .. m : r[k] # s[k]}
<1> SUFFICES ASSUME S # {} PROVE FALSE
  OBVIOUS
<1>1. S \subseteq Nat
  OBVIOUS
<1>2. PICK k \in S : \A l \in S : k =< l
  BY <1>1, LeastExists
<1>3. k \in 0 .. m /\ r[k] # s[k]
  OBVIOUS
<1>4. k # 0
  BY <1>3 DEF Lays
<1>5. k - 1 \in 0 .. m - 1 /\ k - 1 \in 0 .. n - 1 /\ k - 1 \in 0 .. m /\ k - 1 + 1 = k
      /\ ~(k =< k - 1)
  BY <1>3, <1>4, SMT
<1>6. r[k - 1] = s[k - 1]
  BY <1>2, <1>5
<1>7. r[k - 1 + 1] = After(r[k - 1], text[k - 1 + 1])
  BY <1>5, Zenon DEF Lays
<1>8. s[k - 1 + 1] = After(s[k - 1], text[k - 1 + 1])
  BY <1>5, Zenon DEF Lays
<1> QED BY <1>3, <1>5, <1>6, <1>7, <1>8, Zenon

LEMMA LayoutsAre ==
  ASSUME text \in Texts, NEW n \in 0 .. Len(text), NEW r, Lays(r, n)
  PROVE  \A k \in 0 .. n : r[k] \in Layout
<1>1. text \in Seq(Char)
  BY TextsAssumption DEF Char
<1>2. Len(text) \in Nat /\ \A k \in 1 .. Len(text) : text[k] \in Char
  BY <1>1, LenProperties, ElementOfSeq
<1> DEFINE S == {k \in 0 .. n : r[k] \notin Layout}
<1> SUFFICES ASSUME S # {} PROVE FALSE
  OBVIOUS
<1>3. S \subseteq Nat
  BY <1>2, SMT
<1>4. PICK k \in S : \A l \in S : k =< l
  BY <1>3, LeastExists
<1>5. k \in 0 .. n /\ r[k] \notin Layout
  OBVIOUS
<1>6. Begun \in Layout
  BY Measures, EmptySeq, SMT DEF Begun, Layout
<1>7. k # 0
  BY <1>5, <1>6 DEF Lays
<1>8. k - 1 \in 0 .. n - 1 /\ k - 1 \in 0 .. n /\ k - 1 + 1 = k /\ ~(k =< k - 1)
      /\ k \in 1 .. Len(text)
  BY <1>2, <1>5, <1>7, SMT
<1>9. r[k - 1] \in Layout
  BY <1>4, <1>8
<1>10. r[k - 1 + 1] = After(r[k - 1], text[k - 1 + 1])
  BY <1>8, Zenon DEF Lays
<1>11. After(r[k - 1], text[k]) \in Layout
  BY <1>2, <1>8, <1>9, Adding
<1> QED BY <1>5, <1>8, <1>10, <1>11, Zenon

LEMMA GrownOn ==
  ASSUME NEW a, NEW b, NEW c, Len(a) \in Nat, Len(b) \in Nat, Len(c) \in Nat,
         Grown(a, b), Grown(b, c)
  PROVE  Grown(a, c)
<1>1. Len(a) =< Len(c) /\ \A k \in 1 .. Len(a) : k \in 1 .. Len(b)
  BY SMT DEF Grown
<1> QED BY <1>1, Zenon DEF Grown

LEMMA GlyphsAdded ==
  ASSUME text \in Texts, NEW n \in 0 .. Len(text), NEW m \in 0 .. n, NEW r, Lays(r, n)
  PROVE  Grown(r[m].g, r[n].g)
<1>1. text \in Seq(Char)
  BY TextsAssumption DEF Char
<1>2. Len(text) \in Nat /\ \A k \in 1 .. Len(text) : text[k] \in Char
  BY <1>1, LenProperties, ElementOfSeq
<1>3. \A k \in 0 .. n : r[k] \in Layout /\ r[k].g \in Seq(Glyph) /\ Len(r[k].g) \in Nat
  BY LayoutsAre, LenProperties DEF Layout
<1> DEFINE S == {k \in m .. n : ~Grown(r[m].g, r[k].g)}
<1> SUFFICES ASSUME S # {} PROVE FALSE
  <2>1. n \in m .. n
    BY <1>2, SMT
  <2> QED BY <2>1
<1>4. S \subseteq Nat
  BY <1>2, SMT
<1>5. PICK k \in S : \A l \in S : k =< l
  BY <1>4, LeastExists
<1>6. k \in m .. n /\ ~Grown(r[m].g, r[k].g)
  OBVIOUS
<1>7. k # m
  BY <1>3, <1>6, SMT DEF Grown
<1>8. k - 1 \in 0 .. n - 1 /\ k - 1 \in m .. n /\ k - 1 \in 0 .. n /\ k \in 0 .. n
      /\ k - 1 + 1 = k /\ ~(k =< k - 1) /\ k \in 1 .. Len(text)
  BY <1>2, <1>6, <1>7, SMT
<1>9. Grown(r[m].g, r[k - 1].g)
  BY <1>5, <1>8
<1>10. r[k - 1 + 1] = After(r[k - 1], text[k - 1 + 1])
  BY <1>8, Zenon DEF Lays
<1>11. Grown(r[k - 1].g, After(r[k - 1], text[k]).g)
  BY <1>2, <1>3, <1>8, Adding
<1>12. Grown(r[k - 1].g, r[k].g)
  BY <1>8, <1>10, <1>11, Zenon
<1>13. Len(r[m].g) \in Nat /\ Len(r[k].g) \in Nat /\ Len(r[k - 1].g) \in Nat
  BY <1>2, <1>3, <1>8, SMT
<1>14. Grown(r[m].g, r[k].g)
  BY <1>9, <1>12, <1>13, GrownOn, Zenon
<1> QED BY <1>6, <1>14

LEMMA GrownIsPrefix ==
  ASSUME NEW a \in Seq(Glyph), NEW b \in Seq(Glyph), Grown(a, b)
  PROVE  IsPrefix(a, b)
<1>1. Len(a) \in Nat /\ Len(b) \in Nat /\ Len(a) =< Len(b)
  BY LenProperties DEF Grown
<1>2. 1 \in 1 .. Len(a) + 1 /\ Len(a) \in 0 .. Len(a) /\ Len(a) \in 1 - 1 .. Len(b)
      /\ 1 \in 1 .. Len(b) + 1
  BY <1>1, SMT
<1>3. /\ SubSeq(a, 1, Len(a)) = [k \in 1 .. Len(a) |-> a[k]]
      /\ SubSeq(b, 1, Len(a)) = [k \in 1 .. Len(a) |-> b[k]]
  BY <1>1, SMT
<1> QED BY <1>1, <1>3 DEF IsPrefix, Grown

(* Where the next character goes, after the last glyph.                     *)
Behind ==
  LET g == glyphs[Len(glyphs)]
  IN  \/ textY = g.y /\ textX >= g.x + charData[g.of].w
      \/ textY >= g.y + LineHeight

Laid(r, n) == Lays(r, n) /\ r[n] = [x |-> textX, y |-> textY, g |-> glyphs]

TextInv ==
  /\ TextTypeOK /\ GlyphsBeginOnScreen /\ ReadingOrder /\ GlyphsShowTheirCharacter
  /\ textX >= ArgX
  /\ ~spaceWrapped /\ glyphs # <<>> => Behind
  /\ textPc = "called" => at = stringCounter
  /\ \E r : Laid(r, at)
  /\ \E m \in 0 .. stringCounter : \E r : Lays(r, m) /\ r[m].g = lastGlyphs

LEMMA TextFacts ==
  ASSUME TextTypeOK
  PROVE  /\ text \in Texts /\ Len(text) \in Nat
         /\ \A k \in 1 .. Len(text) : text[k] \in Char
         /\ stringCounter \in 0 .. Len(text) /\ at \in 0 .. stringCounter
         /\ stringCounter \in Nat /\ at \in Nat
         /\ textX \in Nat /\ textY \in Nat
         /\ glyphs \in Seq(Glyph) /\ lastGlyphs \in Seq(Glyph)
         /\ Len(glyphs) \in Nat /\ \A k \in 1 .. Len(glyphs) : glyphs[k] \in Glyph
         /\ DOMAIN glyphs = 1 .. Len(glyphs)
<1>1. text \in Texts /\ stringCounter \in 0 .. Len(text) /\ at \in 0 .. stringCounter
      /\ textX \in Nat /\ textY \in Nat
      /\ glyphs \in Seq(Glyph) /\ lastGlyphs \in Seq(Glyph)
  BY DEF TextTypeOK, stringLength
<1>2. text \in Seq(Char)
  BY <1>1, TextsAssumption DEF Char
<1>3. Len(text) \in Nat /\ \A k \in 1 .. Len(text) : text[k] \in Char
  BY <1>2, LenProperties, ElementOfSeq
<1>4. /\ Len(glyphs) \in Nat /\ \A k \in 1 .. Len(glyphs) : glyphs[k] \in Glyph
      /\ DOMAIN glyphs = 1 .. Len(glyphs)
  BY <1>1, LenProperties, ElementOfSeq
<1>5. stringCounter \in Nat /\ at \in Nat
  BY <1>1, <1>3, SMT
<1> QED BY <1>1, <1>3, <1>4, <1>5

LEMMA TextInvGivesReading == TextInv => TextIsRead
<1> SUFFICES ASSUME TextInv, textPc = "called" PROVE IsPrefix(lastGlyphs, glyphs)
  BY DEF TextInv, TextIsRead, GlyphsNeverMove
<1>1. TextTypeOK /\ at = stringCounter
  BY DEF TextInv
<1>2. PICK r : Lays(r, at) /\ r[at] = [x |-> textX, y |-> textY, g |-> glyphs]
  BY DEF TextInv, Laid
<1>3. PICK m \in 0 .. stringCounter : \E s : Lays(s, m) /\ s[m].g = lastGlyphs
  BY DEF TextInv
<1>4. PICK s : Lays(s, m) /\ s[m].g = lastGlyphs
  BY <1>3
<1>5. /\ m \in Nat /\ at \in Nat /\ m =< at /\ m \in 0 .. m /\ at \in 0 .. Len(text)
      /\ m \in 0 .. at /\ text \in Texts
      /\ lastGlyphs \in Seq(Glyph) /\ glyphs \in Seq(Glyph)
  BY <1>1, TextFacts, SMT
<1>6. s[m] = r[m]
  <2>1. m \in Nat /\ at \in Nat /\ m =< at /\ Lays(s, m) /\ Lays(r, at)
    BY <1>2, <1>4, <1>5
  <2>2. \A k \in 0 .. m : s[k] = r[k]
    BY <2>1, OneLayout
  <2> QED BY <1>5, <2>2
<1>7. Grown(r[m].g, r[at].g)
  <2>1. /\ text \in Texts /\ at \in 0 .. Len(text) /\ m \in 0 .. at /\ Lays(r, at)
    BY <1>2, <1>5, Zenon
  <2> QED BY <2>1, GlyphsAdded, Zenon
<1>8. Grown(lastGlyphs, glyphs)
  <2>1. r[at].g = glyphs
    BY <1>2
  <2> QED BY <1>4, <1>6, <1>7, <2>1, Zenon
<1> QED BY <1>5, <1>8, GrownIsPrefix

LEMMA TextInitInv == TextInit => TextInv
<1> SUFFICES ASSUME TextInit PROVE TextInv
  OBVIOUS
<1>1. /\ textPc = "called" /\ text \in Texts /\ displayType \in {NORMAL, TYPEWRITER}
      /\ stringCounter = 0 /\ at = 0 /\ textX = ArgX /\ textY = ArgY
      /\ glyphs = <<>> /\ lastGlyphs = <<>> /\ written = 0 /\ spaceWrapped = FALSE
  BY DEF TextInit
<1>2. Len(text) \in Nat
  BY <1>1, TextsAssumption, LenProperties
<1>3. 0 \in 0 .. Len(text) /\ 0 \in 0 .. 0
  BY <1>2, SMT
<1>4. TextTypeOK
  BY <1>1, <1>3, Measures, EmptySeq DEF TextTypeOK, stringLength
<1>5. DOMAIN glyphs = {} /\ Len(glyphs) = 0
  BY <1>1
<1>6. GlyphsBeginOnScreen /\ GlyphsShowTheirCharacter
  BY <1>5 DEF GlyphsBeginOnScreen, GlyphsShowTheirCharacter
<1>7. ReadingOrder
  <2>1. 1 .. Len(glyphs) - 1 = {}
    BY <1>5, SMT
  <2> QED BY <2>1 DEF ReadingOrder
<1>8. textX >= ArgX
  BY <1>1, Measures, SMT
<1> DEFINE r == [k \in 0 .. 0 |-> Begun]
<1>9. Lays(r, 0)
  <2>1. 0 .. 0 - 1 = {}
    BY SMT
  <2> QED BY <1>3, <2>1, Zenon DEF Lays
<1>10. r[0] = [x |-> ArgX, y |-> ArgY, g |-> <<>>]
  BY <1>3 DEF Begun
<1> HIDE DEF r
<1>11. Laid(r, at)
  <2>1. [x |-> textX, y |-> textY, g |-> glyphs] = [x |-> ArgX, y |-> ArgY, g |-> <<>>]
    BY <1>1, Zenon
  <2> QED BY <1>1, <1>9, <1>10, <2>1, Zenon DEF Laid
<1>12. r[0].g = lastGlyphs
  BY <1>1, <1>10
<1> QED
  BY <1>1, <1>3, <1>4, <1>6, <1>7, <1>8, <1>9, <1>11, <1>12, Zenon DEF TextInv

(* The layout goes on by one character.                                     *)
LEMMA LaysOn ==
  ASSUME NEW n \in Nat, NEW r, Lays(r, n), NEW l, l = After(r[n], text[n + 1])
  PROVE  \E s : Lays(s, n + 1) /\ s[n + 1] = l
<1> DEFINE s == [k \in 0 .. n + 1 |-> IF k = n + 1 THEN l ELSE r[k]]
<1>1. /\ 0 \in 0 .. n + 1 /\ n + 1 \in 0 .. n + 1 /\ 0 # n + 1
      /\ \A k \in 0 .. (n + 1) - 1 : k \in 0 .. n + 1 /\ k + 1 \in 0 .. n + 1 /\ k # n + 1
      /\ \A k \in 0 .. (n + 1) - 1 : k = n \/ (k \in 0 .. n - 1 /\ k + 1 # n + 1)
  BY SMT
<1>2. DOMAIN s = 0 .. n + 1 /\ s[n + 1] = l
  BY <1>1
<1>3. \A k \in 0 .. (n + 1) - 1 : s[k] = r[k]
  BY <1>1
<1>4. s[0] = Begun
  BY <1>1 DEF Lays
<1>5. ASSUME NEW k \in 0 .. (n + 1) - 1 PROVE s[k + 1] = After(s[k], text[k + 1])
  <2>1. CASE k = n
    BY <1>1, <1>2, <1>3, <2>1
  <2>2. CASE k \in 0 .. n - 1 /\ k + 1 # n + 1
    <3>1. s[k + 1] = r[k + 1]
      BY <1>1, <2>2
    <3>2. r[k + 1] = After(r[k], text[k + 1])
      BY <2>2 DEF Lays
    <3> QED BY <1>3, <3>1, <3>2
  <2> QED BY <1>1, <2>1, <2>2
<1> HIDE DEF s
<1>6. Lays(s, n + 1)
  BY <1>2, <1>4, <1>5, Zenon DEF Lays
<1> QED BY <1>2, <1>6

LEMMA TextStep == TextInv /\ [TextNext]_textVars => TextInv'
<1> SUFFICES ASSUME TextInv, [TextNext]_textVars PROVE TextInv'
  OBVIOUS
<1> DEFINE L == [x |-> textX, y |-> textY, g |-> glyphs]
<1>1. /\ text \in Texts /\ Len(text) \in Nat
      /\ \A k \in 1 .. Len(text) : text[k] \in Char
      /\ stringCounter \in 0 .. Len(text) /\ at \in 0 .. stringCounter
      /\ stringCounter \in Nat /\ at \in Nat /\ textX \in Nat /\ textY \in Nat
      /\ glyphs \in Seq(Glyph) /\ lastGlyphs \in Seq(Glyph)
      /\ Len(glyphs) \in Nat /\ \A k \in 1 .. Len(glyphs) : glyphs[k] \in Glyph
      /\ DOMAIN glyphs = 1 .. Len(glyphs)
  BY TextFacts, Zenon DEF TextInv
<1>2. /\ TextTypeOK /\ GlyphsBeginOnScreen /\ ReadingOrder /\ GlyphsShowTheirCharacter
      /\ textX >= ArgX /\ (~spaceWrapped /\ glyphs # <<>> => Behind)
      /\ textPc = "called" => at = stringCounter
  BY DEF TextInv
<1>3. PICK r : Lays(r, at) /\ r[at] = L
  BY DEF TextInv, Laid
<1>4. PICK m \in 0 .. stringCounter : \E s : Lays(s, m) /\ s[m].g = lastGlyphs
  BY DEF TextInv
<1>5. PICK s : Lays(s, m) /\ s[m].g = lastGlyphs
  BY <1>4
<1>6. text' = text
  BY DEF TextNext, Renderer_DrawText, DrawSpace, DrawNewLine, DrawGlyph, TextReturn, textVars
<1>7. \A q, n : Lays(q, n)' <=> Lays(q, n)
  BY <1>6 DEF Lays
<1>8. L \in Layout
  BY <1>1, <1>2 DEF Layout
<1>9. ASSUME Renderer_DrawText PROVE TextInv'
  <2>1. /\ textPc = "called" /\ stringCounter' = Counted
        /\ at' = 0 /\ textX' = ArgX /\ textY' = ArgY
        /\ glyphs' = <<>> /\ lastGlyphs' = glyphs /\ spaceWrapped' = FALSE
        /\ textPc' = "loop" /\ UNCHANGED <<text, displayType, written>>
    BY <1>9 DEF Renderer_DrawText, StartX
  <2>2. /\ stringCounter' \in 0 .. Len(text) /\ stringCounter =< stringCounter'
        /\ 0 \in 0 .. stringCounter'
    BY <1>1, <2>1, SMT DEF Counted, stringLength
  <2>3. TextTypeOK'
    BY <1>1, <1>2, <1>6, <2>1, <2>2, Measures, EmptySeq DEF TextTypeOK, stringLength
  <2>4. DOMAIN glyphs' = {} /\ Len(glyphs') = 0
    BY <2>1
  <2>5. GlyphsBeginOnScreen' /\ GlyphsShowTheirCharacter'
    BY <2>4, Zenon DEF GlyphsBeginOnScreen, GlyphsShowTheirCharacter
  <2>6. ReadingOrder'
    <3>1. 1 .. Len(glyphs') - 1 = {}
      BY <2>4, SMT
    <3> QED BY <3>1, Zenon DEF ReadingOrder
  <2>7. textX' >= ArgX
    BY <2>1, Measures, SMT
  <2> DEFINE q == [k \in 0 .. 0 |-> Begun]
  <2>8. 0 \in 0 .. 0 /\ 0 .. 0 - 1 = {}
    BY SMT
  <2>9. Lays(q, 0)
    BY <2>8, Zenon DEF Lays
  <2>10. q[0] = [x |-> ArgX, y |-> ArgY, g |-> <<>>]
    BY <2>8 DEF Begun
  <2> HIDE DEF q
  <2>11. [x |-> textX', y |-> textY', g |-> glyphs'] = [x |-> ArgX, y |-> ArgY, g |-> <<>>]
    BY <2>1, Zenon
  <2>12. Lays(q, at')
    BY <2>1, <2>9, Zenon
  <2>13. q[at'] = [x |-> textX', y |-> textY', g |-> glyphs']
    BY <2>1, <2>10, <2>11, Zenon
  <2>14. (\E p : Laid(p, at))'
    BY <1>7, <2>12, <2>13, Zenon DEF Laid
  <2>15. at = stringCounter /\ at \in 0 .. stringCounter'
    BY <1>1, <1>2, <2>1, <2>2, SMT
  <2>16. L.g = glyphs
    OBVIOUS
  <2>17. r[at].g = lastGlyphs'
    BY <1>3, <2>1, <2>16, Zenon
  <2>18. (\E n \in 0 .. stringCounter : \E p : Lays(p, n) /\ p[n].g = lastGlyphs)'
    BY <1>3, <1>7, <2>15, <2>17, Zenon
  <2> QED BY <2>1, <2>3, <2>5, <2>6, <2>7, <2>14, <2>18, Zenon DEF TextInv
<1>10. ASSUME NEW c \in Char, textPc = "loop", at < stringCounter, text[at + 1] = c,
              at' = at + 1, [x |-> textX', y |-> textY', g |-> glyphs'] = After(L, c),
              UNCHANGED <<textPc, text, displayType, stringCounter, written, lastGlyphs>>,
              spaceWrapped' \in BOOLEAN,
              (GlyphsBeginOnScreen /\ ReadingOrder /\ GlyphsShowTheirCharacter)',
              (~spaceWrapped /\ glyphs # <<>> => Behind)'
       PROVE  TextInv'
  <2>1. After(L, c) \in Layout
    BY <1>8, Adding
  <2>2. textX' \in Nat /\ textX' >= ArgX /\ textY' \in Nat /\ glyphs' \in Seq(Glyph)
    BY <1>10, <2>1 DEF Layout
  <2>3. at' \in 0 .. stringCounter'
    BY <1>1, <1>10, SMT
  <2>4. TextTypeOK'
    BY <1>2, <1>10, <2>2, <2>3 DEF TextTypeOK, stringLength
  <2>5. \E q : Lays(q, at + 1) /\ q[at + 1] = After(r[at], text[at + 1])
    BY <1>1, <1>3, LaysOn, Zenon
  <2>6. (\E q : Laid(q, at))'
    BY <1>3, <1>7, <1>10, <2>5, Zenon DEF Laid
  <2>7. (\E n \in 0 .. stringCounter : \E p : Lays(p, n) /\ p[n].g = lastGlyphs)'
    BY <1>5, <1>7, <1>10, Zenon
  <2>8. textPc' # "called"
    BY <1>10
  <2> QED BY <1>10, <2>2, <2>4, <2>6, <2>7, <2>8, Zenon DEF TextInv
<1>11. ASSUME UNCHANGED <<text, glyphs>>, spaceWrapped' \/ spaceWrapped' = spaceWrapped,
              spaceWrapped => spaceWrapped'
       PROVE  (GlyphsBeginOnScreen /\ ReadingOrder /\ GlyphsShowTheirCharacter)'
  BY <1>2, <1>11, ZenonT(60) DEF GlyphsBeginOnScreen, ReadingOrder, GlyphsShowTheirCharacter
<1>12. Space \in Char /\ NewLine \in Char
  BY DEF Char
<1>13. L.x = textX /\ L.y = textY /\ L.g = glyphs
  OBVIOUS
<1>14. glyphs # <<>> => glyphs[Len(glyphs)] \in Glyph
  <2>1. glyphs # <<>> => Len(glyphs) \in 1 .. Len(glyphs)
    BY <1>1, EmptySeq, SMT
  <2> QED BY <1>1, <2>1
<1>15. CASE DrawSpace
  <2>1. /\ textPc = "loop" /\ at < stringCounter /\ text[at + 1] = Space /\ at' = at + 1
        /\ textX' = IF textX + 3 > SCREEN_WIDTH THEN ArgX ELSE textX + 3
        /\ spaceWrapped' = (spaceWrapped \/ textX + 3 > SCREEN_WIDTH)
        /\ UNCHANGED <<textPc, text, displayType, stringCounter, textY, glyphs, written,
                       lastGlyphs>>
    BY <1>15 DEF DrawSpace, Reads
  <2>2. [x |-> textX', y |-> textY', g |-> glyphs'] = After(L, Space)
    BY <1>13, <2>1, Zenon DEF After
  <2>3. spaceWrapped' \in BOOLEAN /\ (spaceWrapped => spaceWrapped')
        /\ (spaceWrapped' \/ spaceWrapped' = spaceWrapped)
    BY <1>2, <2>1, Zenon DEF TextTypeOK
  <2>4. (~spaceWrapped /\ glyphs # <<>> => Behind)'
    <3>1. SUFFICES ASSUME ~spaceWrapped', glyphs # <<>>
                   PROVE  Behind'
      BY <2>1
    <3>2. ~spaceWrapped /\ ~(textX + 3 > SCREEN_WIDTH) /\ textX' = textX + 3
      BY <2>1, <3>1, Zenon
    <3>3. Behind
      BY <1>2, <3>1, <3>2
    <3> DEFINE g == glyphs[Len(glyphs)]
    <3>4. g \in Glyph
      BY <1>14, <3>1
    <3>5. g.x \in Nat /\ charData[g.of].w \in Nat
      BY <3>4, CharWidth DEF Glyph
    <3>6. \/ textY = g.y /\ textX >= g.x + charData[g.of].w
          \/ textY >= g.y + LineHeight
      BY <3>3 DEF Behind
    <3> HIDE DEF g
    <3>7. \/ textY' = g.y /\ textX' >= g.x + charData[g.of].w
          \/ textY' >= g.y + LineHeight
      BY <1>1, <2>1, <3>2, <3>5, <3>6, SMT
    <3> QED BY <2>1, <3>7, Zenon DEF Behind, g
  <2> QED BY <1>10, <1>11, <1>12, <2>1, <2>2, <2>3, <2>4, Zenon
<1>16. CASE DrawNewLine
  <2>1. /\ textPc = "loop" /\ at < stringCounter /\ text[at + 1] = NewLine /\ at' = at + 1
        /\ textX' = ArgX /\ textY' = textY + LineHeight
        /\ UNCHANGED <<textPc, text, displayType, stringCounter, glyphs, written,
                       lastGlyphs, spaceWrapped>>
    BY <1>16 DEF DrawNewLine, Reads
  <2>2. [x |-> textX', y |-> textY', g |-> glyphs'] = After(L, NewLine)
    <3>1. NewLine # Space
      BY DEF NewLine, Space
    <3> QED BY <1>13, <2>1, <3>1, Zenon DEF After
  <2>3. spaceWrapped' \in BOOLEAN
    BY <1>2, <2>1 DEF TextTypeOK
  <2>4. (~spaceWrapped /\ glyphs # <<>> => Behind)'
    <3>1. SUFFICES ASSUME ~spaceWrapped, glyphs # <<>>
                   PROVE  Behind'
      BY <2>1
    <3>2. Behind
      BY <1>2, <3>1
    <3> DEFINE g == glyphs[Len(glyphs)]
    <3>4. g \in Glyph
      BY <1>14, <3>1
    <3>5. g.y \in Nat
      BY <3>4 DEF Glyph
    <3>6. textY = g.y \/ textY >= g.y + LineHeight
      BY <3>2 DEF Behind
    <3> HIDE DEF g
    <3>7. textY' >= g.y + LineHeight
      BY <1>1, <2>1, <3>5, <3>6, Measures, SMT
    <3> QED BY <2>1, <3>7, Zenon DEF Behind, g
  <2> QED BY <1>10, <1>11, <1>12, <2>1, <2>2, <2>3, <2>4, Zenon
<1>17. ASSUME NEW c \in DOMAIN charData, DrawGlyph(c) PROVE TextInv'
  <2> DEFINE h == GlyphAt(L, c)
  <2>1. /\ textPc = "loop" /\ at < stringCounter /\ text[at + 1] = c /\ at' = at + 1
        /\ glyphs' = Append(glyphs, h)
        /\ textX' = h.x + charData[c].w /\ textY' = h.y
        /\ UNCHANGED <<textPc, text, displayType, stringCounter, written, lastGlyphs,
                       spaceWrapped>>
    BY <1>13, <1>17, Zenon DEF DrawGlyph, Reads, GlyphAt, FullAt, LineFull, WrapY
  <2>2. [x |-> textX', y |-> textY', g |-> glyphs'] = After(L, c)
    BY <1>13, <2>1, CharWidth, Zenon DEF After
  <2>3. /\ h \in Glyph /\ h.x \in ArgX .. SCREEN_WIDTH - 1
        /\ h.x \in Nat /\ h.y \in Nat
    BY <1>8, GlyphIsOne DEF Glyph
  <2>4. /\ h.of = c /\ h.u = charData[c].u + imageOffsetX
        /\ h.v = charData[c].v + imageOffsetY
        /\ h.x = IF textX >= SCREEN_WIDTH THEN ArgX ELSE textX
        /\ h.y = IF textX >= SCREEN_WIDTH THEN textY + LineHeight ELSE textY
    BY <1>13, Zenon DEF GlyphAt, FullAt
  <2> HIDE DEF h, L
  <2>5. /\ Len(glyphs') = Len(glyphs) + 1 /\ DOMAIN glyphs' = 1 .. Len(glyphs) + 1
        /\ \A k \in 1 .. Len(glyphs) : glyphs'[k] = glyphs[k]
        /\ glyphs'[Len(glyphs) + 1] = h /\ glyphs' # <<>>
    BY <1>1, <2>1, <2>3, AppendProperties
  <2>6. \A k \in 1 .. Len(glyphs) + 1 : k \in 1 .. Len(glyphs) \/ k = Len(glyphs) + 1
    BY <1>1, SMT
  <2>7. GlyphsBeginOnScreen'
    BY <1>1, <1>2, <2>3, <2>5, <2>6, Zenon DEF GlyphsBeginOnScreen
  <2>8. GlyphsShowTheirCharacter'
    <3>1. /\ (tPageX - FONTVRAM_X) * 4 + h.u = charData[h.of].u
          /\ tPageY - FONTVRAM_Y + h.v = charData[h.of].v
          /\ h.u + charData[h.of].w =< 256 /\ h.v + charHeight =< 256
      BY <2>4, CharWidth, Measures, SMT
    <3> QED BY <1>1, <1>2, <2>5, <2>6, <3>1, ZenonT(60) DEF GlyphsShowTheirCharacter
  <2>9. ReadingOrder'
    <3> SUFFICES ASSUME ~spaceWrapped', NEW k \in 1 .. Len(glyphs') - 1
                 PROVE  LET g == glyphs'[k]
                            f == glyphs'[k + 1]
                        IN \/ f.y = g.y /\ f.x >= g.x + charData[g.of].w
                           \/ f.y >= g.y + LineHeight
      BY DEF ReadingOrder
    <3>1. ~spaceWrapped
      BY <2>1
    <3>2. CASE k \in 1 .. Len(glyphs) - 1
      <4>1. k \in 1 .. Len(glyphs) /\ k + 1 \in 1 .. Len(glyphs)
        BY <1>1, <3>2, SMT
      <4>2. glyphs'[k] = glyphs[k] /\ glyphs'[k + 1] = glyphs[k + 1]
        BY <2>5, <4>1
      <4> QED BY <1>2, <3>1, <3>2, <4>2, Zenon DEF ReadingOrder
    <3>3. CASE k = Len(glyphs)
      <4>1. k \in 1 .. Len(glyphs)
        BY <1>1, <2>5, <3>3, SMT
      <4>2. glyphs # <<>>
        BY <1>1, <4>1, EmptySeq, SMT
      <4>3. Behind /\ glyphs[k] \in Glyph
        BY <1>1, <1>2, <3>1, <4>1, <4>2
      <4> DEFINE g == glyphs[k]
      <4>4. \/ textY = g.y /\ textX >= g.x + charData[g.of].w
            \/ textY >= g.y + LineHeight
        BY <3>3, <4>3 DEF Behind
      <4>5. g.y \in Nat /\ g.x \in Nat /\ charData[g.of].w \in Nat
        BY <4>3, CharWidth DEF Glyph
      <4> HIDE DEF g
      <4>6. \/ h.y = g.y /\ h.x >= g.x + charData[g.of].w
            \/ h.y >= g.y + LineHeight
        BY <1>1, <2>4, <4>4, <4>5, Measures, SMT
      <4>7. glyphs'[k] = g /\ glyphs'[k + 1] = h
        BY <2>5, <3>3, <4>1 DEF g
      <4> QED BY <4>6, <4>7, Zenon
    <3>4. k \in 1 .. Len(glyphs) - 1 \/ k = Len(glyphs)
      <4> DEFINE n == Len(glyphs)
      <4>1. n \in Nat /\ k \in 1 .. (n + 1) - 1
        BY <1>1, <2>5, Zenon
      <4> HIDE DEF n
      <4>2. k \in 1 .. n - 1 \/ k = n
        BY <4>1, SMT
      <4> QED BY <4>2 DEF n
    <3> QED BY <3>2, <3>3, <3>4, Zenon
  <2>10. Behind'
    <3>1. textX' >= h.x + charData[h.of].w /\ textY' = h.y
      BY <2>1, <2>3, <2>4, CharWidth, SMT
    <3>2. glyphs'[Len(glyphs')] = h
      BY <2>5
    <3> QED BY <3>1, <3>2, Zenon DEF Behind
  <2>11. c \in Char
    BY DEF Char
  <2>12. spaceWrapped' \in BOOLEAN
    BY <1>2, <2>1 DEF TextTypeOK
  <2> QED BY <1>10, <2>1, <2>2, <2>7, <2>8, <2>9, <2>10, <2>11, <2>12, Zenon DEF L
<1>18. ASSUME UNCHANGED <<text, displayType, stringCounter, at, textX, textY, glyphs,
                          lastGlyphs, spaceWrapped>>,
              written' \in {0, 1}, textPc' \in {"called", "loop"},
              textPc' = "called" => at = stringCounter
       PROVE  TextInv'
  <2>1. TextTypeOK'
    BY <1>2, <1>18 DEF TextTypeOK, stringLength
  <2>2. GlyphsBeginOnScreen' /\ ReadingOrder' /\ GlyphsShowTheirCharacter'
    BY <1>2, <1>18, Zenon DEF GlyphsBeginOnScreen, ReadingOrder, GlyphsShowTheirCharacter
  <2>3. (~spaceWrapped /\ glyphs # <<>> => Behind)'
    BY <1>2, <1>18, Zenon DEF Behind
  <2>4. (\E p : Laid(p, at))'
    BY <1>3, <1>7, <1>18, Zenon DEF Laid
  <2>5. (\E n \in 0 .. stringCounter : \E p : Lays(p, n) /\ p[n].g = lastGlyphs)'
    BY <1>5, <1>7, <1>18, Zenon
  <2>6. textX' >= ArgX /\ (textPc = "called" => at = stringCounter)'
    BY <1>2, <1>18, Zenon
  <2> QED BY <2>1, <2>2, <2>3, <2>4, <2>5, <2>6, Zenon DEF TextInv
<1>19. CASE TextReturn
  BY <1>18, <1>19 DEF TextReturn
<1>20. CASE UNCHANGED textVars
  <2>1. written \in {0, 1} /\ textPc \in {"called", "loop"}
    BY <1>2 DEF TextTypeOK
  <2> QED BY <1>2, <1>18, <1>20, <2>1 DEF textVars
<1> QED BY <1>9, <1>15, <1>16, <1>17, <1>19, <1>20 DEF TextNext

(* Every text of the characters of the font, on any screen and wherever it  *)
(* begins: its glyphs begin on the screen, stand in reading order, show     *)
(* their characters, and stay where they are while more are typed           *)
(* (font.c:13-104).                                                         *)
THEOREM ReadsTheText == TextSpec => []TextIsRead
<1>1. TextSpec => []TextInv
  BY TextInitInv, TextStep, PTL DEF TextSpec
<1> QED BY <1>1, TextInvGivesReading, PTL

-----------------------------------------------------------------------------
(* The frame's slices one after the other, image by image.                 *)

(* Sequences are joined one after the other; the recursion has a solution. *)
Joins(g, s, n) == g = [k \in 1 .. n |-> IF k = 1 THEN s[k] ELSE g[k - 1] \o s[k]]

LEMMA JoinedExists ==
  ASSUME NEW s, NEW n \in Nat
  PROVE  \E g : Joins(g, s, n)
<1> DEFINE T == {k \in Nat : ~ \E g : Joins(g, s, k)}
<1> USE DEF Joins
<1>1. SUFFICES ASSUME T # {} PROVE FALSE
  OBVIOUS
<1>2. PICK k \in T : \A m \in T : k =< m
  BY <1>1, LeastExists
<1>3. CASE k = 0
  <2> DEFINE g == [m \in 1 .. 0 |-> s]
  <2>1. Joins(g, s, 0)
    <3>1. 1 .. 0 = {}
      BY SMT
    <3> QED BY <3>1
  <2> QED BY <1>2, <1>3, <2>1
<1>4. CASE k # 0
  <2>1. k - 1 \in Nat /\ ~(k =< k - 1)
    BY <1>2, <1>4, SMT
  <2>2. PICK g : Joins(g, s, k - 1)
    BY <1>2, <2>1
  <2> DEFINE h == [m \in 1 .. k |-> IF m = k THEN (IF k = 1 THEN s[k] ELSE g[k - 1] \o s[k])
                                             ELSE g[m]]
             S == [m \in 1 .. k |-> IF m = 1 THEN s[m] ELSE h[m - 1] \o s[m]]
  <2>3. ASSUME NEW m \in 1 .. k PROVE h[m] = S[m]
    <3>1. CASE m = 1
      <4>1. m # k => m \in 1 .. k - 1
        BY <2>1, <3>1, SMT
      <4>2. m # k => g[m] = s[m]
        BY <2>2, <3>1, <4>1
      <4>3. S[m] = s[m]
        BY <3>1
      <4> QED BY <3>1, <4>2, <4>3
    <3>2. CASE m # 1 /\ m = k
      <4>1. k - 1 \in 1 .. k /\ k - 1 # k
        BY <2>1, <3>2, SMT
      <4>2. h[k - 1] = g[k - 1] /\ h[m] = g[k - 1] \o s[k]
        BY <3>2, <4>1
      <4> HIDE DEF h
      <4>3. S[m] = h[k - 1] \o s[k]
        BY <3>2
      <4> QED BY <4>2, <4>3
    <3>3. CASE m # 1 /\ m # k
      <4>1. m \in 1 .. k - 1 /\ m - 1 \in 1 .. k /\ m - 1 # k
        BY <1>2, <3>3, SMT
      <4>2. g[m] = g[m - 1] \o s[m]
        BY <2>2, <3>3, <4>1
      <4>3. h[m] = g[m] /\ h[m - 1] = g[m - 1]
        BY <3>3, <4>1
      <4> HIDE DEF h
      <4>4. S[m] = h[m - 1] \o s[m]
        BY <3>3
      <4> QED BY <4>2, <4>3, <4>4
    <3> QED BY <3>1, <3>2, <3>3
  <2>4. h = S
    BY <2>3
  <2>5. Joins(h, s, k)
    BY <2>4
  <2> QED BY <1>2, <2>5
<1> QED BY <1>3, <1>4

(* Where each sequence begins, and that its elements follow from there.     *)
Flattens(s, t, a) ==
  /\ a \in [0 .. Len(s) -> Nat] /\ a[0] = 0 /\ Len(t) = a[Len(s)]
  /\ \A n \in 1 .. Len(s) : a[n] = a[n - 1] + Len(s[n]) /\ a[n] =< Len(t)
  /\ \A n \in 1 .. Len(s) : \A m \in 1 .. Len(s[n]) : t[a[n - 1] + m] = s[n][m]

LEMMA Flattened ==
  ASSUME NEW S, NEW s \in Seq(Seq(S))
  PROVE  FlattenSeq(s) \in Seq(S) /\ \E a : Flattens(s, FlattenSeq(s), a)
<1> DEFINE n == Len(s)
           R(g) == [k \in 1 .. n |-> IF k = 1 THEN s[k] ELSE g[k - 1] \o s[k]]
           joined == CHOOSE g : g = R(g)
<1>1. n \in Nat /\ \A k \in 1 .. n : s[k] \in Seq(S) /\ Len(s[k]) \in Nat
  BY LenProperties, ElementOfSeq
<1>2. CASE n = 0
  <2>1. FlattenSeq(s) = s /\ s = <<>>
    BY <1>2, EmptySeq DEF FlattenSeq
  <2> DEFINE a == [k \in 0 .. 0 |-> 0]
  <2>2. Len(s) = 0 /\ 1 .. 0 = {} /\ a \in [0 .. 0 -> Nat] /\ a[0] = 0
    BY <1>2, SMT
  <2>3. Flattens(s, s, a)
    BY <2>2 DEF Flattens
  <2> QED BY <2>1, <2>3, EmptySeq
<1>3. CASE n # 0
  <2>1. FlattenSeq(s) = joined[n]
    BY <1>3 DEF FlattenSeq
  <2> HIDE DEF n
  <2>2. joined = R(joined)
    <3>1. PICK g : Joins(g, s, n)
      BY <1>1, JoinedExists
    <3>2. g = R(g)
      BY <3>1 DEF Joins
    <3>3. \E f : f = R(f)
      BY <3>2
    <3> QED BY <3>3
  <2> HIDE DEF joined
  <2>3. joined[1] = s[1] /\ 1 \in 1 .. n /\ n \in 1 .. n
    BY <1>1, <1>3, <2>2
  <2>4. ASSUME NEW k \in 2 .. n PROVE joined[k] = joined[k - 1] \o s[k]
    <3>1. k \in 1 .. n /\ k # 1
      BY <1>1, SMT
    <3> QED BY <2>2, <3>1
  <2>5. \A k \in 1 .. n : joined[k] \in Seq(S)
    <3> DEFINE T == {k \in 1 .. n : joined[k] \notin Seq(S)}
    <3>1. SUFFICES ASSUME T # {} PROVE FALSE
      OBVIOUS
    <3>2. PICK k \in T : \A m \in T : k =< m
      <4>1. T \subseteq Nat
        BY <1>1
      <4> QED BY <3>1, <4>1, LeastExists
    <3>3. k \in 2 .. n /\ k - 1 \in 1 .. n /\ ~(k =< k - 1) /\ k \in 1 .. n
      BY <1>1, <2>3, <3>2
    <3>4. joined[k - 1] \in Seq(S) /\ s[k] \in Seq(S)
      BY <1>1, <3>2, <3>3
    <3>5. joined[k] \in Seq(S)
      BY <2>4, <3>3, <3>4, ConcatProperties
    <3> QED BY <3>2, <3>5
  <2> DEFINE a == [k \in 0 .. n |-> IF k = 0 THEN 0 ELSE Len(joined[k])]
  <2>6. a \in [0 .. n -> Nat] /\ a[0] = 0
    BY <1>1, <2>5, LenProperties
  <2>7. \A k \in 1 .. n : a[k] = Len(joined[k])
    BY <1>1
  <2> HIDE DEF a
  <2>8. \A k \in 1 .. n : a[k] = a[k - 1] + Len(s[k])
    <3> SUFFICES ASSUME NEW k \in 1 .. n PROVE a[k] = a[k - 1] + Len(s[k])
      OBVIOUS
    <3>1. CASE k = 1
      <4>1. k - 1 = 0 /\ Len(s[k]) \in Nat
        BY <1>1, <3>1, SMT
      <4>2. a[k] = Len(s[k])
        BY <2>3, <2>7, <3>1
      <4> QED BY <2>6, <4>1, <4>2, SMT
    <3>2. CASE k # 1
      <4>1. k \in 2 .. n /\ k - 1 \in 1 .. n
        BY <1>1, <3>2, SMT
      <4>2. joined[k - 1] \in Seq(S) /\ s[k] \in Seq(S)
        BY <1>1, <2>5, <4>1
      <4>3. Len(joined[k - 1] \o s[k]) = Len(joined[k - 1]) + Len(s[k])
        BY <4>2, ConcatProperties
      <4>4. joined[k] = joined[k - 1] \o s[k]
        BY <2>4, <4>1
      <4>5. a[k] = Len(joined[k]) /\ a[k - 1] = Len(joined[k - 1])
        BY <2>7, <4>1
      <4> QED BY <4>3, <4>4, <4>5
    <3> QED BY <3>1, <3>2
  <2> DEFINE Begins(k, l) ==   \* joined[l] begins with joined[k]
        a[k] =< a[l] /\ \A m \in 1 .. a[k] : joined[l][m] = joined[k][m]
  <2>9. ASSUME NEW k \in 1 .. n, NEW l \in k .. n PROVE Begins(k, l)
    <3> DEFINE T == {p \in k .. n : ~Begins(k, p)}
    <3>1. SUFFICES ASSUME T # {} PROVE FALSE
      OBVIOUS
    <3>2. PICK p \in T : \A m \in T : p =< m
      <4>1. T \subseteq Nat
        BY <1>1, SMT
      <4> QED BY <3>1, <4>1, LeastExists
    <3>3. k \in Nat /\ n \in Nat /\ p \in Nat /\ p \in k .. n /\ ~Begins(k, p) /\ a[k] \in Nat
      <4>1. k \in 0 .. n
        BY <1>1, SMT
      <4> QED BY <1>1, <2>6, <3>2, <4>1
    <3>4. p # k
      BY <3>3, SMT
    <3>5. p \in 2 .. n /\ p - 1 \in k .. n /\ p - 1 \in 1 .. n /\ p \in 1 .. n /\ ~(p =< p - 1)
      BY <3>3, <3>4, SMT
    <3>6. Begins(k, p - 1)
      BY <3>2, <3>5
    <3>7. joined[p - 1] \in Seq(S) /\ s[p] \in Seq(S) /\ joined[p] = joined[p - 1] \o s[p]
      BY <1>1, <2>4, <2>5, <3>5
    <3>8. a[p - 1] = Len(joined[p - 1]) /\ a[p - 1] \in Nat /\ Len(s[p]) \in Nat
      <4>1. p - 1 \in 0 .. n
        BY <3>5, SMT
      <4> QED BY <1>1, <2>6, <2>7, <3>5, <4>1
    <3>9. a[p - 1] =< a[p]
      BY <2>8, <3>5, <3>8, SMT
    <3>10. ASSUME NEW m \in 1 .. a[k] PROVE joined[p][m] = joined[k][m]
      <4> DEFINE q == Len(joined[p - 1])
      <4>0. a[k] =< q /\ q \in Nat /\ Len(s[p]) \in Nat /\ a[k] \in Nat
        BY <3>3, <3>6, <3>8
      <4> HIDE DEF q
      <4>1. m \in 1 .. q /\ m \in 1 .. q + Len(s[p])
        BY <4>0, SMT
      <4> USE DEF q
      <4>2. joined[p][m] = joined[p - 1][m]
        BY <3>7, <4>1, ConcatProperties
      <4> QED BY <3>6, <4>2
    <3>11. a[p] \in Nat /\ a[k] =< a[p]
      <4>1. p \in 0 .. n
        BY <3>5, SMT
      <4>2. a[p] \in Nat
        BY <2>6, <4>1
      <4> QED BY <3>3, <3>6, <3>8, <3>9, <4>2, SMT
    <3> QED BY <3>3, <3>10, <3>11
  <2>10. ASSUME NEW k \in 1 .. n, NEW m \in 1 .. Len(s[k])
         PROVE  joined[n][a[k - 1] + m] = s[k][m]
    <3>1. k \in 0 .. n /\ k - 1 \in 0 .. n /\ n \in k .. n
      BY <1>1, SMT
    <3>2. a[k] \in Nat /\ a[k - 1] \in Nat /\ Len(s[k]) \in Nat /\ a[k] = a[k - 1] + Len(s[k])
      BY <1>1, <2>6, <2>8, <3>1
    <3>3. a[k - 1] + m \in 1 .. a[k]
      BY <3>2, SMT
    <3>4. joined[n][a[k - 1] + m] = joined[k][a[k - 1] + m]
      BY <2>9, <3>1, <3>3
    <3>5. CASE k = 1
      <4>1. a[k - 1] = 0
        BY <2>6, <3>5
      <4>2. a[k - 1] + m = m
        BY <4>1, SMT
      <4> QED BY <2>3, <3>4, <3>5, <4>2
    <3>6. CASE k # 1
      <4>1. k \in 2 .. n /\ k - 1 \in 1 .. n
        BY <1>1, <3>6, SMT
      <4>2. joined[k - 1] \in Seq(S) /\ s[k] \in Seq(S) /\ joined[k] = joined[k - 1] \o s[k]
            /\ a[k - 1] = Len(joined[k - 1])
        BY <1>1, <2>4, <2>5, <2>7, <4>1
      <4> DEFINE x == a[k - 1] + m
      <4>3. x \in 1 .. Len(joined[k - 1]) + Len(s[k]) /\ ~(x =< Len(joined[k - 1]))
            /\ x - Len(joined[k - 1]) = m
        <5> DEFINE q == Len(joined[k - 1])
        <5>1. q \in Nat /\ Len(s[k]) \in Nat /\ x = q + m
          BY <3>2, <4>2
        <5> HIDE DEF q, x
        <5>2. x \in 1 .. q + Len(s[k]) /\ ~(x =< q) /\ x - q = m
          BY <5>1, SMT
        <5> QED BY <5>2 DEF q
      <4> HIDE DEF x
      <4>4. joined[k][x] = s[k][m]
        BY <4>2, <4>3, ConcatProperties
      <4> QED BY <3>4, <4>4 DEF x
    <3> QED BY <3>5, <3>6
  <2>11. \A k \in 1 .. n : a[k] =< a[n]
    <3> SUFFICES ASSUME NEW k \in 1 .. n PROVE a[k] =< a[n]
      OBVIOUS
    <3>1. n \in k .. n
      BY <1>1, SMT
    <3> QED BY <2>9, <3>1
  <2>12. Len(joined[n]) = a[n] /\ joined[n] \in Seq(S)
    BY <2>3, <2>5, <2>7
  <2>13. Flattens(s, joined[n], a)
    BY <2>6, <2>8, <2>10, <2>11, <2>12 DEF Flattens, n
  <2> QED BY <2>1, <2>12, <2>13
<1> QED BY <1>2, <1>3

-----------------------------------------------------------------------------
(* What a frame is made of.                                                *)
N == TEXTABLE_SIZE
SlicePages == STRING \cup {TextPage}
Pieces == [sprt : [of : SlicePages, part : Nat, semi : BOOLEAN], page : SlicePages]
PartsOf(f) == [n \in DOMAIN f.images |-> Parts(f.images[n])]

(* The slices of the images before image n + 1. *)
SlicesBefore(f) == CHOOSE a : Flattens(PartsOf(f), ImageParts(f), a)

LEMMA FrameFacts ==
  ASSUME NEW f \in Frames
  PROVE  /\ N \in Nat \ {0} /\ f.glyphs \in Nat /\ Len(f.images) \in Nat
         /\ ImageParts(f) \in Seq(Pieces) /\ Len(ImageParts(f)) \in Nat
         /\ \A n \in 1 .. Len(f.images) : f.images[n].slices \in Nat
         /\ SlicesBefore(f) \in [0 .. Len(f.images) -> Nat]
         /\ SlicesBefore(f)[0] = 0 /\ SlicesBefore(f)[Len(f.images)] = Len(ImageParts(f))
         /\ \A n \in 1 .. Len(f.images) :
              /\ SlicesBefore(f)[n] = SlicesBefore(f)[n - 1] + f.images[n].slices
              /\ SlicesBefore(f)[n] =< Len(ImageParts(f))
              /\ \A m \in 1 .. f.images[n].slices :
                   ImageParts(f)[SlicesBefore(f)[n - 1] + m] =
                     [sprt |-> NewSprite(f.images[n].page, m, f.images[n].semi),
                      page |-> f.images[n].page]
<1>1. N \in Nat \ {0} /\ f.glyphs \in Nat
      /\ f.images \in Seq([slices : Nat, page : STRING, semi : BOOLEAN])
  BY TableAssumption, FramesAssumption DEF N
<1>2. Len(f.images) \in Nat /\ DOMAIN f.images = 1 .. Len(f.images)
      /\ \A n \in 1 .. Len(f.images) :
           f.images[n] \in [slices : Nat, page : STRING, semi : BOOLEAN]
  BY <1>1, LenProperties, ElementOfSeq
<1>3. ASSUME NEW n \in 1 .. Len(f.images)
      PROVE  /\ Parts(f.images[n]) \in Seq(Pieces)
             /\ Len(Parts(f.images[n])) = f.images[n].slices
  <2> DEFINE im == f.images[n]
             P(m) == [sprt |-> NewSprite(im.page, m, im.semi), page |-> im.page]
  <2>1. im.slices \in Nat /\ im.page \in STRING /\ im.semi \in BOOLEAN
    BY <1>2
  <2> HIDE DEF im
  <2>2. \A m \in 1 .. im.slices : P(m) \in Pieces
    BY <2>1 DEF Pieces, NewSprite, SlicePages
  <2>3. Parts(im) = [m \in 1 .. im.slices |-> P(m)]
    BY DEF Parts
  <2> HIDE DEF P
  <2>4. Parts(im) \in [1 .. im.slices -> Pieces]
    BY <2>2, <2>3
  <2>5. Parts(im) \in Seq(Pieces)
    BY <2>1, <2>4, SeqDef
  <2> QED BY <2>1, <2>4, <2>5, LenProperties DEF im
<1> DEFINE s == PartsOf(f)
           t == ImageParts(f)
           a == SlicesBefore(f)
<1>4. s \in Seq(Seq(Pieces)) /\ Len(s) = Len(f.images)
      /\ \A n \in 1 .. Len(f.images) : s[n] = Parts(f.images[n])
  <2>1. \A n \in 1 .. Len(f.images) : s[n] = Parts(f.images[n])
    BY <1>2 DEF PartsOf
  <2>2. s \in [1 .. Len(f.images) -> Seq(Pieces)]
    BY <1>2, <1>3 DEF PartsOf
  <2>3. s \in Seq(Seq(Pieces))
    BY <1>2, <2>2, SeqDef
  <2> QED BY <1>2, <2>1, <2>2, <2>3, LenProperties
<1>5. t = FlattenSeq(s)
  BY DEF ImageParts, PartsOf
<1>6. t \in Seq(Pieces) /\ \E b : Flattens(s, t, b)
  BY <1>4, <1>5, Flattened
<1>7. Flattens(s, t, a)
  BY <1>6 DEF SlicesBefore
<1> HIDE DEF s, t, a
<1>8. /\ a \in [0 .. Len(f.images) -> Nat] /\ a[0] = 0 /\ a[Len(f.images)] = Len(t)
      /\ \A n \in 1 .. Len(f.images) :
           /\ a[n] = a[n - 1] + f.images[n].slices /\ a[n] =< Len(t)
           /\ \A m \in 1 .. f.images[n].slices : t[a[n - 1] + m] = s[n][m]
  BY <1>3, <1>4, <1>7 DEF Flattens
<1>9. ASSUME NEW n \in 1 .. Len(f.images), NEW m \in 1 .. f.images[n].slices
      PROVE  t[a[n - 1] + m] = [sprt |-> NewSprite(f.images[n].page, m, f.images[n].semi),
                                page |-> f.images[n].page]
  <2>1. t[a[n - 1] + m] = Parts(f.images[n])[m]
    BY <1>4, <1>8
  <2> QED BY <2>1 DEF Parts
<1>10. Len(t) \in Nat
  BY <1>6, LenProperties
<1> QED BY <1>1, <1>2, <1>6, <1>8, <1>9, <1>10 DEF t, a

(* The text is painted last, and it begins with the glyph drawn last.      *)
SlicesShown(f) ==
  IF Len(ImageParts(f)) < Room(f) THEN Len(ImageParts(f)) ELSE Room(f)
GlyphPiece(n) == [sprt |-> NewSprite(TextPage, n, TRUE), page |-> TextPage]

LEMMA PictureIs ==
  ASSUME NEW f \in Frames
  PROVE  LET d == SlicesShown(f)
             g == f.glyphs
         IN  /\ d \in Nat /\ d =< Len(ImageParts(f)) /\ Room(f) \in Nat
             /\ Picture(f) = [k \in 1 .. d + g |->
                                IF k =< d THEN ImageParts(f)[d - k + 1]
                                          ELSE GlyphPiece((d + g) - k + 1)]
<1> DEFINE d == SlicesShown(f)
           g == f.glyphs
           t == ImageParts(f)
           u == TextParts(f)
           v == SubSeq(t, 1, d)
<1>1. g \in Nat /\ t \in Seq(Pieces) /\ Len(t) \in Nat /\ N \in Nat \ {0}
  BY FrameFacts
<1>2. Room(f) \in Nat
  BY <1>1, SMT DEF Room, N
<1>3. d \in Nat /\ d =< Len(t)
  BY <1>1, <1>2, SMT DEF SlicesShown
<1>4. v \in Seq(Pieces) /\ Len(v) = d /\ \A k \in 1 .. d : v[k] = t[k]
  <2>1. v = [k \in 1 .. d |-> t[k]]
    <3>1. 1 \in 1 .. Len(t) + 1 /\ d \in 1 - 1 .. Len(t)
      BY <1>1, <1>3, SMT
    <3> HIDE DEF t, d
    <3>2. v = [k \in 1 .. d - 1 + 1 |-> t[1 + k - 1]]
      BY <1>1, <1>3, SMT
    <3>3. d - 1 + 1 = d /\ \A k \in 1 .. d : 1 + k - 1 = k
      BY <1>3, SMT
    <3> QED BY <3>2, <3>3
  <2>2. \A k \in 1 .. d : t[k] \in Pieces
    <3> SUFFICES ASSUME NEW k \in 1 .. d PROVE t[k] \in Pieces
      OBVIOUS
    <3>1. k \in 1 .. Len(t)
      BY <1>1, <1>3, SMT
    <3> QED BY <1>1, <3>1, ElementOfSeq
  <2> HIDE DEF v, d, t
  <2>3. v \in [1 .. d -> Pieces]
    BY <2>1, <2>2
  <2>4. v \in Seq(Pieces)
    BY <1>3, <2>3, SeqDef
  <2> QED BY <1>3, <2>1, <2>3, <2>4, LenProperties
<1>5. u \in Seq(Pieces) /\ Len(u) = g /\ \A k \in 1 .. g : u[k] = GlyphPiece(k)
  <2>1. \A k \in 1 .. g : GlyphPiece(k) \in Pieces
    BY DEF GlyphPiece, NewSprite, Pieces, SlicePages
  <2>2. u = [k \in 1 .. g |-> GlyphPiece(k)]
    BY DEF TextParts, GlyphPiece
  <2> HIDE DEF u, g
  <2>3. u \in [1 .. g -> Pieces]
    BY <2>1, <2>2
  <2>4. u \in Seq(Pieces)
    BY <1>1, <2>3, SeqDef
  <2> QED BY <1>1, <2>2, <2>3, <2>4, LenProperties
<1>6. Picture(f) = Reverse(u \o v)
  BY DEF Picture, SlicesShown
<1> DEFINE w == u \o v
<1> HIDE DEF u, v, d, g, t
<1>7. w \in Seq(Pieces) /\ Len(w) = g + d
      /\ \A k \in 1 .. g + d : w[k] = IF k =< g THEN u[k] ELSE v[k - g]
  <2>1. /\ w \in Seq(Pieces) /\ Len(w) = Len(u) + Len(v)
        /\ \A k \in 1 .. Len(u) + Len(v) : w[k] = IF k =< Len(u) THEN u[k] ELSE v[k - Len(u)]
    BY <1>4, <1>5, ConcatProperties
  <2> HIDE DEF w
  <2> QED BY <1>4, <1>5, <2>1
<1> HIDE DEF w
<1> DEFINE R(x) == [k \in 1 .. x |-> w[x - k + 1]]
<1>8. Picture(f) = R(d + g)
  <2>1. Picture(f) = R(Len(w))
    BY <1>6 DEF w, Reverse
  <2>2. Len(w) = d + g
    <3>1. g + d = d + g
      BY <1>1, <1>3
    <3> QED BY <1>7, <3>1
  <2> HIDE DEF R
  <2> QED BY <2>1, <2>2
<1>9. ASSUME NEW k \in 1 .. d + g
      PROVE  w[(d + g) - k + 1] = IF k =< d THEN t[d - k + 1] ELSE GlyphPiece((d + g) - k + 1)
  <2> DEFINE q == (d + g) - k + 1
  <2>1. q \in 1 .. g + d /\ (k =< d <=> ~(q =< g)) /\ q - g = d - k + 1
        /\ (q =< g => q \in 1 .. g) /\ (~(q =< g) => q - g \in 1 .. d)
    BY <1>1, <1>3, SMT
  <2> HIDE DEF q
  <2>2. w[q] = IF q =< g THEN u[q] ELSE v[q - g]
    BY <1>7, <2>1
  <2>3. CASE k =< d
    BY <1>4, <2>1, <2>2, <2>3 DEF q
  <2>4. CASE ~(k =< d)
    BY <1>5, <2>1, <2>2, <2>4 DEF q
  <2> QED BY <2>3, <2>4 DEF q
<1>10. Picture(f) = [k \in 1 .. d + g |-> IF k =< d THEN t[d - k + 1]
                                                   ELSE GlyphPiece((d + g) - k + 1)]
  <2>1. R(d + g) = [k \in 1 .. d + g |-> w[(d + g) - k + 1]]
    OBVIOUS
  <2> HIDE DEF R
  <2> QED BY <1>8, <1>9, <2>1
<1> QED BY <1>2, <1>3, <1>10 DEF d, g, t

-----------------------------------------------------------------------------
(* The tables hold the frame in the order it is drawn in: glyph m at entry  *)
(* m, slice m at the m-th entry after the glyphs.  The first glyph without  *)
(* an entry is at NULL, the next links NULL to itself.                      *)
TextFrom(k) == IF k = 0 THEN End ELSE Sprite(k)
TextTop(k) == IF k =< N THEN TextFrom(k) ELSE Sprite(N)
TextLinked(l, s, k) ==   \* k glyphs on links l, with sprites s
  /\ k =< N => \A m \in 1 .. k : /\ l[Sprite(m)] = TextFrom(m - 1)
                                 /\ s[m] = NewSprite(TextPage, m, TRUE)
  /\ k > N => l[Sprite(N)] = Sprite(N)

SliceAt(f, m) == IF m = 0 THEN Page(0) ELSE Page(f.glyphs + m)
SliceLinked(f, l, s, t, m) ==   \* slice m of frame f
  LET e == f.glyphs + m
  IN  /\ l[Sprite(e)] = SliceAt(f, m - 1) /\ l[Page(e)] = Sprite(e)
      /\ s[e] = ImageParts(f)[m].sprt /\ t[e] = ImageParts(f)[m].page

Unseen == gpu = Idle /\ painted = <<>>
Fresh ==
  /\ Unseen /\ spriteTableIndex = 0 /\ link[OT] = End
  /\ glyph = 0 /\ picture = 1 /\ slice = 0
Writing ==
  /\ Unseen /\ picture = 1 /\ slice = 0 /\ textEntry = 0 /\ tPage[0] = TextPage
  /\ spriteTableIndex = IF glyph < N THEN glyph + 1 ELSE N
  /\ TextLinked(link, sprt, glyph) /\ link[OT] = TextTop(glyph)

(* The text and d slices are built. *)
Built(d) ==
  /\ textEntry = 0 /\ tPage[0] = TextPage
  /\ link[Page(0)] = TextTop(frame.glyphs) /\ TextLinked(link, sprt, frame.glyphs)
  /\ spriteTableIndex = IF frame.glyphs + 1 < N THEN frame.glyphs + 1 + d ELSE N
  /\ link[OT] = SliceAt(frame, d)
  /\ \A m \in 1 .. d : SliceLinked(frame, link, sprt, tPage, m)

(* The images the loop has passed. *)
Passed == SlicesBefore(frame)[picture - 1] + slice
Passing(d) ==
  /\ Unseen
  /\ slice =< IF picture =< Len(frame.images) THEN frame.images[picture].slices ELSE 0
  /\ d =< Passed
  /\ spriteTableIndex < N => d = Passed

(* What the GPU has painted when it is at a primitive. *)
Upto(f, n) == [k \in 1 .. n |-> Picture(f)[k]]
Showing(d) ==
  LET g == frame.glyphs
  IN  \/ gpu = OT /\ painted = Upto(frame, 0)
      \/ \E m \in 1 .. d : gpu = Page(g + m) /\ painted = Upto(frame, d - m)
      \/ \E m \in 1 .. d : /\ gpu = Sprite(g + m) /\ painted = Upto(frame, d - m)
                           /\ gpuPage = ImageParts(frame)[m].page
      \/ gpu = Page(0) /\ painted = Upto(frame, d)
      \/ \E m \in 1 .. g : /\ gpu = Sprite(m) /\ gpuPage = TextPage
                           /\ painted = Upto(frame, (d + g) - m)
      \/ gpu = Idle /\ painted = Upto(frame, d + g)
Lost == gpu \in {OT, Page(0), Sprite(N)}   \* NULL links to itself

FrameInv ==
  /\ FrameTypeOK
  /\ pc = "text" => Fresh
  /\ pc = "glyphs" => Writing
  /\ pc \in {"images", "drawsync", "vsync"} =>
       \E d \in 0 .. Room(frame) :
         /\ Built(d)
         /\ pc = "images" => Passing(d)
         /\ pc \in {"drawsync", "vsync"} => d = SlicesShown(frame)
         /\ pc = "drawsync" => IF frame.glyphs =< N THEN Showing(d) ELSE Lost
         /\ pc = "vsync" => /\ frame.glyphs =< N /\ gpu = Idle
                            /\ painted = Upto(frame, d + frame.glyphs)

(* The addresses. *)
LEMMA Addresses ==
  /\ N \in Nat \ {0} /\ NULL = N /\ Memory = 0 .. N
  /\ \A e \in 0 .. N : Sprite(e) \in Primitives /\ Page(e) \in Primitives
  /\ \A e, x : /\ Sprite(e) # Page(x) /\ (Sprite(e) = Sprite(x) <=> e = x)
               /\ (Page(e) = Page(x) <=> e = x)
  /\ \A e : /\ Sprite(e) \notin {OT, End, Idle} /\ Page(e) \notin {OT, End, Idle}
            /\ Sprite(e)[1] = "sprt" /\ Page(e)[1] = "tPage"
            /\ Sprite(e)[2] = e /\ Page(e)[2] = e
  /\ OT \in Primitives /\ OT # End /\ OT # Idle /\ OT[1] = "ot" /\ End # Idle
  /\ End \notin Primitives /\ Idle \notin Primitives
<1>1. N \in Nat \ {0} /\ NULL = N
  BY TableAssumption DEF N, NULL
<1>2. Memory = 0 .. N
  BY <1>1, SMT DEF Memory, Entries, N, NULL
<1> QED BY <1>1, <1>2 DEF Primitives, Sprite, Page, OT, End, Idle

(* addPrim puts a primitive in front of what is linked to OT. *)
LEMMA AddsPrim ==
  ASSUME NEW l \in [Primitives -> Primitives \cup {End}], NEW p \in Primitives, p # OT
  PROVE  /\ addPrim(l, p) \in [Primitives -> Primitives \cup {End}]
         /\ addPrim(l, p)[p] = l[OT] /\ addPrim(l, p)[OT] = p
         /\ \A x \in Primitives : x # p /\ x # OT => addPrim(l, p)[x] = l[x]
  BY Addresses DEF addPrim

(* The entry TextureTable_Fetch answers is the index, as long as it is one. *)
LEMMA Fetches ==
  ASSUME spriteTableIndex \in 0 .. N
  PROVE  /\ Fetched = spriteTableIndex /\ Fetched \in Memory
         /\ (Fetched = NULL <=> spriteTableIndex = N)
         /\ TextureTable_Fetch =>
              spriteTableIndex' = IF spriteTableIndex < N THEN spriteTableIndex + 1 ELSE N
<1>1. N \in Nat /\ NULL = N /\ Memory = 0 .. N /\ TEXTABLE_SIZE = N
  BY Addresses DEF N
<1> QED BY <1>1, SMT DEF Fetched, Full, TextureTable_Fetch

(* The types, with the numbers the provers need. *)
LEMMA FrameType ==
  ASSUME FrameTypeOK
  PROVE  /\ frame \in Frames /\ frame.glyphs \in Nat /\ glyph \in 0 .. frame.glyphs
         /\ glyph \in Nat /\ slice \in Nat /\ picture \in Nat
         /\ Len(frame.images) \in Nat /\ picture \in 1 .. Len(frame.images) + 1
         /\ spriteTableIndex \in 0 .. N /\ spriteTableIndex \in Nat
         /\ link \in [Primitives -> Primitives \cup {End}]
         /\ DOMAIN sprt = 0 .. N /\ DOMAIN tPage = 0 .. N
<1>1. frame \in Frames /\ spriteTableIndex \in 0 .. N /\ glyph \in 0 .. frame.glyphs
      /\ DOMAIN sprt = 0 .. N /\ DOMAIN tPage = 0 .. N /\ slice \in Nat
      /\ picture \in 1 .. Len(frame.images) + 1
      /\ link \in [Primitives -> Primitives \cup {End}]
  BY Addresses DEF FrameTypeOK, N
<1>2. frame.glyphs \in Nat /\ Len(frame.images) \in Nat /\ N \in Nat
  BY <1>1, FrameFacts
<1> QED BY <1>1, <1>2, SMT

(* The first frame begins with empty tables. *)
LEMMA FrameInitInv == FrameInit => FrameInv
<1> SUFFICES ASSUME FrameInit PROVE FrameInv
  OBVIOUS
<1>1. /\ pc = "text" /\ frame \in Frames /\ glyph = 0 /\ picture = 1 /\ slice = 0
      /\ textEntry = 0 /\ spriteTableIndex = 0 /\ gpu = Idle /\ painted = <<>>
      /\ sprt = [e \in Memory |-> NoSprite] /\ tPage = [e \in Memory |-> TextPage]
      /\ link = [p \in Primitives |-> End]
  BY DEF FrameInit
<1>2. frame.glyphs \in Nat /\ Len(frame.images) \in Nat /\ N \in Nat
  BY <1>1, FrameFacts
<1>3. /\ 0 \in 0 .. frame.glyphs /\ 1 \in 1 .. Len(frame.images) + 1
      /\ 0 \in Memory /\ 0 \in 0 .. TEXTABLE_SIZE
  BY <1>2, Addresses, SMT DEF N
<1>4. FrameTypeOK
  BY <1>1, <1>3 DEF FrameTypeOK
<1>5. Fresh
  BY <1>1, Addresses DEF Fresh, Unseen
<1> QED BY <1>1, <1>4, <1>5 DEF FrameInv

(* The text begins with the entry of its page.                             *)
LEMMA FetchTextPageInv ==
  ASSUME FrameInv, FetchTextPage
  PROVE  FrameInv'
<1>1. /\ pc = "text" /\ FrameTypeOK /\ Fresh
      /\ pc' = "glyphs" /\ textEntry' = Fetched /\ TextureTable_Fetch
      /\ tPage' = [tPage EXCEPT ![Fetched] = TextPage]
      /\ UNCHANGED <<frame, glyph, picture, slice, sprt, link, gpu, gpuPage, painted>>
  BY DEF FrameInv, FetchTextPage, gpuVars
<1>2. N \in Nat \ {0} /\ spriteTableIndex = 0 /\ glyph = 0 /\ spriteTableIndex \in 0 .. N
  BY <1>1, Addresses, FrameType DEF Fresh
<1>3. Fetched = 0 /\ 0 \in Memory /\ spriteTableIndex' = 1 /\ 1 \in 0 .. N
  BY <1>1, <1>2, Fetches, SMT
<1>4. DOMAIN tPage = Memory
  BY <1>1 DEF FrameTypeOK
<1>5. FrameTypeOK'
  <2>1. DOMAIN tPage' = Memory /\ spriteTableIndex' \in 0 .. TEXTABLE_SIZE
    BY <1>1, <1>3, <1>4 DEF N
  <2> QED BY <1>1, <1>3, <2>1 DEF FrameTypeOK
<1>6. Writing'
  <2>1. tPage'[0] = TextPage
    BY <1>1, <1>3, <1>4
  <2>2. spriteTableIndex' = IF glyph' < N THEN glyph' + 1 ELSE N
    BY <1>1, <1>2, <1>3, SMT
  <2>3. TextLinked(link', sprt', glyph')
    <3>1. glyph' = 0 /\ 1 .. 0 = {} /\ ~(0 > N)
      BY <1>1, <1>2, SMT
    <3> QED BY <3>1 DEF TextLinked
  <2>4. link'[OT] = TextTop(glyph')
    <3>1. glyph' = 0 /\ 0 =< N
      BY <1>1, <1>2, SMT
    <3> QED BY <1>1, <3>1 DEF TextTop, TextFrom, Fresh
  <2> QED BY <1>1, <1>3, <2>1, <2>2, <2>3, <2>4 DEF Writing, Fresh, Unseen
<1> QED BY <1>1, <1>5, <1>6 DEF FrameInv

(* One glyph more, at NULL when the table is full. *)
LEMMA AddGlyphInv ==
  ASSUME FrameInv, AddGlyph
  PROVE  FrameInv'
<1> DEFINE k == glyph + 1
           e == Fetched
<1>1. /\ pc = "glyphs" /\ FrameTypeOK /\ Writing /\ pc' = pc
      /\ glyph < frame.glyphs /\ glyph' = k /\ TextureTable_Fetch
      /\ sprt' = [sprt EXCEPT ![e] = NewSprite(TextPage, k, TRUE)]
      /\ link' = addPrim(link, Sprite(e))
      /\ UNCHANGED <<frame, picture, slice, textEntry, tPage, gpu, gpuPage, painted>>
  BY DEF FrameInv, AddGlyph, gpuVars
<1>2. /\ N \in Nat \ {0} /\ glyph \in Nat /\ frame.glyphs \in Nat
      /\ spriteTableIndex \in 0 .. N /\ spriteTableIndex = IF glyph < N THEN glyph + 1 ELSE N
      /\ link \in [Primitives -> Primitives \cup {End}] /\ DOMAIN sprt = 0 .. N
  BY <1>1, Addresses, FrameType DEF Writing
<1>3. e = IF k =< N THEN k ELSE N
  <2>1. e = spriteTableIndex
    BY <1>2, Fetches
  <2> QED BY <1>2, <2>1, SMT
<1>4. spriteTableIndex' = IF k < N THEN k + 1 ELSE N
  BY <1>1, <1>2, Fetches, SMT
<1>5. e \in 0 .. N /\ e # 0 /\ e \in Memory /\ k \in 0 .. frame.glyphs /\ k \in Nat /\ k - 1 = glyph
  <2>1. e \in 0 .. N /\ e # 0 /\ k \in 0 .. frame.glyphs /\ k \in Nat /\ k - 1 = glyph
    BY <1>1, <1>2, <1>3, SMT
  <2> QED BY <2>1, Addresses
<1> HIDE DEF e
<1>6. /\ Sprite(e) \in Primitives /\ Sprite(e) # OT
      /\ link' \in [Primitives -> Primitives \cup {End}]
      /\ link'[Sprite(e)] = link[OT] /\ link'[OT] = Sprite(e)
      /\ \A x \in Primitives : x # Sprite(e) /\ x # OT => link'[x] = link[x]
  BY <1>1, <1>2, <1>5, Addresses, AddsPrim
<1>7. link[OT] = TextTop(glyph) /\ TextLinked(link, sprt, glyph)
  BY <1>1 DEF Writing
<1>8. FrameTypeOK'
  <2>1. spriteTableIndex' \in 0 .. TEXTABLE_SIZE
    BY <1>2, <1>4, <1>5, SMT DEF N
  <2>2. DOMAIN sprt' = Memory
    BY <1>1 DEF FrameTypeOK
  <2> QED BY <1>1, <1>5, <1>6, <2>1, <2>2 DEF FrameTypeOK
<1> HIDE DEF k
<1>9. link'[OT] = TextTop(k)
  <2>1. k # 0
    BY <1>2, <1>5, SMT
  <2> QED BY <1>3, <1>6, <2>1 DEF TextTop, TextFrom
<1>10. TextLinked(link', sprt', k)
  <2>1. CASE k =< N
    <3>1. e = k /\ glyph =< N /\ ~(k > N)
      BY <1>2, <1>3, <1>5, <2>1, SMT
    <3>2. ASSUME NEW m \in 1 .. k
          PROVE  link'[Sprite(m)] = TextFrom(m - 1) /\ sprt'[m] = NewSprite(TextPage, m, TRUE)
      <4>0. m \in 0 .. N
        BY <1>2, <1>5, <2>1, SMT
      <4>1. CASE m = k
        <5>1. link[OT] = TextFrom(glyph)
          BY <1>7, <3>1 DEF TextTop
        <5> QED BY <1>1, <1>2, <1>5, <1>6, <3>1, <4>0, <4>1, <5>1 DEF k
      <4>2. CASE m # k
        <5>1. m \in 1 .. glyph /\ m # e
          BY <1>2, <1>5, <3>1, <4>2, SMT
        <5>2. link[Sprite(m)] = TextFrom(m - 1) /\ sprt[m] = NewSprite(TextPage, m, TRUE)
          BY <1>7, <3>1, <5>1 DEF TextLinked
        <5>3. Sprite(m) \in Primitives /\ Sprite(m) # Sprite(e) /\ Sprite(m) # OT
          BY <4>0, <5>1, Addresses
        <5> QED BY <1>1, <1>2, <1>6, <4>0, <5>1, <5>2, <5>3
      <4> QED BY <4>1, <4>2
    <3> QED BY <3>1, <3>2 DEF TextLinked
  <2>2. CASE k > N
    <3>1. e = N /\ ~(k =< N)
      BY <1>2, <1>3, <1>5, <2>2, SMT
    <3>2. link[OT] = Sprite(N)
      <4>1. CASE glyph =< N
        <5>1. glyph = N /\ glyph # 0
          BY <1>2, <1>5, <2>2, <4>1, SMT
        <5> QED BY <1>7, <4>1, <5>1 DEF TextTop, TextFrom
      <4>2. CASE ~(glyph =< N)
        BY <1>7, <4>2 DEF TextTop
      <4> QED BY <4>1, <4>2
    <3> QED BY <1>6, <3>1, <3>2 DEF TextLinked
  <2> QED BY <1>2, <1>5, <2>1, <2>2, SMT
<1>11. Writing'
  <2>1. glyph' = k /\ UNCHANGED <<picture, slice, textEntry, tPage, gpu, painted>>
    BY <1>1 DEF k
  <2>2. TextLinked(link', sprt', glyph') /\ link'[OT] = TextTop(glyph')
    BY <1>9, <1>10, <2>1 DEF TextLinked, TextTop
  <2> QED BY <1>1, <1>4, <2>1, <2>2 DEF Writing, Unseen
<1> QED BY <1>1, <1>8, <1>11 DEF FrameInv

(* The text is written; no slice is drawn yet.                             *)
LEMMA AddTextPageInv ==
  ASSUME FrameInv, AddTextPage
  PROVE  FrameInv'
<1> DEFINE g == frame.glyphs
<1>1. /\ pc = "glyphs" /\ FrameTypeOK /\ Writing /\ pc' = "images" /\ glyph = g
      /\ link' = addPrim(link, Page(textEntry))
      /\ UNCHANGED <<frame, glyph, picture, slice, textEntry, spriteTableIndex, sprt, tPage,
                     gpu, gpuPage, painted>>
  BY DEF FrameInv, AddTextPage, gpuVars
<1>2. /\ N \in Nat \ {0} /\ g \in Nat /\ textEntry = 0 /\ frame \in Frames
      /\ spriteTableIndex \in 0 .. N /\ spriteTableIndex = IF g < N THEN g + 1 ELSE N
      /\ link \in [Primitives -> Primitives \cup {End}]
      /\ link[OT] = TextTop(g) /\ TextLinked(link, sprt, g) /\ tPage[0] = TextPage
  BY <1>1, Addresses, FrameType DEF Writing
<1>3. 0 \in 0 .. N
  BY <1>2, SMT
<1>4. /\ link' \in [Primitives -> Primitives \cup {End}]
      /\ link'[Page(0)] = link[OT] /\ link'[OT] = Page(0)
      /\ \A x \in Primitives : x # Page(0) /\ x # OT => link'[x] = link[x]
  BY <1>1, <1>2, <1>3, Addresses, AddsPrim
<1>5. FrameTypeOK'
  BY <1>1, <1>4 DEF FrameTypeOK
<1>6. \A m \in 0 .. N : link'[Sprite(m)] = link[Sprite(m)]
  BY <1>4, Addresses
<1>7. TextLinked(link', sprt', g)
  <2>1. g =< N => 1 .. g \subseteq 0 .. N
    BY <1>2, SMT
  <2>2. N \in 0 .. N
    BY <1>2, SMT
  <2> QED BY <1>1, <1>2, <1>6, <2>1, <2>2 DEF TextLinked
<1>8. 0 \in 0 .. Room(frame)'
  <2>1. Room(frame) \in Nat
    BY <1>2, PictureIs
  <2>2. 0 \in 0 .. Room(frame)
    BY <2>1
  <2> QED BY <1>1, <2>2
<1>9. Built(0)'
  <2>1. spriteTableIndex' = IF g + 1 < N THEN g + 1 + 0 ELSE N
    BY <1>1, <1>2, SMT
  <2>2. 1 .. 0 = {}
    BY SMT
  <2>3. link'[Page(0)] = TextTop(g) /\ link'[OT] = SliceAt(frame', 0)
    BY <1>2, <1>4 DEF TextTop, SliceAt
  <2> QED BY <1>1, <1>2, <1>7, <2>1, <2>2, <2>3 DEF Built
<1>10. Passing(0)'
  <2>1. picture = 1 /\ slice = 0 /\ Unseen
    BY <1>1 DEF Writing
  <2>2. Passed = 0
    <3>1. SlicesBefore(frame)[0] = 0 /\ 1 - 1 = 0 /\ 0 + 0 = 0
      BY <1>2, FrameFacts
    <3> QED BY <2>1, <3>1 DEF Passed
  <2>3. slice =< IF picture =< Len(frame.images) THEN frame.images[picture].slices ELSE 0
    <3>1. Len(frame.images) \in Nat
          /\ \A n \in 1 .. Len(frame.images) : frame.images[n].slices \in Nat
      BY <1>2, FrameFacts
    <3>2. 1 =< Len(frame.images) => 1 \in 1 .. Len(frame.images)
      BY <3>1, SMT
    <3> QED BY <2>1, <3>1, <3>2, SMT
  <2>4. Passed' = Passed
    BY <1>1 DEF Passed
  <2>5. 0 =< 0
    OBVIOUS
  <2> QED BY <1>1, <2>1, <2>2, <2>3, <2>4, <2>5 DEF Passing, Unseen
<1> QED BY <1>1, <1>5, <1>8, <1>9, <1>10 DEF FrameInv

(* One slice more, as long as there is an entry for it.                    *)
LEMMA AddSliceInv ==
  ASSUME FrameInv, AddSlice
  PROVE  FrameInv'
<1> DEFINE g == frame.glyphs
           e == Fetched
           im == frame.images[picture]
           t == ImageParts(frame)
<1>1. /\ pc = "images" /\ FrameTypeOK /\ picture =< Len(frame.images) /\ slice < im.slices
      /\ e # NULL /\ slice' = slice + 1 /\ TextureTable_Fetch
      /\ sprt' = [sprt EXCEPT ![e] = NewSprite(im.page, slice + 1, im.semi)]
      /\ tPage' = [tPage EXCEPT ![e] = im.page]
      /\ link' = addPrim(addPrim(link, Sprite(e)), Page(e))
      /\ UNCHANGED <<pc, frame, glyph, picture, textEntry, gpu, gpuPage, painted>>
  BY DEF FrameInv, AddSlice, Drawing, gpuVars
<1>2. PICK d \in 0 .. Room(frame) : Built(d) /\ Passing(d)
  BY <1>1 DEF FrameInv
<1>3. /\ N \in Nat \ {0} /\ g \in Nat /\ frame \in Frames /\ slice \in Nat /\ Len(t) \in Nat
      /\ picture \in 1 .. Len(frame.images) /\ Len(frame.images) \in Nat /\ picture \in Nat
      /\ spriteTableIndex \in 0 .. N /\ link \in [Primitives -> Primitives \cup {End}]
      /\ DOMAIN sprt = 0 .. N /\ DOMAIN tPage = 0 .. N /\ Room(frame) \in Nat /\ d \in Nat
  <2>1. frame \in Frames /\ Room(frame) \in Nat
    BY <1>1, FrameType, PictureIs
  <2>2. Len(t) \in Nat /\ N \in Nat \ {0}
    BY <2>1, FrameFacts
  <2>3. picture \in 1 .. Len(frame.images)
    BY <1>1, FrameType, SMT
  <2> QED BY <1>1, <1>2, <2>1, <2>2, <2>3, FrameType
<1>4. e = spriteTableIndex /\ spriteTableIndex # N
      /\ spriteTableIndex' = spriteTableIndex + 1
  <2>1. spriteTableIndex' = IF spriteTableIndex < N THEN spriteTableIndex + 1 ELSE N
    BY <1>1, <1>3, Fetches
  <2>2. e = spriteTableIndex /\ spriteTableIndex # N
    BY <1>1, <1>3, Fetches
  <2>3. spriteTableIndex \in 0 .. N /\ N \in Nat
    BY <1>3
  <2> HIDE DEF e
  <2>4. spriteTableIndex < N
    BY <2>2, <2>3, SMT
  <2> QED BY <2>1, <2>2, <2>4
<1>5. e = g + 1 + d /\ g + 1 < N /\ g + (d + 1) = e /\ e \in 0 .. N /\ e # 0 /\ e < N
      /\ d + 1 \in 0 .. Room(frame) /\ d = Passed /\ d + 1 \in Nat
  <2>1. spriteTableIndex = IF g + 1 < N THEN g + 1 + d ELSE N
    BY <1>2 DEF Built
  <2>2. Room(frame) = IF g + 1 >= N THEN 0 ELSE N - 1 - g
    BY DEF Room, N
  <2>3. g + 1 < N /\ e = g + 1 + d /\ g + (d + 1) = e /\ e \in 0 .. N /\ e # 0 /\ e < N
    BY <1>3, <1>4, <2>1, SMT
  <2>4. d + 1 \in 0 .. Room(frame) /\ d + 1 \in Nat
    BY <1>3, <2>2, <2>3, SMT
  <2>5. d = Passed
    BY <1>2, <1>4, <2>3 DEF Passing
  <2> QED BY <2>3, <2>4, <2>5
<1>6. /\ t[d + 1] = [sprt |-> NewSprite(im.page, slice + 1, im.semi), page |-> im.page]
      /\ im.slices \in Nat
  <2>1. im.slices \in Nat /\ SlicesBefore(frame)[picture - 1] \in Nat
    <3>1. picture - 1 \in 0 .. Len(frame.images)
      BY <1>3, SMT
    <3> QED BY <1>3, <3>1, FrameFacts
  <2>2. slice + 1 \in 1 .. im.slices
    BY <1>1, <1>3, <2>1, SMT
  <2>3. d + 1 = SlicesBefore(frame)[picture - 1] + (slice + 1)
    <3> DEFINE b == SlicesBefore(frame)[picture - 1]
    <3>1. d = b + slice /\ b \in Nat /\ slice \in Nat
      BY <1>3, <1>5, <2>1 DEF Passed
    <3> HIDE DEF b
    <3>2. d + 1 = b + (slice + 1)
      BY <3>1, SMT
    <3> QED BY <3>2 DEF b
  <2> QED BY <1>3, <2>1, <2>2, <2>3, FrameFacts
<1> DEFINE l == addPrim(link, Sprite(e))
<1>7. /\ Sprite(e) \in Primitives /\ Page(e) \in Primitives /\ Sprite(e) # OT /\ Page(e) # OT
      /\ Page(e) # Sprite(e) /\ e \in Memory
  BY <1>5, Addresses
<1>8. /\ l \in [Primitives -> Primitives \cup {End}] /\ l[Sprite(e)] = link[OT]
      /\ l[OT] = Sprite(e) /\ \A x \in Primitives : x # Sprite(e) /\ x # OT => l[x] = link[x]
  BY <1>3, <1>7, AddsPrim
<1> HIDE DEF l, e
<1>9. /\ link' \in [Primitives -> Primitives \cup {End}]
      /\ link'[Page(e)] = Sprite(e) /\ link'[OT] = Page(e) /\ link'[Sprite(e)] = link[OT]
      /\ \A x \in Primitives : x # Sprite(e) /\ x # Page(e) /\ x # OT => link'[x] = link[x]
  <2>1. link' = addPrim(l, Page(e))
    BY <1>1 DEF l
  <2>2. /\ link' \in [Primitives -> Primitives \cup {End}]
        /\ link'[Page(e)] = l[OT] /\ link'[OT] = Page(e)
        /\ \A x \in Primitives : x # Page(e) /\ x # OT => link'[x] = l[x]
    BY <1>7, <1>8, <2>1, AddsPrim
  <2> QED BY <1>7, <1>8, <2>2
<1> DEFINE Other(x) == /\ link'[Sprite(x)] = link[Sprite(x)] /\ link'[Page(x)] = link[Page(x)]
                       /\ sprt'[x] = sprt[x] /\ tPage'[x] = tPage[x]
<1>10. ASSUME NEW x \in 0 .. N, x # e PROVE Other(x)
  <2>1. /\ Sprite(x) \in Primitives /\ Page(x) \in Primitives /\ Sprite(x) # OT /\ Page(x) # OT
        /\ Sprite(x) # Sprite(e) /\ Sprite(x) # Page(e)
        /\ Page(x) # Sprite(e) /\ Page(x) # Page(e)
    BY <1>10, Addresses
  <2> QED BY <1>1, <1>3, <1>9, <1>10, <2>1
<1>11. FrameTypeOK'
  <2>1. spriteTableIndex' \in 0 .. TEXTABLE_SIZE /\ slice' \in Nat
    BY <1>1, <1>3, <1>4, SMT DEF N
  <2>2. DOMAIN sprt' = Memory /\ DOMAIN tPage' = Memory
    BY <1>1 DEF FrameTypeOK
  <2> QED BY <1>1, <1>9, <2>1, <2>2 DEF FrameTypeOK
<1>12. Built(d + 1)'
  <2>1. 0 \in 0 .. N /\ 0 # e
    BY <1>3, <1>5, SMT
  <2>2. tPage'[0] = TextPage /\ link'[Page(0)] = TextTop(g)
    BY <1>2, <1>10, <2>1 DEF Built
  <2>3. TextLinked(link', sprt', g)
    <3>1. TextLinked(link, sprt, g)
      BY <1>2 DEF Built
    <3>2. g =< N /\ ~(g > N) /\ \A m \in 1 .. g : m \in 0 .. N /\ m # e
      BY <1>3, <1>5, SMT
    <3> QED BY <1>10, <3>1, <3>2 DEF TextLinked
  <2>4. spriteTableIndex' = IF g + 1 < N THEN g + 1 + (d + 1) ELSE N
    BY <1>3, <1>4, <1>5, SMT
  <2>5. link'[OT] = SliceAt(frame, d + 1)
    <3>1. d + 1 # 0
      BY <1>3, SMT
    <3> QED BY <1>5, <1>9, <3>1 DEF SliceAt
  <2>6. ASSUME NEW m \in 1 .. d + 1 PROVE SliceLinked(frame, link', sprt', tPage', m)
    <3>1. CASE m = d + 1
      <4>1. link[OT] = SliceAt(frame, d) /\ m - 1 = d /\ g + m = e
        BY <1>2, <1>3, <1>5, <3>1, SMT DEF Built
      <4>2. sprt'[e] = NewSprite(im.page, slice + 1, im.semi) /\ tPage'[e] = im.page
        BY <1>1, <1>3, <1>5
      <4>3. t[m].sprt = NewSprite(im.page, slice + 1, im.semi) /\ t[m].page = im.page
        BY <1>6, <3>1
      <4> QED BY <1>9, <4>1, <4>2, <4>3 DEF SliceLinked
    <3>2. CASE m # d + 1
      <4>1. m \in 1 .. d /\ g + m \in 0 .. N /\ g + m # e
        BY <1>3, <1>5, <3>2, SMT
      <4>2. SliceLinked(frame, link, sprt, tPage, m)
        BY <1>2, <4>1 DEF Built
      <4>3. Other(g + m)
        BY <1>10, <4>1
      <4> HIDE DEF t
      <4> QED BY <4>2, <4>3 DEF SliceLinked
    <3> QED BY <3>1, <3>2
  <2>7. textEntry = 0
    BY <1>2 DEF Built
  <2> QED BY <1>1, <2>2, <2>3, <2>4, <2>5, <2>6, <2>7 DEF Built
<1>13. Passing(d + 1)'
  <2>1. Unseen
    BY <1>2 DEF Passing
  <2>2. slice + 1 =< im.slices
    BY <1>1, <1>3, <1>6, SMT
  <2>3. Passed' = d + 1
    <3>1. SlicesBefore(frame)[picture - 1] \in Nat
      <4>1. picture - 1 \in 0 .. Len(frame.images)
        BY <1>3, SMT
      <4> QED BY <1>3, <4>1, FrameFacts
    <3>2. SlicesBefore(frame)[picture - 1] + (slice + 1) = d + 1
      <4> DEFINE b == SlicesBefore(frame)[picture - 1]
      <4>1. d = b + slice /\ b \in Nat /\ slice \in Nat
        BY <1>3, <1>5, <3>1 DEF Passed
      <4> HIDE DEF b
      <4>2. b + (slice + 1) = d + 1
        BY <4>1, SMT
      <4> QED BY <4>2 DEF b
    <3> QED BY <1>1, <3>2 DEF Passed
  <2>4. d + 1 =< d + 1
    BY <1>3, SMT
  <2> QED BY <1>1, <2>1, <2>2, <2>3, <2>4 DEF Passing, Unseen
<1> QED BY <1>1, <1>5, <1>11, <1>12, <1>13 DEF FrameInv

(* The loop of scene.c passes an image, drawn to its end or not. *)
LEMMA NextImageInv ==
  ASSUME FrameInv, NextImage
  PROVE  FrameInv'
<1> DEFINE im == frame.images[picture]
<1>1. /\ pc = "images" /\ FrameTypeOK /\ picture =< Len(frame.images)
      /\ slice = im.slices \/ Fetched = NULL
      /\ picture' = picture + 1 /\ slice' = 0
      /\ UNCHANGED <<pc, frame, glyph, textEntry, spriteTableIndex, sprt, tPage, link,
                     gpu, gpuPage, painted>>
  BY DEF FrameInv, NextImage, Drawing, gpuVars, table
<1>2. PICK d \in 0 .. Room(frame) : Built(d) /\ Passing(d)
  BY <1>1 DEF FrameInv
<1>3. /\ N \in Nat \ {0} /\ frame \in Frames /\ slice \in Nat
      /\ picture \in 1 .. Len(frame.images) /\ Len(frame.images) \in Nat /\ picture \in Nat
      /\ spriteTableIndex \in 0 .. N /\ d \in Nat
  <2>1. frame \in Frames /\ Room(frame) \in Nat
    BY <1>1, FrameType, PictureIs
  <2>2. N \in Nat \ {0}
    BY <2>1, FrameFacts
  <2>3. picture \in 1 .. Len(frame.images)
    BY <1>1, FrameType, SMT
  <2> QED BY <1>1, <1>2, <2>1, <2>2, <2>3, FrameType
<1>4. FrameTypeOK'
  <2>1. picture' \in 1 .. Len(frame.images) + 1 /\ slice' \in Nat
    BY <1>1, <1>3, SMT
  <2> QED BY <1>1, <2>1 DEF FrameTypeOK
<1>5. Built(d)'
  BY <1>1, <1>2 DEF Built
<1>6. Passing(d)'
  <2> DEFINE b == SlicesBefore(frame)
  <2>1. /\ im.slices \in Nat /\ b[picture - 1] \in Nat /\ b[picture] = b[picture - 1] + im.slices
        /\ b[picture] \in Nat /\ (picture + 1) - 1 = picture
    <3>1. picture - 1 \in 0 .. Len(frame.images) /\ picture \in 0 .. Len(frame.images)
          /\ (picture + 1) - 1 = picture
      BY <1>3, SMT
    <3> QED BY <1>3, <3>1, FrameFacts
  <2>2. Passed' = b[picture]
    <3>1. Passed' = b[(picture + 1) - 1] + 0
      BY <1>1 DEF Passed
    <3> HIDE DEF b, im
    <3> QED BY <2>1, <3>1, SMT
  <2>3. Passed = b[picture - 1] + slice /\ slice =< im.slices /\ d =< Passed
        /\ (spriteTableIndex < N => d = Passed)
    BY <1>1, <1>2 DEF Passing, Passed
  <2>4. Fetched = NULL => ~(spriteTableIndex < N)
    BY <1>3, Fetches, SMT
  <2> HIDE DEF b, im
  <2>5. d =< b[picture] /\ (spriteTableIndex < N => d = b[picture])
    BY <1>1, <1>3, <2>1, <2>3, <2>4, SMT
  <2>6. 0 =< IF picture + 1 =< Len(frame.images) THEN frame.images[picture + 1].slices ELSE 0
    <3>1. picture + 1 =< Len(frame.images) => picture + 1 \in 1 .. Len(frame.images)
      BY <1>3, SMT
    <3>2. picture + 1 =< Len(frame.images) => frame.images[picture + 1].slices \in Nat
      BY <1>3, <3>1, FrameFacts
    <3> QED BY <3>2, SMT
  <2>7. slice' =< IF picture' =< Len(frame'.images) THEN frame'.images[picture'].slices ELSE 0
    BY <1>1, <2>6
  <2>8. Unseen
    BY <1>2 DEF Passing
  <2> QED BY <1>1, <2>2, <2>5, <2>7, <2>8 DEF Passing, Unseen
<1> QED BY <1>1, <1>2, <1>4, <1>5, <1>6 DEF FrameInv

(* The GPU starts at the table's head; the frame is built.                 *)
LEMMA DrawOTagInv ==
  ASSUME FrameInv, DrawOTag
  PROVE  FrameInv'
<1> DEFINE g == frame.glyphs
<1>1. /\ pc = "images" /\ FrameTypeOK /\ picture > Len(frame.images)
      /\ gpu' = OT /\ pc' = "drawsync"
      /\ UNCHANGED <<frame, glyph, picture, slice, textEntry, spriteTableIndex, sprt, tPage,
                     link, gpuPage, painted>>
  BY DEF FrameInv, DrawOTag, table
<1>2. PICK d \in 0 .. Room(frame) : Built(d) /\ Passing(d)
  BY <1>1 DEF FrameInv
<1>3. /\ N \in Nat \ {0} /\ frame \in Frames /\ g \in Nat /\ Len(frame.images) \in Nat
      /\ picture = Len(frame.images) + 1 /\ slice \in Nat /\ d \in Nat
      /\ Room(frame) \in Nat /\ Len(ImageParts(frame)) \in Nat
  <2>1. frame \in Frames /\ Room(frame) \in Nat
    BY <1>1, FrameType, PictureIs
  <2>2. N \in Nat \ {0} /\ Len(ImageParts(frame)) \in Nat
    BY <2>1, FrameFacts
  <2>3. picture = Len(frame.images) + 1
    BY <1>1, FrameType, SMT
  <2> QED BY <1>1, <1>2, <2>1, <2>2, <2>3, FrameType
<1>4. d = SlicesShown(frame)
  <2>1. Passed = Len(ImageParts(frame))
    <3>1. slice = 0
      <4>1. slice =< 0
        BY <1>1, <1>2, <1>3, SMT DEF Passing
      <4> QED BY <1>3, <4>1, SMT
    <3>2. picture - 1 = Len(frame.images)
      BY <1>3, SMT
    <3>3. SlicesBefore(frame)[Len(frame.images)] = Len(ImageParts(frame))
      BY <1>3, FrameFacts
    <3> QED BY <1>3, <3>1, <3>2, <3>3, SMT DEF Passed
  <2>2. d =< Len(ImageParts(frame)) /\ (spriteTableIndex < N => d = Len(ImageParts(frame)))
    BY <1>2, <2>1 DEF Passing
  <2>3. spriteTableIndex = IF g + 1 < N THEN g + 1 + d ELSE N
    BY <1>2 DEF Built
  <2>4. Room(frame) = IF g + 1 >= N THEN 0 ELSE N - 1 - g
    BY DEF Room, N
  <2> QED BY <1>2, <1>3, <2>2, <2>3, <2>4, SMT DEF SlicesShown
<1>5. FrameTypeOK'
  BY <1>1, Addresses DEF FrameTypeOK
<1>6. Built(d)'
  BY <1>1, <1>2 DEF Built
<1>7. painted = Upto(frame, 0)
  <2>1. 1 .. 0 = {} /\ painted = <<>>
    BY <1>2, SMT DEF Passing, Unseen
  <2> QED BY <2>1 DEF Upto
<1>8. Showing(d)' /\ Lost'
  BY <1>1, <1>7 DEF Showing, Lost
<1> QED BY <1>1, <1>2, <1>4, <1>5, <1>6, <1>8 DEF FrameInv

(* DrawSync returns when the GPU has come to the end.                      *)
LEMMA DrawSyncInv ==
  ASSUME FrameInv, DrawSync
  PROVE  FrameInv'
<1> DEFINE g == frame.glyphs
<1>1. /\ pc = "drawsync" /\ gpu = Idle /\ pc' = "vsync" /\ FrameTypeOK
      /\ UNCHANGED <<frame, glyph, picture, slice, textEntry, spriteTableIndex, sprt, tPage,
                     link, gpu, gpuPage, painted>>
  BY DEF FrameInv, DrawSync, table, gpuVars
<1>2. PICK d \in 0 .. Room(frame) :
        Built(d) /\ d = SlicesShown(frame) /\ IF g =< N THEN Showing(d) ELSE Lost
  BY <1>1 DEF FrameInv
<1>3. g =< N
  <2>1. N \in 0 .. N
    BY Addresses, SMT
  <2>2. ~Lost
    BY <1>1, <2>1, Addresses DEF Lost
  <2> QED BY <1>2, <2>2
<1>4. painted = Upto(frame, d + g)
  BY <1>1, <1>2, <1>3, Addresses DEF Showing
<1>5. FrameTypeOK'
  BY <1>1 DEF FrameTypeOK
<1>6. Built(d)'
  BY <1>1, <1>2 DEF Built
<1> QED BY <1>1, <1>2, <1>3, <1>4, <1>5, <1>6 DEF FrameInv

(* The tables are emptied for the next frame. *)
LEMMA NextFrameInv ==
  ASSUME FrameInv, NextFrame
  PROVE  FrameInv'
<1>1. /\ pc = "vsync" /\ pc' = "text" /\ painted' = <<>> /\ FrameTypeOK /\ frame' \in Frames
      /\ link' = [link EXCEPT ![OT] = End] /\ spriteTableIndex' = 0
      /\ glyph' = 0 /\ picture' = 1 /\ slice' = 0
      /\ UNCHANGED <<textEntry, sprt, tPage, gpu, gpuPage>>
  BY DEF FrameInv, NextFrame, ClearOTagR, TextureTable_Refresh
<1>2. gpu = Idle
  BY <1>1 DEF FrameInv
<1>3. /\ link' \in [Primitives -> Primitives \cup {End}] /\ link'[OT] = End
  BY <1>1, FrameType, Addresses
<1>4. /\ glyph' \in 0 .. frame'.glyphs /\ picture' \in 1 .. Len(frame'.images) + 1
      /\ spriteTableIndex' \in 0 .. TEXTABLE_SIZE /\ slice' \in Nat
  <2>1. frame'.glyphs \in Nat /\ Len(frame'.images) \in Nat /\ N \in Nat
    BY <1>1, FrameFacts
  <2> QED BY <1>1, <2>1, SMT DEF N
<1>5. FrameTypeOK'
  BY <1>1, <1>3, <1>4 DEF FrameTypeOK
<1>6. Fresh'
  BY <1>1, <1>2, <1>3 DEF Fresh, Unseen
<1> QED BY <1>1, <1>5, <1>6 DEF FrameInv

(* One primitive more is painted.                                          *)
LEMMA Painting ==
  ASSUME NEW f \in Frames, f.glyphs =< N,
         NEW n \in Nat, n < SlicesShown(f) + f.glyphs
  PROVE  /\ n + 1 \in Nat /\ Len(Upto(f, n)) = n /\ n =< N
         /\ Upto(f, n + 1) = Append(Upto(f, n), Picture(f)[n + 1])
<1> DEFINE d == SlicesShown(f)
           g == f.glyphs
<1>1. g \in Nat /\ d \in Nat /\ Room(f) \in Nat /\ Len(ImageParts(f)) \in Nat /\ N \in Nat \ {0}
  BY FrameFacts, PictureIs
<1>2. n =< N
  <2>1. Room(f) = IF g + 1 >= N THEN 0 ELSE N - 1 - g
    BY DEF Room, N
  <2>2. d =< Room(f)
    BY <1>1, SMT DEF SlicesShown
  <2> HIDE DEF d, g
  <2>3. g =< N /\ n < d + g
    BY DEF d, g
  <2> QED BY <1>1, <2>1, <2>2, <2>3, SMT
<1> DEFINE p == Picture(f)
           u == [k \in 1 .. n |-> p[k]]
<1> HIDE DEF p
<1>3. Len(u) = n /\ DOMAIN u = 1 .. n
  BY SMT
<1>4. Append(u, p[n + 1]) = [k \in 1 .. n + 1 |-> p[k]]
  BY SMT
<1> QED BY <1>2, <1>3, <1>4 DEF Upto, p

(* It is recorded: a picture has no more parts than the table entries. *)
LEMMA Records ==
  ASSUME frame \in Frames, frame.glyphs =< N,
         NEW n \in Nat, n < SlicesShown(frame) + frame.glyphs,
         painted = Upto(frame, n)
  PROVE  Record(Picture(frame)[n + 1]) = Upto(frame, n + 1)
<1>1. Len(painted) = n /\ n =< N /\ N \in Nat
      /\ Upto(frame, n + 1) = Append(painted, Picture(frame)[n + 1])
  BY Painting, FrameFacts
<1>2. ~(Len(painted) > N)
  BY <1>1, SMT
<1> QED BY <1>1, <1>2 DEF Record, N

(* The GPU goes on along the links, in the frame built.                    *)
LEMMA WalkInv ==
  ASSUME FrameInv, Walk
  PROVE  FrameInv'
<1> DEFINE g == frame.glyphs
           t == ImageParts(frame)
<1>1. /\ FrameTypeOK /\ gpu # Idle /\ gpu' = IF link[gpu] = End THEN Idle ELSE link[gpu]
      /\ \/ gpu[1] = "ot" /\ UNCHANGED <<gpuPage, painted>>
         \/ gpu[1] = "tPage" /\ gpuPage' = tPage[gpu[2]] /\ UNCHANGED painted
         \/ /\ gpu[1] = "sprt" /\ UNCHANGED gpuPage
            /\ painted' = Record([sprt |-> sprt[gpu[2]], page |-> gpuPage])
      /\ UNCHANGED <<pc, frame, glyph, picture, slice, textEntry, spriteTableIndex, sprt, tPage,
                     link>>
  BY DEF FrameInv, Walk, cpuVars, table
<1>2. pc = "drawsync"
  BY <1>1 DEF FrameInv, Fresh, Writing, Passing, Unseen, FrameTypeOK
<1>3. PICK d \in 0 .. Room(frame) :
        Built(d) /\ d = SlicesShown(frame) /\ IF g =< N THEN Showing(d) ELSE Lost
  BY <1>2 DEF FrameInv
<1>4. /\ N \in Nat \ {0} /\ frame \in Frames /\ g \in Nat /\ d \in Nat
      /\ Room(frame) \in Nat /\ gpu \in Primitives
      /\ link \in [Primitives -> Primitives \cup {End}]
  <2>1. frame \in Frames /\ Room(frame) \in Nat
    BY <1>1, FrameType, PictureIs
  <2>2. N \in Nat \ {0}
    BY <2>1, FrameFacts
  <2> QED BY <1>1, <1>3, <2>1, <2>2, FrameType DEF FrameTypeOK
<1>5. FrameTypeOK'
  <2>1. gpu' \in Primitives \cup {Idle}
    BY <1>1, <1>4
  <2> QED BY <1>1, <2>1 DEF FrameTypeOK
<1>6. Built(d)'
  BY <1>1, <1>3 DEF Built
<1>7. /\ 0 \in 0 .. N /\ N \in 0 .. N
      /\ \A m \in 1 .. d : g + m \in 0 .. N /\ g + m # 0
  <2>1. Room(frame) = IF g + 1 >= N THEN 0 ELSE N - 1 - g
    BY DEF Room, N
  <2> QED BY <1>3, <1>4, <2>1, SMT
<1>8. /\ link[OT] = SliceAt(frame, d) /\ link[Page(0)] = TextTop(g)
      /\ TextLinked(link, sprt, g) /\ tPage[0] = TextPage
      /\ \A m \in 1 .. d : SliceLinked(frame, link, sprt, tPage, m)
  BY <1>3 DEF Built
<1>9. CASE ~(g =< N)
  <2>1. link[Page(0)] = Sprite(N) /\ link[Sprite(N)] = Sprite(N) /\ d = 0 /\ link[OT] = Page(0)
    <3>1. Room(frame) = IF g + 1 >= N THEN 0 ELSE N - 1 - g
      BY DEF Room, N
    <3>2. d = 0 /\ g > N
      BY <1>3, <1>4, <1>9, <3>1, SMT
    <3> QED BY <1>8, <1>9, <3>2 DEF TextTop, TextLinked, SliceAt
  <2>2. gpu \in {OT, Page(0), Sprite(N)}
    BY <1>3, <1>9 DEF Lost
  <2>3. gpu' \in {Page(0), Sprite(N)}
    BY <1>1, <1>7, <2>1, <2>2, Addresses
  <2>4. Lost'
    BY <2>3 DEF Lost
  <2> QED BY <1>1, <1>2, <1>3, <1>5, <1>6, <1>9, <2>4 DEF FrameInv
<1>10. CASE g =< N
  <2> SUFFICES Showing(d)'
    BY <1>1, <1>2, <1>3, <1>5, <1>6, <1>10 DEF FrameInv
  <2>1. Showing(d)
    BY <1>3, <1>10
  <2> DEFINE At(n) == painted' = Upto(frame, n)
             Here(m) == gpu' = Page(g + m) /\ At(d - m)
             TextAt(m) == \* the text from glyph m down
               IF m = 0 THEN gpu' = Idle ELSE gpu' = Sprite(m)
  <2>2. CASE gpu = OT /\ painted = Upto(frame, 0)
    <3>1. gpu' = SliceAt(frame, d) /\ At(0)
      <4>1. SliceAt(frame, d) # End
        BY <1>7, Addresses DEF SliceAt
      <4> QED BY <1>1, <1>8, <2>2, <4>1, Addresses
    <3>2. CASE d = 0
      BY <1>1, <3>1, <3>2 DEF Showing, SliceAt
    <3>3. CASE d # 0
      <4>1. d \in 1 .. d /\ d - d = 0
        BY <1>4, <3>3, SMT
      <4> QED BY <1>1, <3>1, <3>3, <4>1 DEF Showing, SliceAt
    <3> QED BY <3>2, <3>3
  <2>3. ASSUME NEW m \in 1 .. d, gpu = Page(g + m), painted = Upto(frame, d - m)
        PROVE  Showing(d)'
    <3>1. link[gpu] = Sprite(g + m) /\ tPage[g + m] = t[m].page
      BY <1>8, <2>3 DEF SliceLinked
    <3>2. gpu' = Sprite(g + m) /\ gpuPage' = t[m].page /\ painted' = painted
      BY <1>1, <2>3, <3>1, Addresses
    <3> HIDE DEF t
    <3> QED BY <1>1, <2>3, <3>2 DEF Showing, t
  <2>4. ASSUME NEW m \in 1 .. d, gpu = Sprite(g + m), painted = Upto(frame, d - m),
               gpuPage = t[m].page
        PROVE  Showing(d)'
    <3> DEFINE n == d - m
    <3>1. n \in Nat /\ n < d + g /\ n + 1 = d - (m - 1) /\ n + 1 \in 1 .. d + g /\ n + 1 =< d
          /\ d - (n + 1) + 1 = m
      BY <1>4, SMT
    <3>2. painted' = Upto(frame, n + 1)
      <4>1. link[gpu] = SliceAt(frame, m - 1) /\ sprt[g + m] = t[m].sprt
        BY <1>8, <2>4 DEF SliceLinked
      <4>2. t[m] = [sprt |-> t[m].sprt, page |-> t[m].page]
        <5>1. t \in Seq(Pieces) /\ m \in 1 .. Len(t)
          <6>1. d =< Len(t) /\ t \in Seq(Pieces) /\ Len(t) \in Nat
            BY <1>3, <1>4, PictureIs, FrameFacts
          <6> QED BY <1>4, <6>1, SMT
        <5>2. t[m] \in Pieces
          BY <5>1, ElementOfSeq
        <5> QED BY <5>2 DEF Pieces
      <4>3. Picture(frame)[n + 1] = t[m]
        <5>1. Picture(frame)[n + 1] = t[d - (n + 1) + 1]
          BY <1>3, <1>4, <3>1, PictureIs
        <5> QED BY <3>1, <5>1
      <4>4. painted' = Record(t[m])
        <5>1. gpu[1] = "sprt" /\ gpu[2] = g + m
          BY <2>4, Addresses
        <5>2. painted' = Record([sprt |-> sprt[g + m], page |-> gpuPage])
          BY <1>1, <5>1
        <5> QED BY <2>4, <4>1, <4>2, <5>2
      <4> QED BY <1>3, <1>4, <1>10, <2>4, <3>1, <4>3, <4>4, Records
    <3>3. gpu' = SliceAt(frame, m - 1)
      <4>1. SliceAt(frame, m - 1) # End
        BY Addresses DEF SliceAt
      <4> QED BY <1>1, <1>8, <2>4, <4>1 DEF SliceLinked
    <3>4. CASE m = 1
      <4>1. m - 1 = 0 /\ n + 1 = d
        BY <1>4, <3>4, SMT
      <4> QED BY <1>1, <3>2, <3>3, <4>1 DEF Showing, SliceAt
    <3>5. CASE m # 1
      <4>1. m - 1 \in 1 .. d /\ m - 1 # 0
        BY <1>4, <3>5, SMT
      <4> QED BY <1>1, <3>1, <3>2, <3>3, <4>1 DEF Showing, SliceAt
    <3> QED BY <3>4, <3>5
  <2>5. ASSUME NEW m \in 0 .. g, link[gpu] = TextFrom(m), gpuPage' = TextPage,
               painted' = Upto(frame, (d + g) - m)
        PROVE  Showing(d)'
    <3>1. CASE m = 0
      <4>1. gpu' = Idle /\ (d + g) - m = d + g
        BY <1>1, <1>4, <2>5, <3>1, SMT DEF TextFrom
      <4> QED BY <1>1, <2>5, <4>1 DEF Showing
    <3>2. CASE m # 0
      <4>1. m \in 1 .. g /\ gpu' = Sprite(m)
        BY <1>1, <1>4, <2>5, <3>2, Addresses DEF TextFrom
      <4> QED BY <1>1, <2>5, <4>1 DEF Showing
    <3> QED BY <3>1, <3>2
  <2>6. CASE gpu = Page(0) /\ painted = Upto(frame, d)
    <3>1. link[gpu] = TextFrom(g) /\ g \in 0 .. g /\ (d + g) - g = d
      BY <1>4, <1>8, <1>10, <2>6, SMT DEF TextTop
    <3>2. gpuPage' = TextPage /\ painted' = painted
      BY <1>1, <1>8, <2>6, Addresses
    <3> QED BY <2>5, <2>6, <3>1, <3>2
  <2>7. ASSUME NEW m \in 1 .. g, gpu = Sprite(m), gpuPage = TextPage,
               painted = Upto(frame, (d + g) - m)
        PROVE  Showing(d)'
    <3> DEFINE n == (d + g) - m
    <3>1. /\ n \in Nat /\ n < d + g /\ n + 1 = (d + g) - (m - 1) /\ n + 1 \in 1 .. d + g
          /\ ~(n + 1 =< d) /\ (d + g) - (n + 1) + 1 = m /\ m - 1 \in 0 .. g
      BY <1>4, SMT
    <3>2. link[gpu] = TextFrom(m - 1) /\ sprt[m] = NewSprite(TextPage, m, TRUE)
      BY <1>8, <1>10, <2>7 DEF TextLinked
    <3>3. painted' = Record(GlyphPiece(m)) /\ gpuPage' = TextPage
      <4>1. gpu[1] = "sprt" /\ gpu[2] = m
        BY <2>7, Addresses
      <4>2. gpuPage' = gpuPage /\ painted' = Record([sprt |-> sprt[m], page |-> gpuPage])
        BY <1>1, <4>1
      <4> QED BY <2>7, <3>2, <4>2 DEF GlyphPiece
    <3>4. Picture(frame)[n + 1] = GlyphPiece(m)
      <4>1. Picture(frame)[n + 1] = GlyphPiece((d + g) - (n + 1) + 1)
        BY <1>3, <1>4, <3>1, PictureIs
      <4> QED BY <3>1, <4>1
    <3>5. painted' = Upto(frame, n + 1)
      BY <1>3, <1>4, <1>10, <2>7, <3>1, <3>3, <3>4, Records
    <3> QED BY <2>5, <3>1, <3>2, <3>3, <3>5
  <2> QED BY <1>1, <2>1, <2>2, <2>3, <2>4, <2>6, <2>7 DEF Showing
<1> QED BY <1>9, <1>10

(* The frame's invariant.                                                  *)
LEMMA FrameInvariant == FrameSpec => []FrameInv
<1>1. FrameInit => FrameInv
  BY FrameInitInv
<1>2. FrameInv /\ [FrameNext]_frameVars => FrameInv'
  <2> SUFFICES ASSUME FrameInv, [FrameNext]_frameVars PROVE FrameInv'
    OBVIOUS
  <2>1. CASE UNCHANGED frameVars
    <3>1. UNCHANGED <<pc, frame, glyph, picture, slice, textEntry, spriteTableIndex, sprt, tPage,
                      link, gpu, gpuPage, painted>>
      BY <2>1 DEF frameVars, cpuVars, table, gpuVars
    <3>2. /\ FrameTypeOK' = FrameTypeOK /\ Fresh' = Fresh /\ Writing' = Writing
          /\ \A d : /\ Built(d)' = Built(d) /\ Passing(d)' = Passing(d)
                    /\ Showing(d)' = Showing(d)
          /\ Lost' = Lost
      BY <3>1 DEF FrameTypeOK, Fresh, Writing, Unseen, Built, Passing, Passed, Showing, Lost
    <3> QED BY <3>1, <3>2 DEF FrameInv
  <2> QED BY <2>1, FetchTextPageInv, AddGlyphInv, AddTextPageInv, AddSliceInv, NextImageInv,
             DrawOTagInv, DrawSyncInv, NextFrameInv, WalkInv DEF FrameNext, Cpu
<1> QED BY <1>1, <1>2, PTL DEF FrameSpec

(* Any table and any frames: when DrawSync returns, the GPU has painted the *)
(* text over the images, in their order and each with its own page and      *)
(* transparency, up to the first slice without an entry, and nothing of     *)
(* another frame (renderer.c:52-71, image.c:130-172, font.c:82-102).        *)
THEOREM PaintsTheFrame == FrameSpec => []FrameIsPainted
<1>1. FrameInv => FrameIsPainted
  <2> SUFFICES ASSUME FrameInv, pc = "vsync" PROVE painted = Picture(frame)
    BY DEF FrameInv, FrameIsPainted, PictureAsBuilt
  <2>1. painted = Upto(frame, SlicesShown(frame) + frame.glyphs) /\ frame \in Frames
    BY DEF FrameInv, FrameTypeOK
  <2>2. Picture(frame) = [k \in 1 .. SlicesShown(frame) + frame.glyphs |-> Picture(frame)[k]]
    BY <2>1, PictureIs
  <2> QED BY <2>1, <2>2 DEF Upto
<1> QED BY <1>1, FrameInvariant, PTL

(* Any table and any frames: nothing writes the texture table or the        *)
(* ordering table while the GPU walks them (renderer.c:54-70).              *)
THEOREM TablesAreStable == FrameSpec => TablesStableWhileDrawn
<1>1. FrameInv /\ [FrameNext]_frameVars => [gpu # Idle => UNCHANGED table]_frameVars
  <2> SUFFICES ASSUME FrameInv, FrameNext, gpu # Idle PROVE UNCHANGED table
    OBVIOUS
  <2>1. pc = "drawsync"
    BY DEF FrameInv, Fresh, Writing, Passing, Unseen, FrameTypeOK
  <2> QED BY <2>1 DEF FrameNext, Cpu, FetchTextPage, AddGlyph, AddTextPage, AddSlice, NextImage,
                      Drawing, DrawOTag, DrawSync, NextFrame, Walk
<1> QED BY <1>1, FrameInvariant, PTL DEF FrameSpec, TablesStableWhileDrawn

=============================================================================
