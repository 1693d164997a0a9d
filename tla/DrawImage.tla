----------------------------- MODULE DrawImage -----------------------------
(***************************************************************************)
(* Renderer_DrawImage (image.c): an image in VRAM is cut along the borders *)
(* of the texture pages it spans, and each slice becomes one sprite with   *)
(* its own page.  One action is one turn of the inner loop, with the       *)
(* bookkeeping of the outer loop when a row of pages ends.                 *)
(*                                                                         *)
(* A VRAM word holds 4, 2 or 1 pixels; a page is 64, 128 or 256 words wide *)
(* (256 pixels in each mode) and 256 rows high.  VRAM positions and image  *)
(* widths count words, screen positions and sprite widths count pixels.    *)
(***************************************************************************)
EXTENDS Integers, FiniteSets

CONSTANTS
  Images,       \* the images drawn: records [mode, x, y, w, h] (mode, prect)
  Positions,    \* the screen positions <<x, y>> they are drawn at
  FreeEntries       \* bound: the free entries of the texture table at the call

Mode == {"4bit", "8bit", "16bit"}

ASSUME ImagesAssumption ==
  /\ Images \subseteq [mode : Mode, x : Nat, y : Nat,
                       w : Nat \ {0}, h : Nat \ {0}]
  /\ Positions \subseteq Int \X Int
  /\ FreeEntries \subseteq Nat

PixelPerWord(m) == CASE m = "4bit" -> 4 [] m = "8bit" -> 2 [] OTHER -> 1
WordPerTPage(m) == CASE m = "4bit" -> 64 [] m = "8bit" -> 128 [] OTHER -> 256

(* Pages are numbered from the origin of VRAM: image.c shifts by           *)
(* bitsPerTPage (6, 7 or 8) across and by 8 down.                           *)
PageX(m, x) == x \div WordPerTPage(m)
PageY(y) == y \div 256

VARIABLES
  image,        \* the argument
  pos,          \* the arguments x and y
  free,         \* entries TextureTable_Fetch can still hand out
  j, i,         \* the loop counters
  drawX, drawY, \* where on the screen the next slice goes
  currentVramX, currentVramY,       \* where in VRAM it starts
  remainingWidth, remainingHeight,  \* words and rows not drawn yet
  slices,       \* the sprites put on the ordering table
  result        \* what the call returned, "none" while it runs

drawVars == <<image, pos, free, j, i, drawX, drawY, currentVramX, currentVramY,
          remainingWidth, remainingHeight, slices, result>>

-----------------------------------------------------------------------------

TPageCountX == PageX(image.mode, image.x + image.w - 1)
                 - PageX(image.mode, image.x) + 1
TPageCountY == PageY(image.y + image.h - 1) - PageY(image.y) + 1

Least(a, b) == IF a < b THEN a ELSE b

(* The rows of the slice that starts at currentVramY, and its words. *)
SliceHeight == Least(256 - (currentVramY % 256), remainingHeight)

SliceWidth == Least(WordPerTPage(image.mode)
                      - (currentVramX % WordPerTPage(image.mode)),
                    remainingWidth)

(* The column of its page where the slice starts, in pixels. *)
OffsetInWords == currentVramX % WordPerTPage(image.mode)   \* mutant: in words
OffsetInPixels ==
  (currentVramX % WordPerTPage(image.mode)) * PixelPerWord(image.mode)

(* The sprite and the page of the slice. *)
Slice ==
  [x |-> drawX, y |-> drawY,
   w |-> SliceWidth * PixelPerWord(image.mode), h |-> SliceHeight,
   u |-> OffsetInPixels,
   v |-> currentVramY % 256,
   tPageX |-> PageX(image.mode, currentVramX) * WordPerTPage(image.mode),
   tPageY |-> PageY(currentVramY) * 256]

DrawInit ==
  /\ image \in Images
  /\ pos \in Positions
  /\ free \in FreeEntries
  /\ j = 0 /\ i = 0
  /\ drawX = pos[1] /\ drawY = pos[2]
  /\ currentVramX = image.x /\ currentVramY = image.y
  /\ remainingWidth = image.w /\ remainingHeight = image.h
  /\ slices = {}
  /\ result = "none"

(* The loops are still running. *)
Running == result = "none" /\ j < TPageCountY

(* One turn of the inner loop: fetch an entry, emit the slice, move right.  *)
DrawSlice ==
  /\ Running
  /\ i < TPageCountX
  /\ free > 0
  /\ free' = free - 1
  /\ slices' = slices \cup {Slice}
  /\ currentVramX' = currentVramX + SliceWidth
  /\ remainingWidth' = remainingWidth - SliceWidth
  /\ drawX' = drawX + SliceWidth * PixelPerWord(image.mode)
  /\ i' = i + 1
  /\ UNCHANGED <<image, pos, j, drawY, currentVramY, remainingHeight, result>>

(* TextureTable_Fetch answers NULL: return -1 with the rest not drawn. *)
OutOfEntries ==
  /\ Running
  /\ i < TPageCountX
  /\ free = 0
  /\ result' = "full"
  /\ UNCHANGED <<image, pos, free, j, i, drawX, drawY, currentVramX,
                 currentVramY, remainingWidth, remainingHeight, slices>>

(* The inner loop ends: move down, and back to the left edge. *)
NextRow ==
  /\ Running
  /\ i = TPageCountX
  /\ j' = j + 1
  /\ i' = 0
  /\ currentVramY' = currentVramY + SliceHeight
  /\ remainingHeight' = remainingHeight - SliceHeight
  /\ drawY' = drawY + SliceHeight
  /\ drawX' = pos[1]
  /\ currentVramX' = image.x
  /\ remainingWidth' = image.w
  /\ UNCHANGED <<image, pos, free, slices, result>>

(* The outer loop ends: return 0. *)
Finish ==
  /\ result = "none"
  /\ j = TPageCountY
  /\ result' = "drawn"
  /\ UNCHANGED <<image, pos, free, j, i, drawX, drawY, currentVramX,
                 currentVramY, remainingWidth, remainingHeight, slices>>

DrawNext == DrawSlice \/ OutOfEntries \/ NextRow \/ Finish

DrawSpec == DrawInit /\ [][DrawNext]_drawVars /\ WF_drawVars(DrawNext)

-----------------------------------------------------------------------------

SliceType ==
  [x : Int, y : Int, w : Nat, h : Nat, u : Nat, v : Nat,
   tPageX : Nat, tPageY : Nat]

DrawTypeOK ==
  /\ image \in Images /\ pos \in Positions
  /\ free \in Nat /\ j \in Nat /\ i \in Nat
  /\ drawX \in Int /\ drawY \in Int
  /\ currentVramX \in Nat /\ currentVramY \in Nat
  /\ remainingWidth \in Nat /\ remainingHeight \in Nat
  /\ slices \subseteq SliceType
  /\ result \in {"none", "drawn", "full"}

(* The GPU reads texels u .. u+w-1 and v .. v+h-1 of the page: every slice  *)
(* stays on its page, so its coordinates fit the 8 bits of setUV0, and it   *)
(* is never empty (image.c:140-152).                                        *)
SlicesStayOnPage ==
  \A s \in slices :
    /\ s.w > 0 /\ s.u + s.w =< 256
    /\ s.h > 0 /\ s.v + s.h =< 256

(* The words of VRAM the GPU reads for slice s are those of the image that  *)
(* belong at the slice's place on the screen (image.c:149-174).             *)
SlicesShowTheirPart ==
  \A s \in slices :
    /\ (s.tPageX - image.x) * PixelPerWord(image.mode) + s.u = s.x - pos[1]
    /\ s.tPageY + s.v - image.y = s.y - pos[2]

(* The far edges of the picture. *)
Right == pos[1] + image.w * PixelPerWord(image.mode)
Bottom == pos[2] + image.h

(* No two slices overlap on the screen, and none leaves the rectangle the   *)
(* image should fill: a semi-transparent image is blended once per pixel    *)
(* (image.c:124-178).                                                       *)
SlicesDisjoint ==
  \A s, t \in slices :
    /\ s # t => \/ s.x + s.w =< t.x \/ t.x + t.w =< s.x
                \/ s.y + s.h =< t.y \/ t.y + t.h =< s.y
    /\ pos[1] =< s.x /\ s.x + s.w =< Right
    /\ pos[2] =< s.y /\ s.y + s.h =< Bottom

(* A call that returns 0 has drawn the whole picture, with as many entries  *)
(* as the image spans pages: one slice is at the corner, and behind and     *)
(* below each lies the edge of the picture or the next slice of its row and *)
(* of its column (image.c:114-119, 179-181).                                *)
DrawnMeansWhole ==
  result = "drawn" =>
    /\ \E s \in slices : s.x = pos[1] /\ s.y = pos[2]
    /\ \A s \in slices :
         /\ s.x + s.w = Right
              \/ \E t \in slices : t.x = s.x + s.w /\ t.y = s.y /\ t.h = s.h
         /\ s.y + s.h = Bottom
              \/ \E t \in slices : t.y = s.y + s.h /\ t.x = s.x /\ t.w = s.w
    /\ Cardinality(slices) = TPageCountX * TPageCountY

(* However an image lies across the pages, what is drawn of it is its part  *)
(* of the picture, once, and all of it if the call says so (image.c).       *)
ImageIsDrawn ==
  /\ DrawTypeOK /\ SlicesStayOnPage /\ SlicesShowTheirPart
  /\ SlicesDisjoint /\ DrawnMeansWhole

(* Every call returns. *)
CallReturns == <>(result # "none")

=============================================================================
