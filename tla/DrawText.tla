------------------------------ MODULE DrawText ------------------------------
(***************************************************************************)
(* Renderer_DrawText (font.c), called frame after frame with one text: the *)
(* typewriter lets one more character through each time, and the loop lays *)
(* out the characters anew, from the first.  One action is one turn of the *)
(* loop; a case of its switch is an action of its own.                     *)
(*                                                                         *)
(* The texture table, which this function does not check, is Frame's.      *)
(***************************************************************************)
EXTENDS Integers, SequencesExt

CONSTANTS
  SCREEN_WIDTH,
  Texts,        \* the texts drawn: sequences of characters
  ArgX, ArgY,   \* the arguments x and y
  charData,     \* [characters with a glyph -> [u, v, w]]
  charHeight,
  FONTVRAM_X, FONTVRAM_Y    \* where font.h puts the font, a 4-bit image

Space == "space"
NewLine == "newline"
NORMAL == 0
TYPEWRITER == 1

(* The texts have no character that indices maps to NOT_PRESENT. *)
ASSUME TextsAssumption ==
  /\ Texts \subseteq Seq(DOMAIN charData \cup {Space, NewLine})
  /\ {Space, NewLine} \cap DOMAIN charData = {}

(* font.h puts the font at the left side of a page, in which it ends.       *)
ASSUME FontAssumption ==
  /\ charHeight \in Nat \ {0}
  /\ FONTVRAM_X \in Nat /\ FONTVRAM_Y \in Nat
  /\ FONTVRAM_X % 64 = 0
  /\ \A c \in DOMAIN charData :
       /\ charData[c] \in [u : Nat, v : Nat, w : Nat \ {0}]
       /\ charData[c].u + charData[c].w =< 256
       /\ charData[c].v + (FONTVRAM_Y % 256) + charHeight =< 256
ASSUME PlaceAssumption ==
  ArgX \in 0 .. SCREEN_WIDTH - 1 /\ ArgY \in Nat /\ SCREEN_WIDTH \in Nat

VARIABLES
  textPc,           \* "called" between calls, "loop" inside one
  text, displayType,
  stringCounter,    \* the caller's, kept from frame to frame
  at, textX, textY, \* of the loop: i, drawX, drawY
  glyphs,           \* the sprites of this frame: [x, y, u, v, of]
  written,          \* what the last call returned
  lastGlyphs,       \* history: the sprites of the frame before
  spaceWrapped      \* history: in this frame a space went past the edge

textVars == <<textPc, text, displayType, stringCounter, at, textX, textY, glyphs,
              written, lastGlyphs, spaceWrapped>>

-----------------------------------------------------------------------------
(* The page of the font, and its corner on it: the constants of a 4-bit     *)
(* image, pages 64 words wide and 4 pixels a word.                          *)

tPageX == (FONTVRAM_X \div 64) * 64
tPageY == (FONTVRAM_Y \div 256) * 256
imageOffsetX == ((FONTVRAM_X \div 2) % 4) * 2  \* & bitsPerTPage, 6: bits 1 and 2
imageOffsetY == FONTVRAM_Y % 256

stringLength == Len(text)
LineHeight == charHeight + 2

TextInit ==
  /\ textPc = "called"
  /\ text \in Texts
  /\ displayType \in {NORMAL, TYPEWRITER}
  /\ stringCounter = 0
  /\ at = 0 /\ textX = ArgX /\ textY = ArgY
  /\ glyphs = <<>> /\ lastGlyphs = <<>>
  /\ written = 0
  /\ spaceWrapped = FALSE

(* The characters this call draws. *)
Counted ==
  IF displayType = TYPEWRITER
  THEN IF stringCounter < stringLength THEN stringCounter + 1 ELSE stringCounter
  ELSE stringLength

(* The call, up to its loop. *)
StartX == ArgX
Renderer_DrawText ==
  /\ textPc = "called"
  /\ stringCounter' = Counted
  /\ at' = 0 /\ textX' = StartX /\ textY' = ArgY
  /\ glyphs' = <<>> /\ lastGlyphs' = glyphs
  /\ spaceWrapped' = FALSE
  /\ textPc' = "loop"
  /\ UNCHANGED <<text, displayType, written>>

(* The next character of the loop is c. *)
Reads(c) == textPc = "loop" /\ at < stringCounter /\ text[at + 1] = c

(* A space that passes the edge goes back to the start of its own line. *)
DrawSpace ==
  /\ Reads(Space)
  /\ textX' = IF textX + 3 > SCREEN_WIDTH THEN ArgX ELSE textX + 3
  /\ spaceWrapped' = (spaceWrapped \/ textX + 3 > SCREEN_WIDTH)
  /\ at' = at + 1
  /\ UNCHANGED <<textPc, text, displayType, stringCounter, textY, glyphs, written,
                 lastGlyphs>>

DrawNewLine ==
  /\ Reads(NewLine)
  /\ textX' = ArgX
  /\ textY' = textY + LineHeight
  /\ at' = at + 1
  /\ UNCHANGED <<textPc, text, displayType, stringCounter, glyphs, written,
                 lastGlyphs, spaceWrapped>>

(* Any other character, on a new line if this one is full. *)
FullPast == textX > SCREEN_WIDTH   \* mutant: off by one
LineFull == textX >= SCREEN_WIDTH
WrapY == textY + LineHeight
DrawGlyph(c) ==
  /\ Reads(c)
  /\ LET x == IF LineFull THEN ArgX ELSE textX
         y == IF LineFull THEN WrapY ELSE textY
     IN /\ glyphs' = Append(glyphs,
                       [x |-> x, y |-> y, u |-> charData[c].u + imageOffsetX,
                        v |-> charData[c].v + imageOffsetY, of |-> c])
        /\ textX' = x + charData[c].w
        /\ textY' = y
  /\ at' = at + 1
  /\ UNCHANGED <<textPc, text, displayType, stringCounter, written, lastGlyphs,
                 spaceWrapped>>

(* After the loop. *)
TextReturn ==
  /\ textPc = "loop"
  /\ at = stringCounter
  /\ written' = IF stringLength = stringCounter THEN 1 ELSE 0
  /\ textPc' = "called"
  /\ UNCHANGED <<text, displayType, stringCounter, at, textX, textY, glyphs,
                 lastGlyphs, spaceWrapped>>

TextNext ==
  \/ Renderer_DrawText
  \/ DrawSpace \/ DrawNewLine \/ \E c \in DOMAIN charData : DrawGlyph(c)
  \/ TextReturn

(* The main loop draws a frame every time round. *)
TextSpec == TextInit /\ [][TextNext]_textVars /\ WF_textVars(TextNext)

-----------------------------------------------------------------------------

Glyph == [x : Nat, y : Nat, u : Nat, v : Nat, of : DOMAIN charData]

TextTypeOK ==
  /\ textPc \in {"called", "loop"}
  /\ text \in Texts /\ displayType \in {NORMAL, TYPEWRITER}
  /\ stringCounter \in 0 .. stringLength /\ at \in 0 .. stringCounter
  /\ textX \in Nat /\ textY \in Nat
  /\ glyphs \in Seq(Glyph) /\ lastGlyphs \in Seq(Glyph)
  /\ written \in {0, 1} /\ spaceWrapped \in BOOLEAN

(* Every glyph begins on the screen: no text runs off its right side,       *)
(* however its characters and spaces fall (font.c:58-62, 77-80).            *)
GlyphsBeginOnScreen ==
  \A k \in DOMAIN glyphs : glyphs[k].x \in ArgX .. SCREEN_WIDTH - 1

(* The glyphs stand in reading order, none over the one before it: each is  *)
(* right of its predecessor or on a lower line, and at the start of it --   *)
(* unless a space passed the edge, after which the line is written over     *)
(* (font.c:54-100).                                                         *)
ReadingOrder ==
  ~spaceWrapped =>
    \A k \in 1 .. Len(glyphs) - 1 :
      LET g == glyphs[k]
          h == glyphs[k + 1]
      IN \/ h.y = g.y /\ h.x >= g.x + charData[g.of].w
         \/ h.y >= g.y + LineHeight

(* The text is laid out anew in every frame, with more of its characters;   *)
(* no glyph moves or changes from one frame to the next (font.c:34-35,      *)
(* 48-54).                                                                  *)
GlyphsNeverMove == textPc = "called" => IsPrefix(lastGlyphs, glyphs)

(* The texels the GPU reads for a glyph are those of its character in the   *)
(* font's image: page, offset and coordinates agree (font.c:37-46, 89-90).  *)
GlyphsShowTheirCharacter ==
  \A k \in DOMAIN glyphs :
    LET g == glyphs[k]
    IN /\ (tPageX - FONTVRAM_X) * 4 + g.u = charData[g.of].u
       /\ tPageY - FONTVRAM_Y + g.v = charData[g.of].v
       /\ g.u + charData[g.of].w =< 256 /\ g.v + charHeight =< 256

(* The text can be read, in every frame in which it is typed (font.c).      *)
TextIsRead ==
  /\ TextTypeOK /\ GlyphsBeginOnScreen /\ ReadingOrder
  /\ GlyphsNeverMove /\ GlyphsShowTheirCharacter

(* Every text is finished, and stays finished, with all of its glyphs on    *)
(* the screen (font.c:48-54, 103).                                          *)
AllDrawn ==
  Len(glyphs) = Len(SelectSeq(text, LAMBDA c : c \in DOMAIN charData))
TextIsWritten == <>[](textPc = "called" => written = 1 /\ AllDrawn)

=============================================================================
