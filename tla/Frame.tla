------------------------------- MODULE Frame -------------------------------
(***************************************************************************)
(* One frame after another: Renderer_DrawScene (scene.c) puts the text and *)
(* then the images on the ordering table, Renderer_Refresh (renderer.c)    *)
(* gives the table to the GPU, waits for it, and starts over.  The GPU     *)
(* walks the table by itself, through memory the next frame will reuse.    *)
(*                                                                         *)
(* Every primitive is linked into entry 0 of the ordering table, the last  *)
(* one the GPU comes to, so the other entries are left out.  addPrim puts  *)
(* a primitive in front of those before it: the GPU meets them in reverse. *)
(* FntFlush draws from memory of its own and is left out.                  *)
(***************************************************************************)
EXTENDS Integers, SequencesExt

CONSTANTS
  TEXTABLE_SIZE,    \* entries of the texture table
  Frames            \* what scenes draw: [glyphs, images], images a sequence

ASSUME TableAssumption == TEXTABLE_SIZE \in Nat \ {0}

(* An image of n slices, which all use one page in this model. *)
ASSUME FramesAssumption ==
  Frames \subseteq [glyphs : Nat,
                    images : Seq([slices : Nat, page : STRING, semi : BOOLEAN])]

TextPage == "text"

VARIABLES
  pc,               \* where the main loop is
  frame,            \* the frame being built or shown
  glyph,            \* glyphs of its text drawn so far
  picture, slice,   \* the image being drawn, and slices of it drawn so far
  textEntry,        \* the entry whose tPage the text uses
  spriteTableIndex,
  sprt, tPage,      \* the table's sprites and pages, by entry
  link,             \* the address each primitive links to
  gpu,              \* the address the GPU is at, or Idle
  gpuPage,          \* the page the GPU draws from
  painted           \* what the GPU has drawn since the screen was cleared

cpuVars == <<pc, frame, glyph, picture, slice, textEntry>>
table == <<spriteTableIndex, sprt, tPage, link>>
gpuVars == <<gpu, gpuPage, painted>>
frameVars == <<cpuVars, table, gpuVars>>

-----------------------------------------------------------------------------
(* Addresses.  NULL taken for a Texture is the memory at address 0, which   *)
(* can be written and walked like any entry.                                *)

Entries == 0 .. TEXTABLE_SIZE - 1
NULL == TEXTABLE_SIZE
Memory == Entries \cup {NULL}

Sprite(e) == <<"sprt", e>>
Page(e) == <<"tPage", e>>
OT == <<"ot", 0>>
End == <<"end", 0>>
Idle == <<"idle", 0>>
Primitives == {OT} \cup {Sprite(e) : e \in Memory} \cup {Page(e) : e \in Memory}

(* The entry TextureTable_Fetch answers, and what it makes of the index. *)
Full == spriteTableIndex >= TEXTABLE_SIZE
Fetched == IF Full THEN NULL ELSE spriteTableIndex
TextureTable_Fetch ==
  spriteTableIndex' = IF Full THEN spriteTableIndex ELSE spriteTableIndex + 1

(* addPrim: p in front of what is on links l. *)
addPrim(l, p) == [l EXCEPT ![p] = l[OT], ![OT] = p]

(* The sprite of part n of what: SetSprt starts from an opaque one. *)
NewSprite(what, n, semi) == [of |-> what, part |-> n, semi |-> semi]
NoSprite == NewSprite(TextPage, 0, FALSE)

-----------------------------------------------------------------------------

FrameInit ==
  /\ pc = "text"
  /\ frame \in Frames
  /\ glyph = 0 /\ picture = 1 /\ slice = 0
  /\ textEntry = 0
  /\ spriteTableIndex = 0
  /\ sprt = [e \in Memory |-> NoSprite]
  /\ tPage = [e \in Memory |-> TextPage]
  /\ link = [p \in Primitives |-> End]
  /\ gpu = Idle
  /\ gpuPage = TextPage
  /\ painted = <<>>

(* Renderer_DrawText, before its loop: one entry for the page of the text. *)
FetchTextPage ==
  /\ pc = "text"
  /\ textEntry' = Fetched
  /\ TextureTable_Fetch
  /\ tPage' = [tPage EXCEPT ![Fetched] = TextPage]
  /\ pc' = "glyphs"
  /\ UNCHANGED <<frame, glyph, picture, slice, sprt, link, gpuVars>>

(* One turn of its loop: the entry is not checked. *)
AddGlyph ==
  /\ pc = "glyphs"
  /\ glyph < frame.glyphs
  /\ glyph' = glyph + 1
  /\ TextureTable_Fetch
  /\ sprt' = [sprt EXCEPT ![Fetched] = NewSprite(TextPage, glyph + 1, TRUE)]
  /\ link' = addPrim(link, Sprite(Fetched))
  /\ UNCHANGED <<pc, frame, picture, slice, textEntry, tPage, gpuVars>>

(* After its loop. *)
AddTextPage ==
  /\ pc = "glyphs"
  /\ glyph = frame.glyphs
  /\ link' = addPrim(link, Page(textEntry))
  /\ pc' = "images"
  /\ UNCHANGED <<frame, glyph, picture, slice, textEntry, spriteTableIndex, sprt,
                 tPage, gpuVars>>

Drawing == pc = "images" /\ picture =< Len(frame.images)

(* Renderer_DrawImage: one slice, its sprite and then its page. *)
AddSlice ==
  /\ Drawing
  /\ slice < frame.images[picture].slices
  /\ Fetched # NULL
  /\ slice' = slice + 1
  /\ TextureTable_Fetch
  /\ LET e == Fetched
         i == frame.images[picture]
     IN /\ sprt' = [sprt EXCEPT ![e] = NewSprite(i.page, slice + 1, i.semi)]
        /\ tPage' = [tPage EXCEPT ![e] = i.page]
        /\ link' = addPrim(addPrim(link, Sprite(e)), Page(e))
  /\ UNCHANGED <<pc, frame, glyph, picture, textEntry, gpuVars>>

(* It returns 0, or -1 when there is no entry left; the caller in scene.c   *)
(* goes on to the next image in either case.                                *)
NextImage ==
  /\ Drawing
  /\ slice = frame.images[picture].slices \/ Fetched = NULL
  /\ picture' = picture + 1
  /\ slice' = 0
  /\ UNCHANGED <<pc, frame, glyph, textEntry, table, gpuVars>>

(* Renderer_Refresh: DrawOTag starts the GPU. *)
DrawOTag ==
  /\ pc = "images"
  /\ picture > Len(frame.images)
  /\ gpu' = OT
  /\ pc' = "drawsync"
  /\ UNCHANGED <<frame, glyph, picture, slice, textEntry, table, gpuPage, painted>>

(* DrawSync(0) waits until the GPU has come to the end. *)
DrawNoSync ==   \* mutant: nobody waits for the GPU
  /\ pc = "drawsync"
  /\ pc' = "vsync"
  /\ UNCHANGED <<frame, glyph, picture, slice, textEntry, table, gpuVars>>

DrawSync ==
  /\ pc = "drawsync"
  /\ gpu = Idle
  /\ pc' = "vsync"
  /\ UNCHANGED <<frame, glyph, picture, slice, textEntry, table, gpuVars>>

(* VSync(0) has waited for the vertical blank: PutDrawEnv clears the        *)
(* screen, ClearOTagR and TextureTable_Refresh empty the tables, and the    *)
(* main loop comes round with the next frame.                               *)
IndexKept == UNCHANGED spriteTableIndex   \* mutant: never refreshed
TextureTable_Refresh == spriteTableIndex' = 0
ClearOTagR == link' = [link EXCEPT ![OT] = End]

NextFrame ==
  /\ pc = "vsync"
  /\ painted' = <<>>
  /\ ClearOTagR
  /\ TextureTable_Refresh
  /\ pc' = "text"
  /\ frame' \in Frames
  /\ glyph' = 0 /\ picture' = 1 /\ slice' = 0
  /\ UNCHANGED <<textEntry, sprt, tPage, gpu, gpuPage>>

(* The primitives of a list that ends are at most all there are; the        *)
(* painting is recorded up to that many.                                    *)
Record(s) == IF Len(painted) > TEXTABLE_SIZE THEN painted
                                             ELSE Append(painted, s)

(* The GPU: the primitive it is at, and on to the next. *)
Walk ==
  /\ gpu # Idle
  /\ gpu' = IF link[gpu] = End THEN Idle ELSE link[gpu]
  /\ \/ /\ gpu[1] = "ot"
        /\ UNCHANGED <<gpuPage, painted>>
     \/ /\ gpu[1] = "tPage"
        /\ gpuPage' = tPage[gpu[2]]
        /\ UNCHANGED painted
     \/ /\ gpu[1] = "sprt"
        /\ painted' = Record([sprt |-> sprt[gpu[2]], page |-> gpuPage])
        /\ UNCHANGED gpuPage
  /\ UNCHANGED <<cpuVars, table>>

Cpu ==
  \/ FetchTextPage \/ AddGlyph \/ AddTextPage
  \/ AddSlice \/ NextImage
  \/ DrawOTag \/ DrawSync \/ NextFrame

FrameNext == Cpu \/ Walk

(* The main loop never ends, the vertical blank comes, the GPU goes on. *)
FrameSpec == FrameInit /\ [][FrameNext]_frameVars /\ WF_frameVars(Cpu) /\ WF_frameVars(Walk)

-----------------------------------------------------------------------------

(* What the variables hold; every fetched entry is in the table or NULL. *)
FrameTypeOK ==
  /\ pc \in {"text", "glyphs", "images", "drawsync", "vsync"}
  /\ frame \in Frames
  /\ glyph \in 0 .. frame.glyphs
  /\ picture \in 1 .. Len(frame.images) + 1
  /\ slice \in Nat
  /\ textEntry \in Memory
  /\ spriteTableIndex \in 0 .. TEXTABLE_SIZE
  /\ DOMAIN sprt = Memory /\ DOMAIN tPage = Memory
  /\ link \in [Primitives -> Primitives \cup {End}]
  /\ gpu \in Primitives \cup {Idle}

(* The frame's text leaves no more than one glyph without an entry. *)
TextFits(f) == f.glyphs =< TEXTABLE_SIZE

(* What frame f should look like, in the order its parts are painted: each  *)
(* with its own page and its own transparency, the text over the images and *)
(* earlier images over later ones.  When the table is full the images drawn *)
(* last are missing from the first slice that got no entry on.              *)
Parts(i) == [n \in 1 .. i.slices |->
               [sprt |-> NewSprite(i.page, n, i.semi), page |-> i.page]]
TextParts(f) == [n \in 1 .. f.glyphs |->
                   [sprt |-> NewSprite(TextPage, n, TRUE), page |-> TextPage]]
ImageParts(f) == FlattenSeq([n \in DOMAIN f.images |-> Parts(f.images[n])])
Room(f) == IF f.glyphs + 1 >= TEXTABLE_SIZE THEN 0
           ELSE TEXTABLE_SIZE - 1 - f.glyphs
Picture(f) ==
  Reverse(TextParts(f)
          \o SubSeq(ImageParts(f), 1,
                    IF Len(ImageParts(f)) < Room(f) THEN Len(ImageParts(f))
                                                    ELSE Room(f)))

(* When DrawSync returns, the GPU has painted the frame as it was built,    *)
(* and nothing of the frame before it: not a stale page, a stale            *)
(* transparency or a sprite of a reused entry (renderer.c:52-71,            *)
(* image.c:130-172, font.c:82-102).                                         *)
PictureAsBuilt == pc = "vsync" => painted = Picture(frame)

FrameIsPainted == FrameTypeOK /\ PictureAsBuilt

(* The program never writes the texture table or the ordering table while   *)
(* the GPU walks them (renderer.c:54-70).                                   *)
TablesStableWhileDrawn == [][gpu # Idle => UNCHANGED table]_frameVars

(* Every frame is shown, whose text leaves at most one glyph without an     *)
(* entry; with two, the ordering table links the memory at NULL to itself   *)
(* and the GPU never comes to its end (font.c:82-97, renderer.c:7-11).      *)
FrameCompletes == pc = "drawsync" /\ TextFits(frame) ~> pc = "vsync"

=============================================================================
