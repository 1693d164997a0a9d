-------------------------- MODULE ImageLoadProofs --------------------------
(***************************************************************************)
(* Proofs about ImageLoad, for every set of files, callers and placements: *)
(* type correctness, with the two ends of the pool in order; who owns the  *)
(* buffer while the devices work; what a failed load leaves behind; that   *)
(* no load overwrites an image, a frame buffer or the font, for positions  *)
(* that lie apart; and that Image_Load implements ImageStore.              *)
(***************************************************************************)
EXTENDS ImageLoad, TLAPS

(* A call is a slot and a file, and the file has a header. *)
LEMMA CallParts ==
  ASSUME <<slot, path>> \in Calls
  PROVE  slot \in Slots /\ path \in Files /\ Tim[path] \in TimHeader
  BY CallsAssumption, TimAssumption

(* The regions an Image is copied to are regions. *)
LEMMA RegionTypes ==
  ASSUME NEW s \in Slots, images \in [Slots -> Image]
  PROVE  PixelRegion(s) \in Region /\ ClutRegion(s) \in Region
<1>1. images[s] \in Image
  OBVIOUS
<1>2. PixelRegion(s) \in Region
  BY <1>1, SMT DEF PixelRegion, Region, Image
<1>3. ClutRegion(s) \in Region
  BY <1>1, SizeAssumption, SMT DEF ClutRegion, Region, Image
<1> QED BY <1>2, <1>3

LEMMA InitTypeOK == LoadInit => TypeOK
  BY PoolAssumption, ClutAssumption, CallsAssumption, SizeAssumption, SMT
     DEF LoadInit, Init, TypeOK, NoImage, Image, Status, Places, Region, AUTO,
         Okay

(* Placing an image keeps the two ends of the pool in order. *)
LEMMA PlaceTypes ==
  ASSUME TypeOK, Place(slot, path)
  PROVE  /\ vramStart' \in PoolStart .. PoolEnd
         /\ vramEnd' \in vramStart' .. PoolEnd
         /\ clutStack' \in Nat
         /\ images' \in [Slots -> Image]
<1> DEFINE w == Tim[path].w
<1>1. /\ slot \in Slots /\ path \in Files
      /\ w \in Nat \ {0} /\ Tim[path].h \in Nat \ {0}
      /\ Tim[path].indexed \in BOOLEAN
      /\ ImageVX[path] \in Int /\ ImageVY[path] \in Int
      /\ DirOf[path] \in {"None", "Left", "Right"}
  BY CallParts, TimAssumption, SMT
     DEF TypeOK, TimHeader, AUTO, Direction, None, Left, Right
<1>2. PoolStart \in Int /\ PoolEnd \in Int
      /\ vramStart \in PoolStart .. PoolEnd /\ vramEnd \in vramStart .. PoolEnd
  BY PoolAssumption DEF TypeOK
<1>3. vramStart' \in PoolStart .. PoolEnd /\ vramEnd' \in vramStart' .. PoolEnd
  BY <1>1, <1>2, SMT
     DEF Place, Fits, VRAM_Alloc, Left, Right, None
<1>4. clutStack' \in Nat
  BY SMT DEF Place, NextClutRow, TypeOK
<1>5. images' \in [Slots -> Image]
  BY <1>1, <1>2, SMT
     DEF Place, VRAM_Alloc, Left, Right, None, TypeOK, Image
<1> QED BY <1>3, <1>4, <1>5

(* Nothing that TypeOK is about but what an action of the load changes.     *)
LEMMA StepTypeOK == ASSUME TypeOK, Step PROVE TypeOK'
<1>1. CASE OpenFile
  <2>1. /\ fp' \in {"unset", "found"}
        /\ pc' \in Places /\ status' \in Status /\ past' \in SUBSET Status
        /\ buffer' \in Nat
    BY <1>1, SMT DEF OpenFile, Return, Goto, TypeOK, Places, Status
  <2> QED BY <1>1, <2>1, Zenon DEF OpenFile, TypeOK
<1>2. CASE Malloc
  <2>1. BufferBytes(path) \in Nat
    BY CallParts, SMT DEF TypeOK, BufferBytes, SectorToByte, ByteToSector,
                          CD_SECTOR_SIZE, TimHeader
  <2>2. heapFree' \in Nat /\ buffer' \in Nat
    BY <1>2, <2>1, SMT DEF Malloc, TypeOK
  <2> QED BY <1>2, <2>2, Zenon DEF Malloc, Goto, TypeOK, Places, storeVars
<1>3. CASE MallocFails
  BY <1>3, SMT DEF MallocFails, Return, Goto, TypeOK, Places, Status
<1>4. CASE ReadFile
  <2>1. SectorToByte(ByteToSector(Tim[path].bytes)) \in Nat
    BY CallParts, SMT DEF TypeOK, SectorToByte, ByteToSector, CD_SECTOR_SIZE,
                          TimHeader
  <2>2. readStatus' \in {0, 1}
        /\ drive' \in [state : {"idle", "reading", "done", "error"}, bytes : Nat]
    BY <1>4, <2>1, SMT DEF ReadFile, File_Read, WHOLE_FILE, TypeOK
  <2> QED BY <1>4, <2>2, Zenon DEF ReadFile, Goto, TypeOK, Places, storeVars
<1>5. CASE ReadSync
  BY <1>5, SMT DEF ReadSync, Return, Goto, TypeOK, Places, Status
<1>6. CASE PlaceImage
  BY <1>6, PlaceTypes, Zenon DEF PlaceImage, Goto, TypeOK, Places
<1>7. CASE PlaceFails
  BY <1>7, SMT DEF PlaceFails, Return, Goto, TypeOK, Places, Status
<1>8. CASE PlaceUndefined
  BY <1>8, Zenon DEF PlaceUndefined, Goto, TypeOK, Places, storeVars
<1>9. CASE LoadPixels
  BY <1>9, CallParts, RegionTypes, SMT
     DEF LoadPixels, LoadImage, Goto, TypeOK, Places, storeVars
<1>10. CASE PixelSync
  BY <1>10, SMT DEF PixelSync, Goto, TypeOK, Places, storeVars
<1>11. CASE LoadClut
  BY <1>11, CallParts, RegionTypes, SMT
     DEF LoadClut, LoadImage, Goto, TypeOK, Places, storeVars
<1>12. CASE ClutSync
  BY <1>12, Zenon DEF ClutSync, Goto, TypeOK, Places, storeVars
<1>13. CASE Free
  BY <1>13, SMT DEF Free, FreeBuffer, Return, Goto, TypeOK, Places, Status
<1> QED BY <1>1, <1>2, <1>3, <1>4, <1>5, <1>6, <1>7, <1>8, <1>9, <1>10, <1>11,
           <1>12, <1>13 DEF Step

LEMMA NextTypeOK == TypeOK /\ [LoadNext]_vars => TypeOK'
<1> SUFFICES ASSUME TypeOK, [LoadNext]_vars PROVE TypeOK'
  OBVIOUS
<1>1. CASE \E c \in Calls : Image_Load(c[1], c[2])
  <2>1. PICK c \in Calls : Image_Load(c[1], c[2])
    BY <1>1
  <2>2. <<slot', path'>> \in Calls
    BY <2>1, CallsAssumption DEF Image_Load
  <2> QED BY <2>1, <2>2, Zenon DEF Image_Load, Goto, TypeOK, Places, storeVars
<1>2. CASE Step
  BY <1>2, StepTypeOK
<1>3. CASE DriveDone
  <2>1. drive' \in [state : {"idle", "reading", "done", "error"}, bytes : Nat]
    BY <1>3, SMT DEF DriveDone, TypeOK
  <2> QED BY <1>3, <2>1, Zenon DEF DriveDone, TypeOK, storeVars
<1>4. CASE GpuDone
  BY <1>4, SMT DEF GpuDone, Upload, TypeOK, storeVars
<1>5. CASE UNCHANGED vars
  BY <1>5, Zenon DEF vars, loadVars, storeVars, TypeOK
<1> QED BY <1>1, <1>2, <1>3, <1>4, <1>5 DEF LoadNext

(* Every variable keeps its type, and the two ends of the pool never cross, *)
(* whatever the callers load (image.c:5-33, 35-95).                         *)
THEOREM TypeCorrect == LoadSpec => []TypeOK
BY InitTypeOK, NextTypeOK, PTL DEF LoadSpec

-----------------------------------------------------------------------------
(* Who owns the buffer.  Between malloc and free it is as long as the file  *)
(* is in sectors; only ReadFile starts the drive, and tells it that many    *)
(* bytes; only LoadPixels and LoadClut start the GPU.                       *)

HasBuffer == pc \in {"read", "readsync", "place", "pixels", "pixelsync",
                     "clut", "clutsync", "free"}
BufferInv == HasBuffer => buffer = BufferBytes(path)
OwnerInv == TypeOK /\ BufferInv /\ DevicesOwnLiveBuffer

(* A file of at least one byte takes at least one sector. *)
LEMMA SectorsPositive ==
  ASSUME NEW n \in Nat \ {0}
  PROVE  SectorToByte(ByteToSector(n)) \in Nat \ {0}
<1>1. (n + 2047) \div 2048 \in Nat /\ (n + 2047) \div 2048 >= 1
  BY SMT
<1> QED BY <1>1, SMT DEF SectorToByte, ByteToSector, CD_SECTOR_SIZE

LEMMA BufferPositive ==
  ASSUME TypeOK
  PROVE  BufferBytes(path) \in Nat \ {0}
<1>1. Tim[path].bytes \in Nat \ {0}
  BY CallParts DEF TypeOK, TimHeader
<1> QED BY <1>1, SectorsPositive DEF BufferBytes

LEMMA InitOwnerInv == LoadInit => OwnerInv
  BY InitTypeOK, SMT
     DEF LoadInit, OwnerInv, BufferInv, HasBuffer, DevicesOwnLiveBuffer

(* A step of the load: it moves on from a wait only when the device has     *)
(* stopped.                                                                 *)
LEMMA StepOwnerInv == ASSUME OwnerInv, Step PROVE (BufferInv /\ DevicesOwnLiveBuffer)'
<1> USE DEF OwnerInv, BufferInv, HasBuffer, DevicesOwnLiveBuffer, Goto, Return,
            BufferBytes
<1>1. CASE OpenFile
  BY <1>1, Zenon DEF OpenFile
<1>2. CASE Malloc
  BY <1>2, BufferPositive, Zenon DEF Malloc
<1>3. CASE MallocFails
  BY <1>3, Zenon DEF MallocFails
<1>4. CASE ReadFile
  <2>1. buffer = SectorToByte(ByteToSector(Tim[path].bytes)) /\ buffer \in Nat
    BY <1>4, BufferPositive DEF ReadFile
  <2> QED BY <1>4, <2>1, SMT DEF ReadFile, File_Read, WHOLE_FILE
<1>5. CASE ReadSync
  BY <1>5, Zenon DEF ReadSync, DriveStopped
<1>6. CASE PlaceImage
  BY <1>6, Zenon DEF PlaceImage
<1>7. CASE PlaceFails
  BY <1>7, Zenon DEF PlaceFails
<1>8. CASE PlaceUndefined
  BY <1>8, Zenon DEF PlaceUndefined
<1>9. CASE LoadPixels
  BY <1>9, BufferPositive, SMT DEF LoadPixels, LoadImage
<1>10. CASE PixelSync
  BY <1>10, SMT DEF PixelSync
<1>11. CASE LoadClut
  BY <1>11, BufferPositive, SMT DEF LoadClut, LoadImage
<1>12. CASE ClutSync
  BY <1>12, Zenon DEF ClutSync
<1>13. CASE Free
  BY <1>13, Zenon DEF Free
<1> QED BY <1>1, <1>2, <1>3, <1>4, <1>5, <1>6, <1>7, <1>8, <1>9, <1>10, <1>11,
           <1>12, <1>13 DEF Step

LEMMA NextOwnerInv == OwnerInv /\ [LoadNext]_vars => OwnerInv'
<1> SUFFICES ASSUME OwnerInv, [LoadNext]_vars
             PROVE  (BufferInv /\ DevicesOwnLiveBuffer)'
  BY NextTypeOK DEF OwnerInv
<1> USE DEF OwnerInv, BufferInv, HasBuffer, DevicesOwnLiveBuffer, Goto,
            BufferBytes
<1>1. CASE \E c \in Calls : Image_Load(c[1], c[2])
  BY <1>1, Zenon DEF Image_Load
<1>2. CASE Step
  BY <1>2, StepOwnerInv, Zenon
<1>3. CASE DriveDone
  BY <1>3, SMT DEF DriveDone, TypeOK
<1>4. CASE GpuDone
  BY <1>4, Zenon DEF GpuDone
<1>5. CASE UNCHANGED vars
  BY <1>5, Zenon DEF vars, loadVars
<1> QED BY <1>1, <1>2, <1>3, <1>4, <1>5 DEF LoadNext

(* Neither the drive nor the GPU ever works on a buffer the program has     *)
(* left, and the drive never writes past its end (file.c:13-15,             *)
(* image.c:45-46, 82-92).                                                   *)
THEOREM BufferOwned == LoadSpec => []DevicesOwnLiveBuffer
<1>1. OwnerInv => DevicesOwnLiveBuffer
  BY DEF OwnerInv
<1> QED BY <1>1, InitOwnerInv, NextOwnerInv, PTL DEF LoadSpec

-----------------------------------------------------------------------------
(* What a load has done before it places the image: nothing but find the    *)
(* file.                                                                    *)

Unplaced == pc \in {"open", "malloc", "read", "readsync", "place"}
FailInv ==
  /\ TypeOK
  /\ Unplaced => Store = before
  /\ FailedLoadTakesNothing
  /\ OnlyFoundFilesAreRead

LEMMA InitFailInv == LoadInit => FailInv
  BY InitTypeOK, SMT
     DEF LoadInit, Init, FailInv, Unplaced, FailedLoadTakesNothing,
         OnlyFoundFilesAreRead

LEMMA StepFailInv ==
  ASSUME FailInv, Step
  PROVE  (/\ Unplaced => Store = before
          /\ FailedLoadTakesNothing
          /\ OnlyFoundFilesAreRead)'
<1> USE DEF FailInv, Unplaced, FailedLoadTakesNothing, OnlyFoundFilesAreRead,
            Goto, Return, Store, storeVars
<1>1. CASE OpenFile
  BY <1>1, SMT DEF OpenFile, File_Open, Okay, FileFindError
<1>2. CASE Malloc
  BY <1>2, Zenon DEF Malloc
<1>3. CASE MallocFails
  BY <1>3, Zenon DEF MallocFails
<1>4. CASE ReadFile
  BY <1>4, Zenon DEF ReadFile
<1>5. CASE ReadSync
  BY <1>5, SMT DEF ReadSync
<1>6. CASE PlaceImage
  BY <1>6, Zenon DEF PlaceImage
<1>7. CASE PlaceFails
  BY <1>7, Zenon DEF PlaceFails
<1>8. CASE PlaceUndefined
  BY <1>8, Zenon DEF PlaceUndefined
<1>9. CASE LoadPixels
  BY <1>9, Zenon DEF LoadPixels, LoadImage
<1>10. CASE PixelSync
  BY <1>10, SMT DEF PixelSync
<1>11. CASE LoadClut
  BY <1>11, Zenon DEF LoadClut, LoadImage
<1>12. CASE ClutSync
  BY <1>12, Zenon DEF ClutSync
<1>13. CASE Free
  BY <1>13, Zenon DEF Free
<1> QED BY <1>1, <1>2, <1>3, <1>4, <1>5, <1>6, <1>7, <1>8, <1>9, <1>10, <1>11,
           <1>12, <1>13 DEF Step

LEMMA NextFailInv == FailInv /\ [LoadNext]_vars => FailInv'
<1> SUFFICES ASSUME FailInv, [LoadNext]_vars
             PROVE  (/\ Unplaced => Store = before
                     /\ FailedLoadTakesNothing
                     /\ OnlyFoundFilesAreRead)'
  BY NextTypeOK DEF FailInv
<1> USE DEF FailInv, Unplaced, FailedLoadTakesNothing, OnlyFoundFilesAreRead,
            Goto, Store, storeVars
<1>1. CASE \E c \in Calls : Image_Load(c[1], c[2])
  BY <1>1, Zenon DEF Image_Load
<1>2. CASE Step
  BY <1>2, StepFailInv, Zenon
<1>3. CASE DriveDone
  BY <1>3, Zenon DEF DriveDone
<1>4. CASE GpuDone
  BY <1>4, Zenon DEF GpuDone
<1>5. CASE UNCHANGED vars
  BY <1>5, Zenon DEF vars, loadVars
<1> QED BY <1>1, <1>2, <1>3, <1>4, <1>5 DEF LoadNext

(* A load that answers an error has taken no column, no palette row and no  *)
(* Image, wherever it failed (image.c:35-65).                               *)
THEOREM FailureTakesNothing == LoadSpec => []FailedLoadTakesNothing
<1>1. FailInv => FailedLoadTakesNothing
  BY DEF FailInv
<1> QED BY <1>1, InitFailInv, NextFailInv, PTL DEF LoadSpec

(* Image_Load never goes on with a File that CdSearchFile did not fill in,  *)
(* although File_Open's status is inverted (file.c:4, image.c:39-42).       *)
THEOREM FoundBeforeRead == LoadSpec => []OnlyFoundFilesAreRead
<1>1. FailInv => OnlyFoundFilesAreRead
  BY DEF FailInv
<1> QED BY <1>1, InitFailInv, NextFailInv, PTL DEF LoadSpec

-----------------------------------------------------------------------------
(* The refinement.  A load commits in PlaceImage and fails in the step that *)
(* returns an error; every other step changes nothing the store can see.    *)

(* The two read the pool alike. *)
LEMMA SamePool ==
  ASSUME NEW w, NEW d, NEW f
  PROVE  /\ Abstract!FromPool(f) <=> FromPool(f)
         /\ Abstract!Fits(w, d) <=> Fits(w, d)
         /\ Abstract!VRAM_Alloc(w, d) = VRAM_Alloc(w, d)
BY Zenon DEF FromPool, Fits, VRAM_Alloc, AUTO, Left, Right,
   Abstract!FromPool, Abstract!Fits, Abstract!VRAM_Alloc, Abstract!AUTO,
   Abstract!Left, Abstract!Right

LEMMA StepImplements ==
  ASSUME TypeOK, Step
  PROVE  [Abstract!Next]_(Abstract!storeVars)
<1> USE DEF Committed, Uploading, Goto, Return, storeVars, Abstract!storeVars,
            Okay, Abstract!Okay
<1> DEFINE Fails == /\ UNCHANGED <<vramStart, vramEnd, clutStack, images>>
                    /\ status' \in {FileLoadError, MallocError, FileReadError}
                    /\ pc' = "idle"
<1>a. Fails => Abstract!LoadFails
  BY SMT DEF Abstract!LoadFails, Abstract!FileLoadError, Abstract!MallocError,
             Abstract!FileReadError, FileLoadError, MallocError, FileReadError
<1>1. CASE OpenFile
  BY <1>1, <1>a, SMT DEF OpenFile, Abstract!Next
<1>2. CASE Malloc
  BY <1>2, Zenon DEF Malloc
<1>3. CASE MallocFails
  BY <1>3, <1>a, SMT DEF MallocFails, Abstract!Next
<1>4. CASE ReadFile
  BY <1>4, Zenon DEF ReadFile
<1>5. CASE ReadSync
  BY <1>5, <1>a, SMT DEF ReadSync, Abstract!Next
<1>6. CASE PlaceImage
  <2>1. Abstract!Place(slot, path)
    BY <1>6, SamePool, Zenon
       DEF PlaceImage, Place, NextClutRow, Abstract!Place, Abstract!NextClutRow
  <2>2. Abstract!LoadOkay(slot, path)
    BY <1>6, <2>1, SMT DEF PlaceImage, Abstract!LoadOkay
  <2> QED BY <2>2 DEF TypeOK, Abstract!Next
<1>7. CASE PlaceFails
  <2>1. Abstract!LoadFull(path)
    BY <1>7, SamePool, Zenon
       DEF PlaceFails, VRAMError, Abstract!LoadFull, Abstract!VRAMError
  <2> QED BY <2>1 DEF TypeOK, Abstract!Next
<1>8. CASE PlaceUndefined
  BY <1>8, Zenon DEF PlaceUndefined
<1>9. CASE LoadPixels
  BY <1>9, Zenon DEF LoadPixels, LoadImage
<1>10. CASE PixelSync
  BY <1>10, SMT DEF PixelSync
<1>11. CASE LoadClut
  BY <1>11, Zenon DEF LoadClut, LoadImage
<1>12. CASE ClutSync
  BY <1>12, Zenon DEF ClutSync
<1>13. CASE Free
  BY <1>13, SMT DEF Free
<1> QED BY <1>1, <1>2, <1>3, <1>4, <1>5, <1>6, <1>7, <1>8, <1>9, <1>10, <1>11,
           <1>12, <1>13 DEF Step

(* Image_Load, with its waits, its failures and the devices beside it,      *)
(* implements the atomic load of ImageStore (image.c:35-95).                *)
THEOREM LoadImplementsStore == LoadSpec => ImplementsImageStore
<1>1. LoadInit => Abstract!Init
  BY SMT DEF LoadInit, Init, NoImage, AUTO, Abstract!Init, Abstract!NoImage,
             Abstract!AUTO, Committed, Uploading, Okay, Abstract!Okay
<1>2. TypeOK /\ [LoadNext]_vars => [Abstract!Next]_(Abstract!storeVars)
  <2> SUFFICES ASSUME TypeOK, [LoadNext]_vars
               PROVE  [Abstract!Next]_(Abstract!storeVars)
    OBVIOUS
  <2> USE DEF Committed, Uploading, Goto, storeVars, Abstract!storeVars
  <2>1. CASE \E c \in Calls : Image_Load(c[1], c[2])
    BY <2>1, SMT DEF Image_Load
  <2>2. CASE Step
    BY <2>2, StepImplements
  <2>3. CASE DriveDone
    BY <2>3, Zenon DEF DriveDone
  <2>4. CASE GpuDone
    BY <2>4, Zenon DEF GpuDone
  <2>5. CASE UNCHANGED vars
    BY <2>5, Zenon DEF vars, loadVars
  <2> QED BY <2>1, <2>2, <2>3, <2>4, <2>5 DEF LoadNext
<1> QED BY <1>1, <1>2, InitTypeOK, NextTypeOK, PTL
        DEF LoadSpec, ImplementsImageStore, Abstract!Spec

(* A load touches nothing that is not its own (image.c:35-94, file.c:3-28). *)
THEOREM Contained == LoadSpec => []LoadsAreContained
BY TypeCorrect, BufferOwned, FoundBeforeRead, FailureTakesNothing, PTL
   DEF LoadsAreContained

-----------------------------------------------------------------------------
(* What is loaded stays loaded.  The two ends of the pool only approach     *)
(* each other and the palette rows only grow, so a region once taken is     *)
(* never taken again; the callers keep the positions they choose apart      *)
(* (LayoutAssumption); and a copy of the GPU is one of the image that is    *)
(* being loaded.                                                            *)

Loaded(s) == images[s] # NoImage

(* The image in slot s is where the load of f has put it. *)
PlacedBy(s, f) ==
  /\ <<s, f>> \in Calls
  /\ images[s].w = Tim[f].w /\ images[s].h = Tim[f].h
  /\ images[s].clut \in ClutStart .. clutStack - 1
  /\ IF FromPool(f)
     THEN /\ images[s].y = 0
          /\ \/ PoolStart =< images[s].x /\ images[s].x + images[s].w =< vramStart
             \/ vramEnd =< images[s].x /\ images[s].x + images[s].w =< PoolEnd
     ELSE images[s].x = ImageVX[f] /\ images[s].y = ImageVY[f]

ImagesPlaced ==
  /\ ClutStart =< clutStack
  /\ \A s \in Slots : Loaded(s) => \E f \in Files : PlacedBy(s, f)
ImagesApart ==
  \A s, t \in Slots : s # t /\ Loaded(s) /\ Loaded(t) =>
    /\ ~Overlap(PixelRegion(s), PixelRegion(t))
    /\ images[s].clut # images[t].clut

(* What the GPU has been given, and what it has finished, by the place of   *)
(* Image_Load.                                                              *)
CopyInv ==
  /\ Uploading \/ pc = "free" => Loaded(slot)
  /\ pc \notin {"pixelsync", "clutsync"} => gpu = {}
  /\ pc = "pixelsync" => gpu \subseteq {PixelRegion(slot)}
  /\ pc = "clutsync" => gpu \subseteq {ClutRegion(slot)}
  /\ pc = "pixelsync" /\ gpu = {} => PixelRegion(slot) \in vram
  /\ pc \in {"clut", "clutsync"} => PixelRegion(slot) \in vram
  /\ pc = "clutsync" /\ gpu = {} => ClutRegion(slot) \in vram

RegionsInv ==
  clutStack =< VramH =>
    /\ ImagesPlaced /\ ImagesApart /\ CopyInv
    /\ LoadedImagesIntact /\ RendererRegionsUntouched
KeptInv == TypeOK /\ RegionsInv

(* Boxes of VRAM, and one inside another. *)
IsBox(a) == a.x \in Int /\ a.y \in Int /\ a.w \in Int /\ a.h \in Int
Within(a, b) ==
  /\ b.x =< a.x /\ a.x + a.w =< b.x + b.w
  /\ b.y =< a.y /\ a.y + a.h =< b.y + b.h

(* The part of VRAM a load of file f may use for its pixels. *)
AreaOf(f) == IF FromPool(f) THEN PoolArea ELSE FixedRegion(f)

(* What lies inside areas that are apart is apart. *)
LEMMA ApartInside ==
  ASSUME NEW a, NEW b, NEW A, NEW B,
         IsBox(a), IsBox(b), IsBox(A), IsBox(B),
         Within(a, A), Within(b, B), ~Overlap(A, B)
  PROVE  ~Overlap(a, b) /\ ~Overlap(b, a)
  BY SMT DEF Overlap, Within, IsBox

LEMMA WithinItself == ASSUME NEW a, IsBox(a) PROVE Within(a, a)
  BY SMT DEF Within, IsBox

LEMMA AreaTypes ==
  /\ IsBox(PoolArea) /\ IsBox(ClutArea)
  /\ \A f \in Files : IsBox(FixedRegion(f)) /\ IsBox(AreaOf(f))
  /\ \A r \in Reserved : IsBox(r)
<1>1. IsBox(PoolArea) /\ IsBox(ClutArea)
  BY PoolAssumption, ClutAssumption, SizeAssumption, SMT
     DEF IsBox, PoolArea, ClutArea
<1>2. ASSUME NEW f \in Files
      PROVE  IsBox(FixedRegion(f)) /\ IsBox(AreaOf(f))
  <2>1. Tim[f] \in TimHeader /\ ImageVX[f] \in Int /\ ImageVY[f] \in Int
    BY TimAssumption, SMT DEF AUTO
  <2>2. IsBox(FixedRegion(f))
    BY <2>1, SMT DEF IsBox, FixedRegion, TimHeader
  <2> QED BY <1>1, <2>2 DEF AreaOf
<1>3. ASSUME NEW r \in Reserved PROVE IsBox(r)
  BY SizeAssumption, SMT DEF IsBox
<1> QED BY <1>1, <1>2, <1>3

(* The callers' division of VRAM, by the areas of the files. *)
LEMMA AreasApart ==
  /\ \A f \in Files : /\ ~Overlap(AreaOf(f), ClutArea)
                       /\ \A r \in Reserved : ~Overlap(AreaOf(f), r)
  /\ \A r \in Reserved : ~Overlap(ClutArea, r)
  /\ \A c, d \in Calls :
       c[1] # d[1] /\ ~(FromPool(c[2]) /\ FromPool(d[2]))
         => ~Overlap(AreaOf(c[2]), AreaOf(d[2]))
<1>0. ASSUME NEW a, NEW b, IsBox(a), IsBox(b), ~Overlap(a, b)
      PROVE  ~Overlap(b, a)
  BY <1>0, WithinItself, ApartInside
<1>1. ASSUME NEW f \in Files
      PROVE  /\ ~Overlap(AreaOf(f), ClutArea)
             /\ \A r \in Reserved : ~Overlap(AreaOf(f), r)
  BY <1>0, AreaTypes, LayoutAssumption, Zenon DEF AreaOf
<1>2. \A r \in Reserved : ~Overlap(ClutArea, r)
  BY <1>0, AreaTypes, LayoutAssumption, Zenon
<1>3. ASSUME NEW c \in Calls, NEW d \in Calls, c[1] # d[1],
             ~(FromPool(c[2]) /\ FromPool(d[2]))
      PROVE  ~Overlap(AreaOf(c[2]), AreaOf(d[2]))
  <2>1. c[2] \in Files /\ d[2] \in Files
    BY CallsAssumption
  <2>2. CASE ~FromPool(c[2]) /\ ~FromPool(d[2])
    BY <1>3, <2>2, LayoutAssumption, Zenon DEF AreaOf
  <2>3. CASE ~FromPool(c[2]) /\ FromPool(d[2])
    BY <2>1, <2>3, LayoutAssumption, Zenon DEF AreaOf
  <2>4. CASE FromPool(c[2]) /\ ~FromPool(d[2])
    BY <1>0, <2>1, <2>4, AreaTypes, LayoutAssumption, Zenon DEF AreaOf
  <2> QED BY <1>3, <2>2, <2>3, <2>4
<1> QED BY <1>1, <1>2, <1>3, Zenon

LEMMA SmallMod ==
  ASSUME NEW n \in Nat, NEW m \in Nat \ {0}, n < m
  PROVE  n % m = n
  BY SMT

(* An image that was placed has its pixels in the area of its file, and its *)
(* palette in a row of its own among those of the palettes.                 *)
LEMMA PlacedRegions ==
  ASSUME TypeOK, clutStack =< VramH,
         NEW s \in Slots, NEW f \in Files, PlacedBy(s, f)
  PROVE  /\ IsBox(PixelRegion(s)) /\ IsBox(ClutRegion(s))
         /\ Within(PixelRegion(s), AreaOf(f))
         /\ Within(ClutRegion(s), ClutArea)
         /\ ClutRegion(s).y = images[s].clut
<1>1. /\ images[s].x \in Int /\ images[s].y \in Int
      /\ images[s].w \in Nat /\ images[s].h \in Nat
      /\ vramStart \in PoolStart .. PoolEnd /\ vramEnd \in vramStart .. PoolEnd
      /\ PoolStart \in Nat /\ PoolEnd \in Nat
      /\ clutStack \in Nat /\ ClutStart \in Nat /\ VramH \in Nat \ {0}
      /\ ClutW \in Nat
  BY PoolAssumption, ClutAssumption, SizeAssumption, SMT DEF TypeOK, Image
<1>2. images[s].clut \in ClutStart .. VramH - 1
  BY <1>1, SMT DEF PlacedBy
<1>3. images[s].clut % VramH = images[s].clut
  BY <1>1, <1>2, SmallMod, SMT
<1>4. /\ IsBox(PixelRegion(s)) /\ IsBox(ClutRegion(s))
      /\ ClutRegion(s).y = images[s].clut
  BY <1>1, <1>2, <1>3, SMT DEF IsBox, PixelRegion, ClutRegion
<1>5. Within(ClutRegion(s), ClutArea)
  BY <1>1, <1>2, <1>3, SMT DEF Within, ClutRegion, ClutArea
<1>6. Within(PixelRegion(s), AreaOf(f))
  <2>1. CASE FromPool(f)
    <3>1. images[s].h =< ClutStart
      BY <2>1, LayoutAssumption DEF PlacedBy
    <3> QED BY <1>1, <2>1, <3>1, SMT
            DEF PlacedBy, AreaOf, Within, PixelRegion, PoolArea
  <2>2. CASE ~FromPool(f)
    BY <1>1, <2>2, SMT DEF PlacedBy, AreaOf, Within, PixelRegion, FixedRegion
  <2> QED BY <2>1, <2>2
<1> QED BY <1>4, <1>5, <1>6

(* What a copy of one loaded image leaves alone: the palettes and the       *)
(* pixels of the others, its own other part, and the renderer's regions.    *)
LEMMA CopiesApart ==
  ASSUME TypeOK, clutStack =< VramH, ImagesPlaced, ImagesApart,
         NEW s \in Slots, Loaded(s)
  PROVE  /\ \A t \in Slots : Loaded(t) =>
              /\ ~Overlap(PixelRegion(t), ClutRegion(s))
              /\ ~Overlap(ClutRegion(t), PixelRegion(s))
              /\ s # t => ~Overlap(PixelRegion(t), PixelRegion(s))
              /\ s # t => ~Overlap(ClutRegion(t), ClutRegion(s))
         /\ \A r \in Reserved :
              ~Overlap(PixelRegion(s), r) /\ ~Overlap(ClutRegion(s), r)
<1>1. PICK f \in Files : PlacedBy(s, f)
  BY DEF ImagesPlaced
<1>2. /\ IsBox(PixelRegion(s)) /\ IsBox(ClutRegion(s))
      /\ Within(PixelRegion(s), AreaOf(f)) /\ Within(ClutRegion(s), ClutArea)
      /\ ClutRegion(s).y = images[s].clut
  BY <1>1, PlacedRegions
<1>3. ASSUME NEW t \in Slots, Loaded(t)
      PROVE  /\ ~Overlap(PixelRegion(t), ClutRegion(s))
             /\ ~Overlap(ClutRegion(t), PixelRegion(s))
             /\ s # t => ~Overlap(PixelRegion(t), PixelRegion(s))
             /\ s # t => ~Overlap(ClutRegion(t), ClutRegion(s))
  <2>1. PICK g \in Files : PlacedBy(t, g)
    BY <1>3 DEF ImagesPlaced
  <2>2. /\ IsBox(PixelRegion(t)) /\ IsBox(ClutRegion(t))
        /\ Within(PixelRegion(t), AreaOf(g)) /\ Within(ClutRegion(t), ClutArea)
        /\ ClutRegion(t).y = images[t].clut
    BY <2>1, PlacedRegions
  <2>3. ~Overlap(PixelRegion(t), ClutRegion(s))
    BY <1>2, <2>2, AreaTypes, AreasApart, ApartInside
  <2>4. ~Overlap(ClutRegion(t), PixelRegion(s))
    BY <1>2, <2>2, AreaTypes, AreasApart, ApartInside
  <2>5. s # t => ~Overlap(PixelRegion(t), PixelRegion(s))
    BY <1>3 DEF ImagesApart
  <2>6. s # t => ~Overlap(ClutRegion(t), ClutRegion(s))
    <3>1. s # t => images[s].clut # images[t].clut
      BY <1>3 DEF ImagesApart
    <3>2. ClutRegion(s).h = 1 /\ ClutRegion(t).h = 1
      BY DEF ClutRegion
    <3> QED BY <1>2, <2>2, <3>1, <3>2, SMT DEF Overlap, IsBox
  <2> QED BY <2>3, <2>4, <2>5, <2>6
<1>4. ASSUME NEW r \in Reserved
      PROVE  ~Overlap(PixelRegion(s), r) /\ ~Overlap(ClutRegion(s), r)
  <2>1. IsBox(r) /\ Within(r, r)
    BY AreaTypes, WithinItself
  <2>2. ~Overlap(PixelRegion(s), r)
    BY <1>2, <2>1, AreaTypes, AreasApart, ApartInside
  <2>3. ~Overlap(ClutRegion(s), r)
    BY <1>2, <2>1, AreaTypes, AreasApart, ApartInside
  <2> QED BY <2>2, <2>3
<1> QED BY <1>3, <1>4, Zenon

(* What RegionsInv says of the store and of VRAM, whatever Image_Load does. *)
RegionsKept == ImagesPlaced /\ ImagesApart /\ RendererRegionsUntouched

(* A load of its own slot moves no region of another: what it takes from    *)
(* the pool lies between the two ends, and its palette row is a new one.    *)
LEMMA PlaceKeepsRegions ==
  ASSUME TypeOK, ImagesPlaced, ImagesApart, clutStack =< VramH,
         Place(slot, path), UNCHANGED <<slot, path>>
  PROVE  ImagesPlaced' /\ ImagesApart' /\ Loaded(slot)'
<1> DEFINE w == Tim[path].w
           new == images'[slot]
<1>1. /\ slot \in Slots /\ path \in Files /\ <<slot, path>> \in Calls
      /\ slot' = slot /\ path' = path
      /\ w \in Nat \ {0} /\ Tim[path].h \in Nat \ {0}
      /\ ImageVX[path] \in Int /\ ImageVY[path] \in Int
      /\ DirOf[path] \in {"None", "Left", "Right"}
  BY CallParts, TimAssumption, SMT
     DEF TypeOK, TimHeader, AUTO, Direction, None, Left, Right
<1>2. /\ PoolStart \in Int /\ PoolEnd \in Int
      /\ vramStart \in PoolStart .. PoolEnd /\ vramEnd \in vramStart .. PoolEnd
      /\ clutStack \in Nat /\ ClutStart \in Nat /\ clutStack >= ClutStart
      /\ images \in [Slots -> Image]
  BY PoolAssumption, ClutAssumption, SMT DEF TypeOK, ImagesPlaced
<1>3. /\ vramStart' \in vramStart .. PoolEnd
      /\ vramEnd' \in vramStart' .. vramEnd
      /\ clutStack' = clutStack + 1
  BY <1>1, <1>2, SMT DEF Place, Fits, VRAM_Alloc, NextClutRow, Left, Right, None
<1>4. /\ new.w = w /\ new.h = Tim[path].h /\ new.clut = clutStack
      /\ IF FromPool(path)
         THEN /\ new.y = 0
              /\ \/ new.x = vramStart /\ vramStart' = vramStart + w
                 \/ new.x = vramEnd' /\ vramEnd' = vramEnd - w
         ELSE new.x = ImageVX[path] /\ new.y = ImageVY[path]
  <2>1. FromPool(path) => DirOf[path] \in {"Left", "Right"}
    BY <1>1, LayoutAssumption, SMT DEF None
  <2> QED BY <1>1, <1>2, <2>1, SMT DEF Place, VRAM_Alloc, Left, Right
<1>5. \A s \in Slots \ {slot} : images'[s] = images[s]
  BY <1>1, <1>2, SMT DEF Place
<1>6. PlacedBy(slot, path)'
  BY <1>1, <1>2, <1>3, <1>4, SMT DEF PlacedBy, FromPool
<1>7. ASSUME NEW s \in Slots \ {slot}, NEW f \in Files, PlacedBy(s, f)
      PROVE  PlacedBy(s, f)'
  <2>1. images[s].x \in Int /\ images[s].w \in Int /\ images[s].clut \in Int
    BY <1>2, SMT DEF Image
  <2> QED BY <1>2, <1>3, <1>5, <1>7, <2>1, SMT DEF PlacedBy, FromPool
<1>8. ImagesPlaced'
  <2>1. ClutStart =< clutStack'
    BY <1>2, <1>3, SMT
  <2>2. ASSUME NEW s \in Slots, Loaded(s)'
        PROVE  \E f \in Files : PlacedBy(s, f)'
    <3>1. CASE s = slot
      BY <1>1, <1>6, <3>1
    <3>2. CASE s # slot
      <4>1. Loaded(s)
        BY <1>5, <2>2, <3>2, Zenon DEF Loaded, NoImage
      <4> QED BY <1>7, <3>2, <4>1, Zenon DEF ImagesPlaced
    <3> QED BY <3>1, <3>2
  <2> QED BY <2>1, <2>2, Zenon DEF ImagesPlaced
<1>9. Loaded(slot)'
  BY <1>1, <1>4, SMT DEF Loaded, NoImage
<1>10. ASSUME NEW s \in Slots \ {slot}, Loaded(s)
       PROVE  /\ ~Overlap(PixelRegion(s)', PixelRegion(slot)')
              /\ ~Overlap(PixelRegion(slot)', PixelRegion(s)')
              /\ images[s].clut # new.clut
  <2>1. PICK f \in Files : PlacedBy(s, f)
    BY <1>10 DEF ImagesPlaced
  <2>2. /\ images[s].x \in Int /\ images[s].y \in Int
        /\ images[s].w \in Nat /\ images[s].h \in Nat
    BY <1>2, SMT DEF Image
  <2>3. images[s].clut # new.clut
    BY <1>2, <1>4, <2>1, SMT DEF PlacedBy
  <2>4. CASE FromPool(f) /\ FromPool(path)
    BY <1>1, <1>2, <1>3, <1>4, <1>5, <2>1, <2>2, <2>3, <2>4, SMT
       DEF PlacedBy, Overlap, PixelRegion
  <2>5. CASE ~(FromPool(f) /\ FromPool(path))
    <3>1. ~Overlap(AreaOf(f), AreaOf(path))
      <4>1. <<s, f>> \in Calls /\ <<s, f>>[1] = s /\ <<s, f>>[2] = f
        BY <2>1 DEF PlacedBy
      <4>2. <<slot, path>>[1] = slot /\ <<slot, path>>[2] = path
        OBVIOUS
      <4> QED BY <1>1, <2>5, <4>1, <4>2, AreasApart
    <3>2. IsBox(PixelRegion(s)) /\ Within(PixelRegion(s), AreaOf(f))
      BY <2>1, PlacedRegions
    <3>3. PixelRegion(s)' = PixelRegion(s)
      BY <1>5, Zenon DEF PixelRegion
    <3>4. IsBox(PixelRegion(slot)') /\ Within(PixelRegion(slot)', AreaOf(path))
      <4>1. IsBox(PixelRegion(slot)')
        BY <1>1, <1>2, <1>3, <1>4, SMT DEF IsBox, PixelRegion
      <4>2. FromPool(path) => Tim[path].h =< ClutStart
        BY <1>1, LayoutAssumption
      <4>3. Within(PixelRegion(slot)', AreaOf(path))
        BY <1>1, <1>2, <1>3, <1>4, <4>2, SMT
           DEF Within, AreaOf, PixelRegion, PoolArea, FixedRegion
      <4> QED BY <4>1, <4>3
    <3> QED BY <1>1, <2>3, <3>1, <3>2, <3>3, <3>4, AreaTypes, ApartInside
  <2> QED BY <2>4, <2>5
<1>11. ImagesApart'
  <2> SUFFICES ASSUME NEW s \in Slots, NEW t \in Slots, s # t,
                      Loaded(s)', Loaded(t)'
               PROVE  /\ ~Overlap(PixelRegion(s)', PixelRegion(t)')
                      /\ images'[s].clut # images'[t].clut
    BY Zenon DEF ImagesApart
  <2>1. CASE s = slot
    <3>1. t \in Slots \ {slot} /\ Loaded(t)
      BY <1>5, <2>1, Zenon DEF Loaded, NoImage
    <3> QED BY <1>5, <1>10, <2>1, <3>1
  <2>2. CASE t = slot
    <3>1. s \in Slots \ {slot} /\ Loaded(s)
      BY <1>5, <2>2, Zenon DEF Loaded, NoImage
    <3> QED BY <1>5, <1>10, <2>2, <3>1
  <2>3. CASE s # slot /\ t # slot
    <3>1. images'[s] = images[s] /\ images'[t] = images[t]
      BY <1>5, <2>3
    <3>2. Loaded(s) /\ Loaded(t)
      BY <3>1, Zenon DEF Loaded, NoImage
    <3> QED BY <3>1, <3>2, Zenon DEF ImagesApart, PixelRegion
  <2> QED BY <2>1, <2>2, <2>3
<1> QED BY <1>8, <1>9, <1>11

(* A step that moves no region, by what it does to the GPU and to VRAM.     *)
LEMMA SameRegions ==
  ASSUME RegionsKept, UNCHANGED <<vramStart, vramEnd, clutStack, images, vram>>,
         clutStack' =< VramH
  PROVE  RegionsKept'
  BY Zenon DEF RegionsKept, ImagesPlaced, ImagesApart, RendererRegionsUntouched,
            Loaded, PlacedBy, PixelRegion

LEMMA InitKeptInv == LoadInit => KeptInv
<1> SUFFICES ASSUME LoadInit PROVE RegionsInv
  BY InitTypeOK DEF KeptInv
<1>1. \A s \in Slots : ~Loaded(s)
  BY Zenon DEF LoadInit, Init, Loaded
<1>2. ClutStart =< clutStack
  BY ClutAssumption, SMT DEF LoadInit, Init
<1> QED BY <1>1, <1>2, SMT
        DEF LoadInit, RegionsInv, ImagesPlaced, ImagesApart, CopyInv, Uploading,
            LoadedImagesIntact, RendererRegionsUntouched, Loaded

(* The palette rows only grow, so while they have not run out they had not  *)
(* run out before.                                                          *)
LEMMA RowsGrow ==
  ASSUME TypeOK, [LoadNext]_vars, clutStack' =< VramH
  PROVE  clutStack =< VramH
<1>1. clutStack' = clutStack \/ clutStack' = clutStack + 1
  BY Zenon DEF LoadNext, Step, Image_Load, OpenFile, Malloc, MallocFails, ReadFile,
     ReadSync, PlaceImage, PlaceFails, PlaceUndefined, LoadPixels, PixelSync,
     LoadClut, ClutSync, Free, DriveDone, GpuDone, LoadImage, Place, NextClutRow,
     storeVars, vars
<1> QED BY <1>1, SizeAssumption, SMT DEF TypeOK

LEMMA StepKeptInv ==
  ASSUME KeptInv, Step, clutStack =< VramH, clutStack' =< VramH
  PROVE  (RegionsKept /\ CopyInv /\ LoadedImagesIntact)'
<1>1. RegionsKept /\ CopyInv /\ LoadedImagesIntact
  BY DEF KeptInv, RegionsInv, RegionsKept
<1> USE <1>1 DEF KeptInv
<1> DEFINE Still == UNCHANGED <<vramStart, vramEnd, clutStack, images, slot, path,
                               vram>>
<1>2. ASSUME Still PROVE RegionsKept'
  BY <1>2, SameRegions
<1>3. ASSUME Still, gpu' = gpu, ~(Uploading \/ pc \in {"free"}),
             ~(Uploading' \/ pc' \in {"free"})
      PROVE  (CopyInv /\ LoadedImagesIntact)'
  BY <1>3, Zenon DEF CopyInv, LoadedImagesIntact, Uploading, Loaded, PixelRegion,
                     ClutRegion
<1>4. CASE OpenFile
  BY <1>2, <1>3, <1>4, SMT DEF OpenFile, Return, Goto, Uploading
<1>5. CASE Malloc
  BY <1>2, <1>3, <1>5, SMT DEF Malloc, Goto, Uploading, storeVars
<1>6. CASE MallocFails
  BY <1>2, <1>3, <1>6, SMT DEF MallocFails, Return, Goto, Uploading
<1>7. CASE ReadFile
  BY <1>2, <1>3, <1>7, SMT DEF ReadFile, Goto, Uploading, storeVars
<1>8. CASE ReadSync
  BY <1>2, <1>3, <1>8, SMT DEF ReadSync, Return, Goto, Uploading
<1>9. CASE PlaceImage
  <2>1. Place(slot, path) /\ UNCHANGED <<slot, path, gpu, vram>>
        /\ pc = "place" /\ pc' = "pixels"
    BY <1>9, Zenon DEF PlaceImage, Goto
  <2>2. ImagesPlaced' /\ ImagesApart' /\ Loaded(slot)'
    BY <2>1, PlaceKeepsRegions DEF RegionsKept
  <2>3. RendererRegionsUntouched'
    BY <2>1, Zenon DEF RegionsKept, RendererRegionsUntouched
  <2>4. CopyInv'
    BY <2>1, <2>2, SMT DEF CopyInv, Uploading
  <2>5. ASSUME NEW s \in Slots, Loaded(s)', s # slot
        PROVE  /\ PixelRegion(s)' \in vram'
               /\ images'[s].indexed => ClutRegion(s)' \in vram'
    <3>1. images'[s] = images[s]
      BY <2>1, <2>5, SMT DEF Place, TypeOK
    <3> QED BY <2>1, <2>5, <3>1, Zenon
            DEF LoadedImagesIntact, Loaded, NoImage, PixelRegion, ClutRegion
  <2>6. LoadedImagesIntact'
    BY <2>1, <2>5, SMT DEF LoadedImagesIntact, Loaded, Uploading
  <2> QED BY <2>2, <2>3, <2>4, <2>6 DEF RegionsKept
<1>10. CASE PlaceFails
  BY <1>2, <1>3, <1>10, SMT DEF PlaceFails, Return, Goto, Uploading
<1>11. CASE PlaceUndefined
  BY <1>2, <1>3, <1>11, SMT DEF PlaceUndefined, Goto, Uploading, storeVars
<1>12. CASE LoadPixels
  <2>1. /\ Still /\ pc = "pixels" /\ pc' = "pixelsync"
        /\ gpu' = gpu \cup {PixelRegion(slot)}
    BY <1>12, Zenon DEF LoadPixels, LoadImage, Goto, storeVars
  <2>2. gpu' = {PixelRegion(slot)} /\ Loaded(slot)
    BY <2>1, SMT DEF CopyInv, Uploading
  <2> QED BY <1>2, <2>1, <2>2, SMT
          DEF CopyInv, LoadedImagesIntact, Uploading, Loaded, PixelRegion, ClutRegion
<1>13. CASE PixelSync
  <2>1. /\ Still /\ pc = "pixelsync" /\ gpu = {} /\ gpu' = gpu
        /\ pc' = IF images[slot].indexed THEN "clut" ELSE "free"
    BY <1>13, Zenon DEF PixelSync, Goto, storeVars
  <2>2. PixelRegion(slot) \in vram /\ Loaded(slot)
    BY <2>1, SMT DEF CopyInv, Uploading
  <2> QED BY <1>2, <2>1, <2>2, SMT
          DEF CopyInv, LoadedImagesIntact, Uploading, Loaded, PixelRegion, ClutRegion
<1>14. CASE LoadClut
  <2>1. /\ Still /\ pc = "clut" /\ pc' = "clutsync"
        /\ gpu' = gpu \cup {ClutRegion(slot)}
    BY <1>14, Zenon DEF LoadClut, LoadImage, Goto, storeVars
  <2>2. /\ gpu' = {ClutRegion(slot)} /\ Loaded(slot)
        /\ PixelRegion(slot) \in vram
    BY <2>1, SMT DEF CopyInv, Uploading
  <2> QED BY <1>2, <2>1, <2>2, SMT
          DEF CopyInv, LoadedImagesIntact, Uploading, Loaded, PixelRegion, ClutRegion
<1>15. CASE ClutSync
  <2>1. /\ Still /\ pc = "clutsync" /\ gpu = {} /\ gpu' = gpu /\ pc' = "free"
    BY <1>15, Zenon DEF ClutSync, Goto, storeVars
  <2>2. /\ PixelRegion(slot) \in vram /\ ClutRegion(slot) \in vram
        /\ Loaded(slot)
    BY <2>1, SMT DEF CopyInv, Uploading
  <2> QED BY <1>2, <2>1, <2>2, SMT
          DEF CopyInv, LoadedImagesIntact, Uploading, Loaded, PixelRegion, ClutRegion
<1>16. CASE Free
  <2>1. Still /\ pc = "free" /\ gpu' = gpu /\ pc' = "idle"
    BY <1>16, Zenon DEF Free, Return, Goto
  <2> QED BY <1>2, <2>1, SMT
          DEF CopyInv, LoadedImagesIntact, Uploading, Loaded, PixelRegion, ClutRegion
<1> QED BY <1>4, <1>5, <1>6, <1>7, <1>8, <1>9, <1>10, <1>11, <1>12, <1>13, <1>14,
           <1>15, <1>16 DEF Step

(* The GPU finishes a copy: it was one of the image being loaded, and it    *)
(* lies apart from every other region.                                      *)
LEMMA GpuKeptInv ==
  ASSUME KeptInv, GpuDone, clutStack =< VramH, clutStack' =< VramH
  PROVE  (RegionsKept /\ CopyInv /\ LoadedImagesIntact)'
<1>1. /\ RegionsKept /\ ImagesPlaced /\ ImagesApart /\ CopyInv
      /\ LoadedImagesIntact /\ RendererRegionsUntouched /\ TypeOK
  BY DEF KeptInv, RegionsInv, RegionsKept
<1>2. PICK r \in gpu : vram' = Upload(r) /\ gpu' = gpu \ {r}
  BY DEF GpuDone
<1>3. /\ UNCHANGED <<vramStart, vramEnd, clutStack, images, slot, path, pc>>
      /\ slot \in Slots
  BY <1>1, CallParts, Zenon DEF GpuDone, storeVars, TypeOK
<1>4. /\ pc \in {"pixelsync", "clutsync"} /\ Loaded(slot)
      /\ gpu = {r} /\ gpu' = {}
      /\ pc = "pixelsync" => r = PixelRegion(slot)
      /\ pc = "clutsync" => r = ClutRegion(slot) /\ PixelRegion(slot) \in vram
  BY <1>1, <1>2, SMT DEF CopyInv, Uploading
<1>5. \A t \in Slots : Loaded(t) =>
        /\ ~Overlap(PixelRegion(t), ClutRegion(slot))
        /\ ~Overlap(ClutRegion(t), PixelRegion(slot))
        /\ slot # t => ~Overlap(PixelRegion(t), PixelRegion(slot))
        /\ slot # t => ~Overlap(ClutRegion(t), ClutRegion(slot))
  BY <1>1, <1>3, <1>4, CopiesApart
<1>6. \A v \in vram : ~Overlap(v, r) => v \in vram'
  BY <1>2 DEF Upload
<1>7. r \in vram'
  BY <1>2 DEF Upload
<1>8. \A q \in Reserved : ~Overlap(r, q)
  BY <1>1, <1>3, <1>4, CopiesApart
<1>9. RendererRegionsUntouched'
  BY <1>1, <1>2, <1>8, Zenon DEF RendererRegionsUntouched, Upload
<1>10. RegionsKept'
  BY <1>1, <1>3, <1>9, Zenon
     DEF RegionsKept, ImagesPlaced, ImagesApart, Loaded, PlacedBy, PixelRegion
<1>11. CopyInv'
  <2>1. PixelRegion(slot) \in vram'
    BY <1>3, <1>4, <1>5, <1>6, <1>7
  <2> QED BY <1>3, <1>4, <1>7, <2>1, SMT
          DEF CopyInv, Uploading, Loaded, PixelRegion, ClutRegion
<1>12. ASSUME NEW s \in Slots, Loaded(s), s # slot
       PROVE  /\ PixelRegion(s) \in vram'
              /\ images[s].indexed => ClutRegion(s) \in vram'
  <2>1. /\ PixelRegion(s) \in vram
        /\ images[s].indexed => ClutRegion(s) \in vram
    BY <1>1, <1>12 DEF LoadedImagesIntact, Loaded
  <2> QED BY <1>4, <1>5, <1>6, <1>12, <2>1
<1>13. LoadedImagesIntact'
  BY <1>3, <1>4, <1>12, SMT
     DEF LoadedImagesIntact, Loaded, Uploading, PixelRegion, ClutRegion
<1> QED BY <1>10, <1>11, <1>13

LEMMA NextKeptInv == KeptInv /\ [LoadNext]_vars => KeptInv'
<1> SUFFICES ASSUME KeptInv, [LoadNext]_vars, clutStack' =< VramH
             PROVE  (RegionsKept /\ CopyInv /\ LoadedImagesIntact)'
  BY NextTypeOK, Zenon DEF KeptInv, RegionsInv, RegionsKept
<1>1. clutStack =< VramH
  BY RowsGrow DEF KeptInv
<1>2. RegionsKept /\ CopyInv /\ LoadedImagesIntact
  BY <1>1 DEF KeptInv, RegionsInv, RegionsKept
<1>3. ASSUME UNCHANGED <<storeVars, slot, pc, gpu, vram>>
      PROVE  (RegionsKept /\ CopyInv /\ LoadedImagesIntact)'
  <2>1. RegionsKept'
    BY <1>2, <1>3, SameRegions DEF storeVars
  <2> QED BY <1>2, <1>3, <2>1, Zenon
          DEF CopyInv, LoadedImagesIntact, Uploading, Loaded, PixelRegion,
              ClutRegion, storeVars
<1>4. CASE \E c \in Calls : Image_Load(c[1], c[2])
  <2>1. /\ UNCHANGED <<vramStart, vramEnd, clutStack, images, gpu, vram>>
        /\ pc = "idle" /\ pc' = "open"
    BY <1>4, Zenon DEF Image_Load, Goto, storeVars
  <2>2. RegionsKept'
    BY <1>2, <2>1, SameRegions
  <2> QED BY <1>2, <2>1, <2>2, SMT
          DEF CopyInv, LoadedImagesIntact, Uploading, Loaded, PixelRegion, ClutRegion
<1>5. CASE Step
  BY <1>1, <1>5, StepKeptInv
<1>6. CASE DriveDone
  BY <1>3, <1>6, Zenon DEF DriveDone
<1>7. CASE GpuDone
  BY <1>1, <1>7, GpuKeptInv
<1>8. CASE UNCHANGED vars
  BY <1>3, <1>8, Zenon DEF vars, loadVars
<1> QED BY <1>4, <1>5, <1>6, <1>7, <1>8 DEF LoadNext

(* Until the palette rows run off the end of VRAM, no load is ever copied   *)
(* over another Image's pixels or palette, whatever is loaded in whatever   *)
(* order (image.c:5-33, 62-89).                                             *)
THEOREM ImagesStayIntact == LoadSpec => []LoadedImagesIntact
<1>1. KeptInv => LoadedImagesIntact
  BY DEF KeptInv, RegionsInv, LoadedImagesIntact
<1> QED BY <1>1, InitKeptInv, NextKeptInv, PTL DEF LoadSpec

(* Nor over the frame buffer or the debug font (image.c:5-6,                *)
(* renderer.c:23-26, 47).                                                   *)
THEOREM RegionsUntouched == LoadSpec => []RendererRegionsUntouched
<1>1. KeptInv => RendererRegionsUntouched
  BY DEF KeptInv, RegionsInv, RendererRegionsUntouched
<1> QED BY <1>1, InitKeptInv, NextKeptInv, PTL DEF LoadSpec

-----------------------------------------------------------------------------
(* The heap: a buffer is there from malloc to the return.                   *)

HeapInv ==
  /\ TypeOK
  /\ pc \in {"idle", "open", "malloc"} => buffer = 0
  /\ OnlyFailedLoadsLeak

LEMMA InitHeapInv == LoadInit => HeapInv
  BY InitTypeOK, SizeAssumption, SMT DEF LoadInit, HeapInv, OnlyFailedLoadsLeak

LEMMA StepHeapInv ==
  ASSUME HeapInv, Step
  PROVE  (/\ pc \in {"idle", "open", "malloc"} => buffer = 0
          /\ OnlyFailedLoadsLeak)'
<1> USE DEF HeapInv, OnlyFailedLoadsLeak, Goto, Return
<1>0. /\ heapFree \in Nat /\ buffer \in Nat /\ HeapBytes \in Nat
      /\ path \in Files
      /\ BufferBytes(path) \in Nat \ {0}
  BY BufferPositive, CallParts, SizeAssumption DEF TypeOK
<1>1. CASE OpenFile
  BY <1>0, <1>1, SMT DEF OpenFile, FileLoadError, MallocError, FileReadError, VRAMError
<1>2. CASE Malloc
  BY <1>0, <1>2, SMT DEF Malloc
<1>3. CASE MallocFails
  <2>1. /\ past' = past \cup {MallocError} /\ heapFree' = heapFree
        /\ pc = "malloc" /\ buffer = 0 /\ buffer' = 0
        /\ heapFree < BufferBytes(path) \/ heapFree < HeapBytes
    BY <1>3, Zenon DEF MallocFails
  <2> QED BY <1>0, <2>1, SMT
<1>4. CASE ReadFile
  BY <1>4, Zenon DEF ReadFile
<1>5. CASE ReadSync
  BY <1>5, SMT DEF ReadSync
<1>6. CASE PlaceImage
  BY <1>6, Zenon DEF PlaceImage
<1>7. CASE PlaceFails
  BY <1>7, SMT DEF PlaceFails
<1>8. CASE PlaceUndefined
  BY <1>8, Zenon DEF PlaceUndefined
<1>9. CASE LoadPixels
  BY <1>9, Zenon DEF LoadPixels, LoadImage
<1>10. CASE PixelSync
  BY <1>10, SMT DEF PixelSync
<1>11. CASE LoadClut
  BY <1>11, Zenon DEF LoadClut, LoadImage
<1>12. CASE ClutSync
  BY <1>12, Zenon DEF ClutSync
<1>13. CASE Free
  BY <1>0, <1>13, SMT DEF Free, FreeBuffer, Okay, MallocError, FileReadError, VRAMError
<1> QED BY <1>1, <1>2, <1>3, <1>4, <1>5, <1>6, <1>7, <1>8, <1>9, <1>10, <1>11,
           <1>12, <1>13 DEF Step

LEMMA NextHeapInv == HeapInv /\ [LoadNext]_vars => HeapInv'
<1> SUFFICES ASSUME HeapInv, [LoadNext]_vars
             PROVE  (/\ pc \in {"idle", "open", "malloc"} => buffer = 0
                     /\ OnlyFailedLoadsLeak)'
  BY NextTypeOK DEF HeapInv
<1> USE DEF HeapInv, OnlyFailedLoadsLeak, Goto
<1>1. CASE \E c \in Calls : Image_Load(c[1], c[2])
  BY <1>1, Zenon DEF Image_Load
<1>2. CASE Step
  BY <1>2, StepHeapInv, Zenon
<1>3. CASE DriveDone
  BY <1>3, Zenon DEF DriveDone
<1>4. CASE GpuDone
  BY <1>4, Zenon DEF GpuDone
<1>5. CASE UNCHANGED vars
  BY <1>5, Zenon DEF vars, loadVars
<1> QED BY <1>1, <1>2, <1>3, <1>4, <1>5 DEF LoadNext

(* Only a load that answers FileReadError or VRAMError keeps its buffer,    *)
(* and malloc fails before one of them only for a file that is longer than  *)
(* the heap (image.c:45-65, 92).                                            *)
THEOREM OnlyFailuresLeak == LoadSpec => []OnlyFailedLoadsLeak
<1>1. HeapInv => OnlyFailedLoadsLeak
  BY DEF HeapInv
<1> QED BY <1>1, InitHeapInv, NextHeapInv, PTL DEF LoadSpec

(* What is loaded stays loaded, and the rest stays free (image.c).          *)
THEOREM ImagesKept == LoadSpec => []ImagesAreKept
BY ImagesStayIntact, RegionsUntouched, OnlyFailuresLeak, PTL
   DEF ImagesAreKept

=============================================================================
