----------------------------- MODULE ImageLoad -----------------------------
(***************************************************************************)
(* Image_Load (image.c) with the calls it makes: File_Open and File_Read   *)
(* (file.c), VRAM_Alloc (image.c), malloc and free, and the two devices it *)
(* waits for: the CD drive, which fills the buffer behind CdRead, and the  *)
(* GPU, which empties it behind LoadImage.                                 *)
(*                                                                         *)
(* One load runs at a time (the program has one thread), but the drive and *)
(* the GPU run beside it: each wait in the C code (CdReadSync, DrawSync)   *)
(* is a step of its own here, and so is each device's progress.            *)
(*                                                                         *)
(* Any sequence of loads is allowed: each is a pair of Calls, the Image    *)
(* struct and the file, with the placement its caller in scene.c, font.c   *)
(* or actor.c passes.                                                      *)
(***************************************************************************)
EXTENDS ImageStore, FiniteSets

CONSTANTS
  ClutW,        \* words of the palette an indexed TIM carries
  VramH,        \* rows of VRAM; a row past the last is row 0 again
  Reserved,     \* regions the renderer owns: frame buffer and debug font
  HeapBytes,    \* size of the heap main.c hands to InitHeap
  MaxCalls      \* bound: calls of Image_Load in one behaviour

ASSUME SizeAssumption ==
  /\ ClutW \in Nat \ {0} /\ VramH \in Nat \ {0}
  /\ HeapBytes \in Nat /\ MaxCalls \in Nat
  /\ Reserved \subseteq [x : Nat, y : Nat, w : Nat, h : Nat]

CD_SECTOR_SIZE == 2048
WHOLE_FILE == 0
ByteToSector(n) == (n + CD_SECTOR_SIZE - 1) \div CD_SECTOR_SIZE
SectorToByte(n) == n * CD_SECTOR_SIZE

VARIABLES
  pc,         \* where Image_Load is; "idle" between calls
  slot, path, \* its image and path arguments
  fp,         \* the File on its stack: "unset", or "found" by CdSearchFile
  buffer,     \* bytes of the malloc'd buffer, 0 when there is none
  heapFree,   \* bytes malloc can still hand out
  readStatus, \* what CdRead answered, tested after CdReadSync
  drive,      \* the CD drive: its state, and the bytes it was told to read
  gpu,        \* the copies LoadImage has given the GPU, as regions
  vram,       \* the regions of VRAM that hold what a load put there
  before,     \* history: what the store was when the current load began
  past,       \* history: every status a load has answered
  calls       \* number of calls so far, for the bound

loadVars == <<pc, slot, path, fp, buffer, heapFree, readStatus, drive, gpu,
              vram, before, past, calls>>
vars == <<loadVars, storeVars>>

-----------------------------------------------------------------------------
(* Regions of VRAM. *)

Overlap(a, b) ==
  /\ a.x < b.x + b.w /\ b.x < a.x + a.w
  /\ a.y < b.y + b.h /\ b.y < a.y + a.h

(* Where the pixels of slot s go, and its palette: one row from column 0 of *)
(* row clutStack.  A region remembers whose data was copied there.          *)
PixelRegion(s) ==
  [x |-> images[s].x, y |-> images[s].y, w |-> images[s].w, h |-> images[s].h,
   of |-> s]
ClutRegion(s) ==
  [x |-> 0, y |-> images[s].clut % VramH, w |-> ClutW, h |-> 1, of |-> s]

FixedRegion(f) == [x |-> ImageVX[f], y |-> ImageVY[f],
                   w |-> Tim[f].w, h |-> Tim[f].h]

(* The columns VRAM_Alloc hands out, down to the first palette row, and the *)
(* palette rows down to the end of VRAM.                                    *)
PoolArea == [x |-> PoolStart, y |-> 0, w |-> PoolEnd - PoolStart,
             h |-> ClutStart]
ClutArea == [x |-> 0, y |-> ClutStart, w |-> ClutW, h |-> VramH - ClutStart]

(* How the callers divide VRAM: image.c's initial values, the positions in  *)
(* font.h, effects.h and scene.h, and the headers of the files on the disc. *)
ASSUME LayoutAssumption ==
  /\ ClutStart =< VramH
  /\ ~Overlap(PoolArea, ClutArea)
  /\ \A f \in Files :
       IF FromPool(f) THEN DirOf[f] # None /\ Tim[f].h =< ClutStart
       ELSE /\ ~Overlap(FixedRegion(f), PoolArea)
            /\ ~Overlap(FixedRegion(f), ClutArea)
            /\ \A r \in Reserved : ~Overlap(FixedRegion(f), r)
  /\ \A c, d \in Calls :
       ~FromPool(c[2]) /\ ~FromPool(d[2]) /\ c[1] # d[1]
         => ~Overlap(FixedRegion(c[2]), FixedRegion(d[2]))
  /\ \A r \in Reserved : ~Overlap(r, PoolArea) /\ ~Overlap(r, ClutArea)

(* A copy into region r destroys what it overlaps. *)
Upload(r) == {v \in vram : ~Overlap(v, r)} \cup {r}

Store == <<vramStart, vramEnd, clutStack, images>>

-----------------------------------------------------------------------------
Goto(l) == pc' = l

(* Image_Load returns s.  The buffer pointer goes out of scope; only the    *)
(* last return has called free first.                                       *)
Return(s) ==
  /\ Goto("idle")
  /\ status' = s
  /\ past' = past \cup {s}
  /\ buffer' = 0

LoadInit ==
  /\ Init
  /\ pc = "idle"
  /\ \E c \in Calls : slot = c[1] /\ path = c[2]
  /\ fp = "unset"
  /\ buffer = 0
  /\ heapFree = HeapBytes
  /\ readStatus = 1
  /\ drive = [state |-> "idle", bytes |-> 0]
  /\ gpu = {}
  /\ vram = {}
  /\ before = Store
  /\ past = {}
  /\ calls = 0

(* A caller calls Image_Load. *)
Image_Load(s, f) ==
  /\ pc = "idle"
  /\ calls < MaxCalls
  /\ calls' = calls + 1
  /\ slot' = s /\ path' = f
  /\ fp' = "unset"
  /\ before' = Store
  /\ Goto("open")
  /\ UNCHANGED <<storeVars, buffer, heapFree, readStatus, drive, gpu, vram,
                 past>>

(* File_Open answers FileFindError when CdSearchFile finds the file, and    *)
(* Okay when it does not.                                                   *)
File_Open(found) == IF found THEN FileFindError ELSE Okay

(* File fp; File_Open(&fp, path): Image_Load gives up when the status is    *)
(* NULL, which is Okay.                                                     *)
OpenFile ==
  /\ pc = "open"
  /\ \E found \in BOOLEAN :
       /\ fp' = IF found THEN "found" ELSE "unset"
       /\ \/ /\ File_Open(found) = Okay
             /\ Return(FileLoadError)
          \/ /\ File_Open(found) # Okay
             /\ Goto("malloc")
             /\ UNCHANGED <<status, past, buffer>>
  /\ UNCHANGED <<vramStart, vramEnd, clutStack, images, slot, path, heapFree,
                 readStatus, drive, gpu, vram, before, calls>>

(* malloc of the file's size, rounded up to whole sectors. *)
BufferBytes(f) == SectorToByte(ByteToSector(Tim[f].bytes))

Malloc ==
  /\ pc = "malloc"
  /\ BufferBytes(path) =< heapFree
  /\ buffer' = BufferBytes(path)
  /\ heapFree' = heapFree - BufferBytes(path)
  /\ Goto("read")
  /\ UNCHANGED <<storeVars, slot, path, fp, readStatus, drive, gpu, vram,
                 before, past, calls>>

(* malloc answers NULL: the heap is too small, or cut up by the blocks      *)
(* earlier loads never freed.                                               *)
MallocFails ==
  /\ pc = "malloc"
  /\ heapFree < BufferBytes(path) \/ heapFree < HeapBytes
  /\ Return(MallocError)
  /\ UNCHANGED <<vramStart, vramEnd, clutStack, images, slot, path, fp,
                 heapFree, readStatus, drive, gpu, vram, before, calls>>

(* File_Read(&fp, buffer, count) up to CdRead, which starts the drive or    *)
(* answers 0.                                                               *)
File_Read(count) ==
  LET bytesToRead == IF count # WHOLE_FILE THEN count ELSE Tim[path].bytes
  IN \/ /\ readStatus' = 1
        /\ drive' = [state |-> "reading",
                     bytes |-> SectorToByte(ByteToSector(bytesToRead))]
     \/ /\ readStatus' = 0
        /\ UNCHANGED drive

ReadFile ==
  /\ pc = "read"
  /\ File_Read(WHOLE_FILE)
  /\ Goto("readsync")
  /\ UNCHANGED <<storeVars, slot, path, fp, buffer, heapFree, gpu, vram,
                 before, past, calls>>

(* The drive finishes: all sectors arrived, or it gave up on an error. *)
DriveDone ==
  /\ drive.state = "reading"
  /\ \E s \in {"done", "error"} : drive' = [drive EXCEPT !.state = s]
  /\ UNCHANGED <<storeVars, pc, slot, path, fp, buffer, heapFree, readStatus,
                 gpu, vram, before, past, calls>>

(* CdReadSync(0, 0) returns when the drive is no longer reading. *)
DriveStopped == drive.state # "reading"

(* The rest of File_Read: CdReadSync waits for the drive, and its answer is *)
(* dropped; only the answer of CdRead decides.                              *)
ReadSyncRetries ==   \* mutant: the read is tried again, without end
  /\ pc = "readsync"
  /\ DriveStopped
  /\ Goto(IF readStatus = 0 THEN "read" ELSE "place")
  /\ UNCHANGED <<storeVars, slot, path, fp, buffer, heapFree, readStatus,
                 drive, gpu, vram, before, past, calls>>

ReadSync ==
  /\ pc = "readsync"
  /\ DriveStopped
  /\ \/ /\ readStatus = 0
        /\ Return(FileReadError)
     \/ /\ readStatus # 0
        /\ Goto("place")
        /\ UNCHANGED <<status, past, buffer>>
  /\ UNCHANGED <<vramStart, vramEnd, clutStack, images, slot, path, fp,
                 heapFree, readStatus, drive, gpu, vram, before, calls>>

(* OpenTIM and ReadTIM read the header, VRAM_Alloc or the caller places the *)
(* image, and the Image struct is filled.                                   *)
PlaceImage ==
  /\ pc = "place"
  /\ Place(slot, path)
  /\ Goto("pixels")
  /\ UNCHANGED <<status, slot, path, fp, buffer, heapFree, readStatus, drive,
                 gpu, vram, before, past, calls>>

(* VRAM_Alloc answers (-1, -1): Image_Load returns without free. *)
PlaceFailsUnseen ==   \* mutant: the answer of VRAM_Alloc is not tested
  /\ pc = "place"
  /\ FromPool(path) /\ ~Fits(Tim[path].w, DirOf[path])
  /\ Goto("pixels")
  /\ UNCHANGED <<storeVars, slot, path, fp, buffer, heapFree, readStatus,
                 drive, gpu, vram, before, past, calls>>

PlaceFails ==
  /\ pc = "place"
  /\ FromPool(path) /\ ~Fits(Tim[path].w, DirOf[path])
  /\ Return(VRAMError)
  /\ UNCHANGED <<vramStart, vramEnd, clutStack, images, slot, path, fp,
                 heapFree, readStatus, drive, gpu, vram, before, calls>>

(* The drive gave up before the header's sector arrived: ReadTIM leaves tim *)
(* uninitialized and Image_Load writes through its pointers.  Nothing is    *)
(* said of the program from there on.                                       *)
PlaceUndefined ==
  /\ pc = "place"
  /\ drive.state = "error"
  /\ Goto("undefined")
  /\ UNCHANGED <<storeVars, slot, path, fp, buffer, heapFree, readStatus,
                 drive, gpu, vram, before, past, calls>>

(* LoadImage starts a copy from the buffer into region r. *)
LoadImage(r) ==
  /\ gpu' = gpu \cup {r}
  /\ UNCHANGED <<storeVars, slot, path, fp, buffer, heapFree, readStatus,
                 drive, vram, before, past, calls>>

LoadPixels ==
  /\ pc = "pixels"
  /\ Goto("pixelsync")
  /\ LoadImage(PixelRegion(slot))

(* The GPU finishes its copy. *)
GpuDone ==
  /\ \E r \in gpu : vram' = Upload(r) /\ gpu' = gpu \ {r}
  /\ UNCHANGED <<storeVars, pc, slot, path, fp, buffer, heapFree, readStatus,
                 drive, before, past, calls>>

(* DrawSync(0) after the pixels; then the palette, if IsIndexed. *)
PixelSync ==
  /\ pc = "pixelsync"
  /\ gpu = {}
  /\ Goto(IF images[slot].indexed THEN "clut" ELSE "free")
  /\ UNCHANGED <<storeVars, slot, path, fp, buffer, heapFree, readStatus,
                 drive, gpu, vram, before, past, calls>>

LoadClut ==
  /\ pc = "clut"
  /\ Goto("clutsync")
  /\ LoadImage(ClutRegion(slot))

(* DrawSync(0) after the palette. *)
ClutNoSync ==   \* mutant: no DrawSync after the palette
  /\ pc = "clutsync"
  /\ Goto("free")
  /\ UNCHANGED <<storeVars, slot, path, fp, buffer, heapFree, readStatus,
                 drive, gpu, vram, before, past, calls>>

ClutSync ==
  /\ pc = "clutsync"
  /\ gpu = {}
  /\ Goto("free")
  /\ UNCHANGED <<storeVars, slot, path, fp, buffer, heapFree, readStatus,
                 drive, gpu, vram, before, past, calls>>

(* free(buffer) *)
FreeBuffer == heapFree' = heapFree + buffer

(* free(buffer); return Okay. *)
Free ==
  /\ pc = "free"
  /\ FreeBuffer
  /\ Return(Okay)
  /\ UNCHANGED <<vramStart, vramEnd, clutStack, images, slot, path, fp,
                 readStatus, drive, gpu, vram, before, calls>>

-----------------------------------------------------------------------------

Step ==
  \/ OpenFile \/ Malloc \/ MallocFails \/ ReadFile \/ ReadSync
  \/ PlaceImage \/ PlaceFails \/ PlaceUndefined
  \/ LoadPixels \/ PixelSync \/ LoadClut \/ ClutSync \/ Free

LoadNext ==
  \/ \E c \in Calls : Image_Load(c[1], c[2])
  \/ Step
  \/ DriveDone
  \/ GpuDone

LoadSpec == LoadInit /\ [][LoadNext]_vars

(* The CPU runs on; the drive and the GPU finish what they were told to do. *)
FairLoadSpec ==
  /\ LoadSpec
  /\ WF_vars(Step) /\ WF_vars(DriveDone) /\ WF_vars(GpuDone)

-----------------------------------------------------------------------------

(* What the variables hold; the two ends of the columns never cross. *)
Region == [x : Int, y : Int, w : Nat, h : Nat, of : Slots]
Places == {"idle", "open", "malloc", "read", "readsync", "place", "pixels",
           "pixelsync", "clut", "clutsync", "free", "undefined"}

TypeOK ==
  /\ vramStart \in PoolStart .. PoolEnd
  /\ vramEnd \in vramStart .. PoolEnd
  /\ clutStack \in Nat
  /\ images \in [Slots -> Image] /\ status \in Status
  /\ pc \in Places /\ <<slot, path>> \in Calls
  /\ fp \in {"unset", "found"}
  /\ buffer \in Nat /\ heapFree \in Nat
  /\ readStatus \in {0, 1}
  /\ drive \in [state : {"idle", "reading", "done", "error"}, bytes : Nat]
  /\ gpu \in SUBSET Region
  /\ vram \in SUBSET Region
  /\ past \in SUBSET Status

(* The image is placed and not yet wholly in VRAM. *)
Uploading == pc \in {"pixels", "pixelsync", "clut", "clutsync"}

(* Neither device works on a buffer the program has left: the drive writes  *)
(* only while File_Read waits in CdReadSync, into a buffer that holds every *)
(* sector it was told to read, and the GPU reads only while Image_Load      *)
(* waits in DrawSync, before free (file.c:13-15, image.c:82-92).            *)
DevicesOwnLiveBuffer ==
  /\ drive.state = "reading" => pc = "readsync" /\ drive.bytes =< buffer
  /\ gpu # {} => pc \in {"pixelsync", "clutsync"} /\ buffer > 0

(* Image_Load goes past File_Open only with a File that CdSearchFile filled *)
(* in: the status of File_Open is inverted and so is its test, and the two  *)
(* cancel out (file.c:4, image.c:39-42).                                    *)
OnlyFoundFilesAreRead == pc \notin {"idle", "open"} => fp = "found"

(* As long as the palette rows have not run off the end of VRAM, every      *)
(* loaded Image still has its pixels, and its palette if it is indexed, in  *)
(* VRAM: no later load of another Image was copied over them                *)
(* (image.c:5-33, 62-89).                                                   *)
LoadedImagesIntact ==
  clutStack =< VramH =>
    \A s \in Slots :
      images[s] # NoImage /\ ~(s = slot /\ Uploading)
        => /\ PixelRegion(s) \in vram
           /\ images[s].indexed => ClutRegion(s) \in vram

(* Under the same bound no load is copied over the frame buffer or the      *)
(* debug font (image.c:5-6, renderer.c:23-26, 47).                          *)
RendererRegionsUntouched ==
  clutStack =< VramH =>
    \A v \in vram, r \in Reserved : ~Overlap(v, r)

(* A load that answers an error leaves vramStack, clutStack and every Image *)
(* as they were when it was called, wherever it failed (image.c:35-65).     *)
FailedLoadTakesNothing ==
  pc = "idle" /\ status # Okay => Store = before

(* Between calls the whole heap is free as long as no load failed after     *)
(* malloc; the only loads that keep their buffer are those that answered    *)
(* FileReadError or VRAMError, and malloc never fails before one of them    *)
(* has (image.c:45-65, 92).                                                 *)
OnlyFailedLoadsLeak ==
  past \cap {FileReadError, VRAMError} = {}
    => /\ heapFree + buffer = HeapBytes
       /\ MallocError \in past => \E f \in Files : BufferBytes(f) > HeapBytes

(* A load touches nothing that is not its own, on success and on failure    *)
(* (image.c, file.c).                                                       *)
LoadsAreContained ==
  /\ TypeOK /\ DevicesOwnLiveBuffer
  /\ OnlyFoundFilesAreRead /\ FailedLoadTakesNothing

(* What is loaded stays loaded, and the rest stays free (image.c).          *)
ImagesAreKept ==
  LoadedImagesIntact /\ RendererRegionsUntouched /\ OnlyFailedLoadsLeak

(* Every call returns, once the drive and the GPU finish what they were     *)
(* told to do, unless it ran into uninitialized memory.                     *)
LoadReturns == pc = "open" ~> pc \in {"idle", "undefined"}

(* The load commits where it places the image: from there on it answers     *)
(* Okay.  Seen so, Image_Load implements ImageStore.                        *)
Committed == Uploading \/ pc = "free"
Abstract == INSTANCE ImageStore
              WITH status <- IF Committed THEN Okay ELSE status
ImplementsImageStore == Abstract!Spec

=============================================================================
