----------------------------- MODULE ImageStore -----------------------------
(***************************************************************************)
(* What Image_Load (image.c) promises its callers, without saying how: a   *)
(* load either fills one Image, takes its columns of VRAM and one palette  *)
(* row, and answers Okay; or it answers an error and takes nothing.        *)
(*                                                                         *)
(* VRAM columns are handed out from both ends of one range (vramStack) and *)
(* palette rows from one counter (clutStack); neither is ever given back.  *)
(***************************************************************************)
EXTENDS Integers

CONSTANTS
  Slots,        \* the Image structs a load can fill
  Files,        \* the TIM files
  Calls,        \* the pairs <<slot, file>> callers pass to Image_Load
  Tim,          \* [Files -> header of the TIM and its size on the disc]
  ImageVX, ImageVY,     \* [Files -> Int]: the position argument, or AUTO
  DirOf,        \* [Files -> {None, Left, Right}]: the direction argument
  PoolStart, PoolEnd,   \* the initial vramStack
  ClutStart     \* the initial clutStack

AUTO == -1

None  == "None"
Left  == "Left"
Right == "Right"
Direction == {None, Left, Right}

Okay          == "Okay"
FileLoadError == "FileLoadError"
MallocError   == "MallocError"
FileReadError == "FileReadError"
FileFindError == "FileFindError"
VRAMError     == "VRAMError"
Status == {Okay, FileLoadError, MallocError, FileReadError, FileFindError,
           VRAMError}

TimHeader == [w : Nat \ {0}, h : Nat \ {0}, bytes : Nat \ {0},
              indexed : BOOLEAN]

ASSUME CallsAssumption == Calls \subseteq Slots \X Files

ASSUME TimAssumption ==
  /\ Tim \in [Files -> TimHeader]
  /\ ImageVX \in [Files -> Nat \cup {AUTO}]
  /\ ImageVY \in [Files -> Nat \cup {AUTO}]
  /\ DirOf \in [Files -> Direction]

ASSUME PoolAssumption ==
  PoolStart \in Nat /\ PoolEnd \in Nat /\ PoolStart =< PoolEnd

ASSUME ClutAssumption == ClutStart \in Nat

(* An Image that no load has filled yet. *)
NoImage == [x |-> AUTO, y |-> AUTO, w |-> 0, h |-> 0,
            indexed |-> FALSE, clut |-> AUTO]

Image == [x : Int, y : Int, w : Nat, h : Nat, indexed : BOOLEAN, clut : Int]

VARIABLES
  vramStart, vramEnd,   \* vramStack.start and vramStack.end
  clutStack,            \* the next palette row
  images,               \* [Slots -> Image]: the Image structs
  status                \* what the last load answered

storeVars == <<vramStart, vramEnd, clutStack, images, status>>

-----------------------------------------------------------------------------

(* The caller leaves the position to VRAM_Alloc. *)
FromPool(f) == ImageVX[f] = AUTO \/ ImageVY[f] = AUTO

(* VRAM_Alloc finds room for w columns in direction d.  With d = None it    *)
(* answers (0, 0) and takes nothing.                                        *)
Fits(w, d) ==
  CASE d = Left  -> vramStart + w =< vramEnd
    [] d = Right -> vramEnd - w >= vramStart
    [] OTHER     -> TRUE

(* What VRAM_Alloc answers, and what it makes of vramStack, when w fits. *)
VRAM_Alloc(w, d) ==
  CASE d = Left  -> [x |-> vramStart, start |-> vramStart + w, end |-> vramEnd]
    [] d = Right -> [x |-> vramEnd - w, start |-> vramStart, end |-> vramEnd - w]
    [] OTHER     -> [x |-> 0, start |-> vramStart, end |-> vramEnd]

(* clutStack++ *)
SameClutRow == clutStack   \* mutant: the increment is forgotten
NextClutRow == clutStack + 1

(* The part of Image_Load after which it can no longer fail: take VRAM for  *)
(* file f, take the next palette row, and fill the Image struct in slot s.  *)
Place(s, f) ==
  LET t     == Tim[f]
      taken == IF FromPool(f) THEN VRAM_Alloc(t.w, DirOf[f])
                          ELSE [x |-> ImageVX[f], start |-> vramStart,
                                end |-> vramEnd]
  IN /\ FromPool(f) => Fits(t.w, DirOf[f])
     /\ vramStart' = taken.start
     /\ vramEnd' = taken.end
     /\ clutStack' = NextClutRow
     /\ images' = [images EXCEPT ![s] =
                     [x |-> taken.x,
                      y |-> IF FromPool(f) THEN 0 ELSE ImageVY[f],
                      w |-> t.w, h |-> t.h,
                      indexed |-> t.indexed, clut |-> clutStack]]

-----------------------------------------------------------------------------

Init ==
  /\ vramStart = PoolStart
  /\ vramEnd = PoolEnd
  /\ clutStack = ClutStart
  /\ images = [s \in Slots |-> NoImage]
  /\ status = Okay

(* A load of f into s that answers Okay. *)
LoadOkay(s, f) ==
  /\ Place(s, f)
  /\ status' = Okay

(* A load that finds no room in VRAM. *)
LoadFull(f) ==
  /\ FromPool(f) /\ ~Fits(Tim[f].w, DirOf[f])
  /\ status' = VRAMError
  /\ UNCHANGED <<vramStart, vramEnd, clutStack, images>>

(* A load that fails before it looks at VRAM: the disc or the heap. *)
LoadFails ==
  /\ status' \in {FileLoadError, MallocError, FileReadError}
  /\ UNCHANGED <<vramStart, vramEnd, clutStack, images>>

Next ==
  \/ \E c \in Calls : LoadOkay(c[1], c[2])
  \/ \E c \in Calls : LoadFull(c[2])
  \/ LoadFails

Spec == Init /\ [][Next]_storeVars

=============================================================================
