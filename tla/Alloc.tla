------------------------------- MODULE Alloc -------------------------------
(***************************************************************************)
(* The allocator of the BIOS (nugget/openbios/kernel/alloc.c), for one of  *)
(* its two heaps; the other has the same code and variables of its own.    *)
(*                                                                         *)
(* Every size and address of the code is a multiple of 8 bytes once it is  *)
(* rounded up, so the unit here is 8 bytes and the heap begins at 0.  A    *)
(* block is a header and the memory behind it; the list of blocks is a     *)
(* sequence.  user_heap_base is always the start of the heap when it is    *)
(* used, and user_heap_bottom is NULL only when it may as well be that.    *)
(* Sums do not wrap: sizes near 2^32 are left out.                         *)
(***************************************************************************)
EXTENDS Integers, Sequences, SequencesExt, Functions

CONSTANTS
  HeapSize,   \* units between the start and the end of the heap
  Sizes       \* what malloc and realloc are called with, in units

HeapAssumption == HeapSize \in Nat /\ Sizes \subseteq Nat

HEADER == 2   \* sizeof(heap_t)
NULL == -1

VARIABLES
  heap,       \* [blocks, bottom]: the list, and the end of the used part
  asked,      \* history: what the program holds, by pointer, and its length
  crossed     \* history: realloc has let a block grow past the next header

heapVars == <<heap, asked, crossed>>

-----------------------------------------------------------------------------
(* A block: where its header is, and the size behind the header. *)
Block(at, size) == [at |-> at, size |-> size]
Ptr(b) == b.at + HEADER
End(b) == Ptr(b) + b.size

Gap(h, k) == h.blocks[k + 1].at - End(h.blocks[k])

(* sbrk(n): may the end of the used part be moved by n? *)
SbrkOkUnbounded(h, n) == TRUE   \* mutant: the end of the heap is not looked at

SbrkOk(h, n) == h.bottom + n =< HeapSize

(* The first block with at least n units free behind it, or 0. *)
find_fit(h, n) ==
  SelectInSeq([k \in 1 .. Len(h.blocks) - 1 |-> Gap(h, k)],
              LAMBDA gap : gap >= n)

Heap(blocks, bottom) == [blocks |-> blocks, bottom |-> bottom]
Answer(ptr, h) == [ptr |-> ptr, heap |-> h]

(* malloc: at the bottom of an empty heap, before the first block, in the   *)
(* first gap that is large enough, or by moving the end.                    *)
AtFront(h, n) == n < h.blocks[1].at

multi_malloc(h, size) ==
  LET n == size + HEADER IN
  IF h.blocks # <<>> /\ AtFront(h, n)
  THEN Answer(HEADER, Heap(<<Block(0, size)>> \o h.blocks, h.bottom))
  ELSE IF h.blocks # <<>> /\ find_fit(h, n) # 0
  THEN LET k == find_fit(h, n)
           new == Block(End(h.blocks[k]), size)
       IN  Answer(Ptr(new), Heap(InsertAt(h.blocks, k + 1, new), h.bottom))
  ELSE IF SbrkOk(h, n)
  THEN LET new == Block(h.bottom, size)
       IN  Answer(Ptr(new), Heap(Append(h.blocks, new), h.bottom + n))
  ELSE Answer(NULL, h)

(* free: an empty heap is begun anew; freeing the last block moves the end  *)
(* back to the block before; a pointer that is not in the list is ignored.  *)
Index(h, ptr) == SelectInSeq(h.blocks, LAMBDA b : Ptr(b) = ptr)

BottomStays(h, k) ==   \* mutant: the end stays when the heap becomes empty
  IF k = Len(h.blocks) /\ k > 1 THEN End(h.blocks[k - 1]) ELSE h.bottom

BottomAfter(h, k) ==
  IF Len(h.blocks) = 1 THEN 0
  ELSE IF k = Len(h.blocks) THEN End(h.blocks[k - 1])
  ELSE h.bottom

multi_free(h, ptr) ==
  LET k == Index(h, ptr) IN
  IF k = 0 THEN h ELSE Heap(RemoveAt(h.blocks, k), BottomAfter(h, k))

Resized(h, k, size, bottom) ==
  Heap([h.blocks EXCEPT ![k] = Block(@.at, size)], bottom)

(* "Do we have free memory after it ?" *)
RoomAfter(h, k, n) == Ptr(h.blocks[k + 1]) - Ptr(h.blocks[k]) > n

(* realloc of a pointer the program holds, to a size that is not 0.  The    *)
(* size it works with has the header in it, as malloc's has, but is         *)
(* compared with sizes that have not.                                       *)
multi_realloc(h, ptr, size) ==
  LET n == size + HEADER
      k == Index(h, ptr)
      old == h.blocks[k].size
      isLast == k = Len(h.blocks)
  IN
  IF old >= n
  THEN Answer(ptr, Resized(h, k, n, IF isLast THEN ptr + n ELSE h.bottom))
  ELSE IF isLast
  THEN IF SbrkOk(h, n - old)
       THEN Answer(ptr, Resized(h, k, n, h.bottom + n - old))
       ELSE Answer(NULL, h)
  ELSE IF RoomAfter(h, k, n)
  THEN Answer(ptr, Resized(h, k, n, h.bottom))
  ELSE LET new == multi_malloc(h, n)
       IN  IF new.ptr = NULL THEN new
           ELSE Answer(new.ptr, multi_free(new.heap, ptr))

Crossed(h) == \E k \in 1 .. Len(h.blocks) - 1 : Gap(h, k) < 0

-----------------------------------------------------------------------------
With(f, p, n) == [q \in DOMAIN f \cup {p} |-> IF q = p THEN n ELSE f[q]]
Without(f, p) == [q \in DOMAIN f \ {p} |-> f[q]]

(* initheap. *)
HeapInit ==
  /\ heap = Heap(<<>>, 0)
  /\ asked = [p \in {} |-> 0]
  /\ crossed = FALSE

malloc(size) ==
  LET r == multi_malloc(heap, size) IN
  /\ heap' = r.heap
  /\ asked' = IF r.ptr = NULL THEN asked ELSE With(asked, r.ptr, size)
  /\ UNCHANGED crossed

free(ptr) ==
  /\ heap' = multi_free(heap, ptr)
  /\ asked' = Without(asked, ptr)
  /\ UNCHANGED crossed

(* realloc(ptr, 0) is free, realloc(NULL, size) is malloc. *)
realloc(ptr, size) ==
  LET r == multi_realloc(heap, ptr, size) IN
  /\ size # 0
  /\ heap' = r.heap
  /\ asked' = IF r.ptr = NULL THEN asked
              ELSE With(Without(asked, ptr), r.ptr, size)
  /\ crossed' = Crossed(r.heap)

(* Past the next header the list is no longer what the code takes it for:   *)
(* the next find_fit would hand out memory that is in use.                  *)
HeapNext ==
  /\ ~crossed
  /\ \/ \E size \in Sizes : malloc(size)
     \/ \E ptr \in DOMAIN asked : free(ptr)
     \/ \E ptr \in DOMAIN asked, size \in Sizes : realloc(ptr, size)

HeapSpec == HeapInit /\ [][HeapNext]_heapVars

-----------------------------------------------------------------------------

(* What the variables hold; every block is within the used part of the heap *)
(* and that within the heap.                                                *)
HeapTypeOK ==
  /\ heap.blocks \in Seq([at : 0 .. HeapSize, size : 0 .. HeapSize])
  /\ heap.bottom \in 0 .. HeapSize
  /\ DOMAIN asked \subseteq HEADER .. HeapSize /\ Range(asked) \subseteq Sizes
  /\ crossed \in BOOLEAN

(* The list is in the order of the heap, no block reaches into the header   *)
(* of the next, and the used part ends with the last block: every gap that  *)
(* find_fit sees is memory nobody uses (alloc.c:97-111, 177-188, 255-281).  *)
BlocksApart ==
  ~crossed =>
    /\ \A k \in 1 .. Len(heap.blocks) - 1 : Gap(heap, k) >= 0
    /\ heap.bottom = IF heap.blocks = <<>> THEN 0 ELSE End(Last(heap.blocks))

(* The blocks of the list are exactly those the program holds, with no less *)
(* room than it asked for: none is lost, none is given twice.               *)
BlocksAreHeld ==
  /\ {Ptr(b) : b \in Range(heap.blocks)} = DOMAIN asked
  /\ \A b \in Range(heap.blocks) : b.size >= asked[Ptr(b)]

(* malloc answers NULL only when no gap between blocks has room for the     *)
(* block, nor the end of the heap, whatever was freed and in which order    *)
(* (alloc.c:176-193, 220-278).                                              *)
NullMeansFull ==
  \A size \in Sizes :
    multi_malloc(heap, size).ptr = NULL =>
      /\ \A k \in 1 .. Len(heap.blocks) - 1 : Gap(heap, k) < size + HEADER
      /\ LET used == IF heap.blocks = <<>> THEN 0 ELSE End(Last(heap.blocks))
         IN  used + size + HEADER > HeapSize

(* The heap is what the program holds and gaps that malloc finds           *)
(* (kernel/alloc.c).                                                       *)
HeapIsAccounted == HeapTypeOK /\ BlocksApart /\ BlocksAreHeld /\ NullMeansFull

(* malloc, free and realloc do what HeapStore promises. *)
Store == INSTANCE HeapStore WITH live <- asked
ImplementsHeapStore == Store!Spec

(* "Do we have free memory after it ?" (alloc.c:316): realloc lets a block  *)
(* grow in its place only over memory that is free.                         *)
GrowsIntoFreeMemory == ~crossed

=============================================================================
