----------------------------- MODULE CardSectors -----------------------------
(***************************************************************************)
(* Which sectors of a memory card a read or a write of a file goes to      *)
(* (nugget/openbios/card/device.c, and the chains of card/backupunit.c     *)
(* that go on behind the program): a synchronous transfer goes block by    *)
(* block, an asynchronous one looks every sector up by itself.             *)
(***************************************************************************)
EXTENDS Integers, Sequences, FiniteSets, SequencesExt

CONSTANTS
  S,              \* 0x40: the sectors of a block
  Blocks,         \* 15
  MaxLength,      \* blocks of the file
  Broken,         \* g_buBroken, of the sectors' own numbers, -1 where unused
  OnlySafe        \* the program asks only for what Safe allows

ASSUME CardSectorsAssumption ==
  /\ S \in Nat \ {0, 1} /\ Blocks \in Nat \ {0} /\ MaxLength \in 1 .. Blocks
  /\ Broken \in Seq(Int) /\ Len(Broken) > 0
  /\ OnlySafe \in BOOLEAN

NONE == -1
Block == 0 .. Blocks - 1

VARIABLES
  file,     \* its blocks in order
  offset,   \* of the open file, in sectors
  call,     \* the transfer that is under way
  moved     \* history: where it began, and the sectors of the card it has
            \* read or written

sectorVars == <<file, offset, call, moved>>

NextBlock(b) == LET i == CHOOSE j \in DOMAIN file : file[j] = b
                IN  IF i = Len(file) THEN NONE ELSE file[i + 1]

-----------------------------------------------------------------------------
(* buRelativeToAbsoluteSector: steps to the next block from its last sector *)
(* on, the sector then being the one before that block's first.             *)
StepsAt(sector) == sector >= S - 1

buRelativeToAbsoluteSector(block, sector) ==
  LET at[n \in 0 .. MaxLength] ==   \* after n steps
        IF n = 0 THEN <<block, sector>>
        ELSE IF at[n - 1][1] = NONE \/ ~StepsAt(at[n - 1][2]) THEN at[n - 1]
        ELSE <<NextBlock(at[n - 1][1]), at[n - 1][2] - S>>
      last == at[MaxLength]
  IN  IF last[1] = NONE THEN NONE ELSE last[1] * S + last[2] + S

(* buGetReallocated, and what its callers make of it; the replacements are  *)
(* numbered below 0 here, and those of unused entries have the number -1.   *)
Reallocated(sector) ==
  IF Contains(Broken, sector)
  THEN -1 - SelectInSeq(Broken, LAMBDA x : x = sector) ELSE sector

(* dev_bu_read and dev_bu_write: how many sectors may be moved before the   *)
(* block ends.                                                              *)
SectorLimit(start) ==
  LET within == start % S
  IN  S - (IF start > 0 /\ within # 0 THEN within - S ELSE within)

Chunk(start, count) == IF count > SectorLimit(start) THEN SectorLimit(start) ELSE count

-----------------------------------------------------------------------------
NoCall == [kind |-> "none", start |-> 0, left |-> 0, at |-> 0, chunk |-> 0]
Nothing(from) == [from |-> from, sectors |-> <<>>]
Moving(sector) == moved' = [moved EXCEPT !.sectors = Append(@, Reallocated(sector))]

SectorsInit ==   \* dev_bu_open
  /\ \E n \in 1 .. MaxLength : file \in [1 .. n -> Block] /\ IsInjective(file)
  /\ offset = 0
  /\ call = NoCall
  /\ moved = Nothing(0)

(* What comes out right: a synchronous transfer from the start of a block,  *)
(* or within one but not from its last sector; an asynchronous one without  *)
(* the last sector of a block.                                              *)
Safe(kind, from, n) ==
  IF kind = "sync" THEN \/ from % S = 0
                        \/ from % S # S - 1 /\ (from % S) + n =< S
  ELSE \A i \in from .. from + n - 1 : i % S # S - 1

Begin(kind, n) ==
  /\ call = NoCall
  /\ offset < Len(file) * S   \* offset >= file->length is refused
  /\ offset + n =< Len(file) * S
  /\ OnlySafe => Safe(kind, offset, n)
  /\ moved' = Nothing(offset)
  /\ call' = [NoCall EXCEPT !.kind = kind, !.start = offset, !.left = n]
  /\ UNCHANGED <<file, offset>>

(* The loop of a synchronous transfer: the next chunk, looked up once. *)
NextChunk ==
  /\ call.kind = "sync" /\ call.chunk = 0 /\ call.left > 0
  /\ call' = [call EXCEPT !.at = buRelativeToAbsoluteSector(file[1], call.start),
                          !.chunk = Chunk(call.start, call.left)]
  /\ UNCHANGED <<file, offset, moved>>

ChunkOf(c) == Chunk(c.start, c.left)

(* buReadBuffer, buWriteBuffer: one sector of the chunk; after the last of  *)
(* the chunk start and buffer move on.                                      *)
MoveSector ==
  /\ call.chunk > 0
  /\ Moving(call.at)
  /\ call' = IF call.chunk > 1
             THEN [call EXCEPT !.at = @ + 1, !.chunk = @ - 1]
             ELSE [call EXCEPT !.chunk = 0, !.at = 0, !.start = @ + ChunkOf(call),
                               !.left = @ - ChunkOf(call)]
  /\ UNCHANGED <<file, offset>>

(* A sector fails, or cardInfo tells that the last one did: the chunks      *)
(* before its own count.                                                    *)
CountedWithOwn == call.start + ChunkOf(call)   \* mutant: its own counts too

Counted == call.start

MoveFails ==
  /\ call.chunk > 0
  /\ UNCHANGED moved \/ Moving(call.at)
  /\ offset' = Counted
  /\ call' = NoCall
  /\ UNCHANGED file

SyncDone ==
  /\ call.kind = "sync" /\ call.chunk = 0 /\ call.left = 0
  /\ offset' = call.start
  /\ call' = NoCall
  /\ UNCHANGED <<file, moved>>

(* buLowLevelOpCompleted: every sector is looked up.  The offset goes along, *)
(* but not for the last sector of a read.                                    *)
Counts(c) == IF c.kind = "read" /\ c.left = 1 THEN 0 ELSE 1

AsyncSector ==
  /\ call.kind \in {"read", "write"} /\ call.left > 0
  /\ Moving(buRelativeToAbsoluteSector(file[1], call.start))
  /\ offset' = offset + Counts(call)
  /\ call' = [call EXCEPT !.start = @ + 1, !.left = @ - 1]
  /\ UNCHANGED file

AsyncEnds ==   \* with the last sector, or with an error
  /\ call.kind \in {"read", "write"}
  /\ call' = NoCall
  /\ UNCHANGED <<file, offset, moved>>

(* lseek *)
Seek ==
  /\ call = NoCall
  /\ offset' \in 0 .. Len(file) * S
  /\ moved' = Nothing(offset')
  /\ UNCHANGED <<file, call>>

SectorsNext ==
  \/ \E kind \in {"sync", "read", "write"}, n \in 0 .. MaxLength * S : Begin(kind, n)
  \/ NextChunk \/ MoveSector \/ MoveFails \/ SyncDone
  \/ AsyncSector \/ AsyncEnds \/ Seek

SectorsSpec == SectorsInit /\ [][SectorsNext]_sectorVars

-----------------------------------------------------------------------------

(* Where a sector of the file is, by the chain of its blocks. *)
Home(i) == Reallocated(file[i \div S + 1] * S + (i % S) + S)

(* What the variables hold: an open file's offset stays within it, and no   *)
(* chunk is longer than a block.                                            *)
SectorsTypeOK ==
  /\ file \in Seq(Block)
  /\ offset \in 0 .. Len(file) * S
  /\ call.kind \in {"none", "sync", "read", "write"}
  /\ call.start \in 0 .. Len(file) * S /\ call.left \in 0 .. Len(file) * S
  /\ call.chunk \in 0 .. S
  /\ moved.from \in 0 .. Len(file) * S

(* A transfer that Safe allows moves the sectors of the file, in order and  *)
(* across its blocks wherever they are, and no others: the chunk's limit    *)
(* and the look-up agree (device.c:207-222, 341-357, backupunit.c:334-338). *)
InPlace ==
  \A k \in DOMAIN moved.sectors : moved.sectors[k] = Home(moved.from + k - 1)

(* The offset a transfer leaves counts nothing that was not moved, whichever *)
(* sector of which chunk fails (device.c:353-360, backupunit.c:322, 335).   *)
CountedIsMoved == offset - moved.from =< Len(moved.sectors)

(* A transfer moves the file's own sectors and counts no others             *)
(* (device.c:207-222, 341-360, backupunit.c:322-338).                       *)
SectorsInPlace == SectorsTypeOK /\ InPlace /\ CountedIsMoved

=============================================================================
