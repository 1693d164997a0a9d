----------------------------- MODULE BackupUnit -----------------------------
(***************************************************************************)
(* The directory of a memory card (nugget/openbios/card/backupunit.c) and  *)
(* the creation of files in it (card/device.c): what is on the cards, the  *)
(* copy the BIOS keeps of the one it knows, and a program that creates     *)
(* files while writes fail, cards are exchanged and the power goes.        *)
(*                                                                         *)
(* Of an entry the model has all but the padding, the size in blocks.  A   *)
(* sector is written whole or not at all: the card checks it before it     *)
(* keeps it.  Files have at least one block; the cards are formatted.      *)
(***************************************************************************)
EXTENDS Integers, Sequences, FiniteSets, FiniteSetsExt, SequencesExt

CONSTANTS
  BlockCount,   \* 15
  FileNames,    \* of files
  Cards         \* that may be in the slot

NoName == "none"
ASSUME BackupUnitAssumption == BlockCount \in Nat \ {0} /\ NoName \notin FileNames

CardBlock == 0 .. BlockCount - 1
NoBlock == -1
INFO == -1   \* in place of a sector: cardInfo

(* allocState is free, 0xa0, or the first, a middle or the last block, 0x51 *)
(* to 0x53; the entries of a card that cannot be read are all zero.         *)
AllocState == {"a0", "51", "52", "53", "zero"}
DirEntry == [state : AllocState, size : 0 .. BlockCount,
             next : CardBlock \cup {NoBlock}, name : FileNames \cup {NoName}]
DirEntries == [CardBlock -> DirEntry]
FreeEntry == [state |-> "a0", size |-> 0, next |-> NoBlock, name |-> NoName]
EmptyCard == [b \in CardBlock |-> FreeEntry]
ZeroedCard ==
  [b \in CardBlock |-> [state |-> "zero", size |-> 0, next |-> 0, name |-> NoName]]

VARIABLES
  cards,   \* the directory on each card, and its "new card" flag
  slot,    \* the card that is in the slot
  dir,     \* g_buDirEntries
  job,     \* what the program is at
  todo,    \* the sectors it still has to write for it
  saved,   \* history: by card, the files of one block created since its format
  lame     \* history: a format could not write every entry

unitVars == <<cards, slot, dir, job, todo, saved, lame>>

NoJob == [what |-> "none", name |-> NoName, size |-> 0, blocks |-> <<>>]

-----------------------------------------------------------------------------
(* The blocks that follow b in its file. *)
Rest(e, b) ==
  LET f[k \in 0 .. e[b].size] ==
        IF k = 0 THEN b ELSE IF f[k - 1] = NoBlock THEN NoBlock ELSE e[f[k - 1]].next
  IN  {f[k] : k \in 1 .. e[b].size - 1} \ {NoBlock}

(* The name of a free entry stays, but is never read. *)
FreedBlocks(e, S) == [b \in CardBlock |-> IF b \in S THEN FreeEntry ELSE e[b]]

(* buValidateEntryAndCorrect: a file of several blocks loses them all.  The *)
(* loop that would look for a free block among them first never runs: its   *)
(* test is (mask != state) & 0xf0.                                          *)
buValidateEntryAndCorrect(e, b) ==
  IF e[b].state = "51" /\ Rest(e, b) # {} THEN FreedBlocks(e, {b} \cup Rest(e, b)) ELSE e

(* buInit: what it makes of the entries it reads. *)
OfFiles(e) ==
  UNION {{b} \cup Rest(e, b) : b \in {c \in CardBlock : e[c].state = "51"}}

Read(entries) ==
  LET f[k \in 0 .. BlockCount] ==
        IF k = 0 THEN entries ELSE buValidateEntryAndCorrect(f[k - 1], k - 1)
  IN  FreedBlocks(f[BlockCount], CardBlock \ OfFiles(f[BlockCount]))

FlagOf(c, new) == [cards EXCEPT ![c].new = new]

(* The write to sector 0x3f clears the flag; until it does the card refuses *)
(* to be read.                                                              *)
buInit ==
  \/ /\ dir' = Read(cards[slot].entries)
     /\ cards' = FlagOf(slot, FALSE)
  \/ /\ dir' = ZeroedCard
     /\ \E new \in {FALSE, cards[slot].new} : cards' = FlagOf(slot, new)

-----------------------------------------------------------------------------
UnitInit ==   \* initBackupUnit, with new cards
  /\ cards = [c \in Cards |-> [entries |-> EmptyCard, new |-> FALSE]]
  /\ slot \in Cards
  /\ dir = EmptyCard
  /\ job = NoJob
  /\ todo = <<>>
  /\ saved = [c \in Cards |-> {}]
  /\ lame = FALSE

(* buDevInit, with which dev_bu_firstFile and an open begin: sector 0 is    *)
(* read, and all the directory if the card says that it is new.             *)
buDevInit ==
  /\ job = NoJob
  /\ cards[slot].new
  /\ buInit
  /\ UNCHANGED <<slot, job, todo, saved, lame>>

(* buNextFileInternal *)
FoundAt(name) == {b \in CardBlock : dir[b].state = "51" /\ dir[b].name = name}

FreeBlocksNotFirst ==   \* mutant: so does every block where no file begins
  {b \in CardBlock : dir[b].state # "51"}

FreeBlocks == {b \in CardBlock : dir[b].state = "a0"}

(* The first n free blocks, in order.                                      *)
FirstFree(n) ==
  LET f[i \in 0 .. n] == IF i = 0 THEN NoBlock ELSE Min({b \in FreeBlocks : b > f[i - 1]})
  IN  [i \in 1 .. n |-> f[i]]

Claimed(blocks, name) ==
  LET n == Len(blocks) IN
  [b \in CardBlock |->
     IF ~Contains(blocks, b) THEN dir[b]
     ELSE LET i == CHOOSE j \in 1 .. n : blocks[j] = b IN
          [state |-> IF i = 1 THEN "51" ELSE IF i = n THEN "53" ELSE "52",
           size |-> IF i = 1 THEN n ELSE dir[b].size,
           next |-> IF i = n THEN NoBlock ELSE blocks[i + 1],
           name |-> IF i = 1 THEN name ELSE dir[b].name]]

(* buWriteTOC: the blocks that follow, then the first one. *)
buWriteTOC(blocks) == Tail(blocks) \o <<INFO, blocks[1], INFO>>

(* dev_bu_open with PSXF_CREAT, in the first free blocks.  One that is      *)
(* asynchronous does not look at the card first, so no flag is asked here.  *)
Create(name, n) ==
  /\ job = NoJob
  /\ FoundAt(name) = {} /\ n =< Cardinality(FreeBlocks)
  /\ LET blocks == FirstFree(n)
     IN  /\ dir' = Claimed(blocks, name)
         /\ job' = [what |-> "create", name |-> name, size |-> n, blocks |-> blocks]
         /\ todo' = buWriteTOC(blocks)
  /\ UNCHANGED <<cards, slot, saved, lame>>

Written == [cards EXCEPT ![slot].entries[Head(todo)] = dir[Head(todo)]]

(* A sector is written, or cardInfo has said that the one before was. *)
WriteAnswered == job.what = "create" /\ todo # <<>> /\ ~cards[slot].new

CreateWrites ==
  /\ WriteAnswered
  /\ cards' = IF Head(todo) = INFO THEN cards ELSE Written
  /\ todo' = Tail(todo)
  /\ job' = IF Len(todo) = 1 THEN NoJob ELSE job
  /\ saved' = IF Len(todo) = 1 /\ job.size = 1
              THEN [saved EXCEPT ![slot] = @ \cup {[block |-> job.blocks[1],
                                                    name |-> job.name]}]
              ELSE saved
  /\ UNCHANGED <<slot, dir, lame>>

(* A write fails, though it may have reached the card.  If the file begins  *)
(* in block 0 the next free block is added to it and all is written again,  *)
(* and when there is none left the open succeeds; else the loop that would  *)
(* free its blocks frees the first and never ends.                          *)
CreateFails ==
  /\ job.what = "create" /\ todo # <<>>
  /\ \/ UNCHANGED cards
     \/ ~cards[slot].new /\ Head(todo) # INFO /\ cards' = Written
  /\ LET first == job.blocks[1]
         last == Last(job.blocks)
         more == {b \in FreeBlocks : b > last}
     IN
     \/ /\ first # 0
        /\ dir' = FreedBlocks(dir, {first})
        /\ job' = [NoJob EXCEPT !.what = "hung"]
        /\ todo' = <<>>
     \/ /\ first = 0 /\ more = {}
        /\ job' = NoJob
        /\ todo' = <<>>
        /\ UNCHANGED dir
     \/ /\ first = 0 /\ more # {}
        /\ dir' = [dir EXCEPT ![last].next = Min(more), ![Min(more)].state = "53",
                              ![Min(more)].next = NoBlock]
        /\ job' = [job EXCEPT !.blocks = Append(@, Min(more))]
        /\ todo' = buWriteTOC(job'.blocks)
  /\ UNCHANGED <<slot, saved, lame>>

(* buFormat: the flag does not keep it from writing sector 0; from then on  *)
(* every entry is written, and nothing asks whether it was.                 *)
Format ==
  /\ job = NoJob
  /\ \E new \in {FALSE, cards[slot].new} : cards' = FlagOf(slot, new)
  /\ saved' = [saved EXCEPT ![slot] = {}]
  /\ job' = [NoJob EXCEPT !.what = "format"]
  /\ todo' = [i \in 1 .. BlockCount |-> i - 1]
  /\ UNCHANGED <<slot, dir, lame>>

FormatWrites ==
  /\ job.what = "format"
  /\ dir' = [dir EXCEPT ![Head(todo)] = FreeEntry]
  /\ \/ ~cards[slot].new /\ UNCHANGED lame
        /\ cards' = [cards EXCEPT ![slot].entries[Head(todo)] = FreeEntry]
     \/ lame' = TRUE /\ UNCHANGED cards
  /\ todo' = Tail(todo)
  /\ job' = IF Len(todo) = 1 THEN NoJob ELSE job
  /\ UNCHANGED <<slot, saved>>

(* At any moment the card is exchanged, for itself perhaps, or the power    *)
(* goes and comes back; a card says that it is new after either.            *)
ExchangeCard ==
  /\ slot' \in Cards
  /\ cards' = FlagOf(slot', TRUE)
  /\ UNCHANGED <<dir, job, todo, saved, lame>>

PowerCycle ==
  /\ buInit
  /\ job' = NoJob
  /\ todo' = <<>>
  /\ UNCHANGED <<slot, saved, lame>>

UnitNext ==
  \/ buDevInit
  \/ \E name \in FileNames, n \in 1 .. BlockCount : Create(name, n)
  \/ CreateWrites \/ CreateFails
  \/ Format \/ FormatWrites
  \/ ExchangeCard \/ PowerCycle

UnitSpec == UnitInit /\ [][UnitNext]_unitVars

-----------------------------------------------------------------------------

(* What the variables hold; the chains of the directory end. *)
UnitTypeOK ==
  /\ cards \in [Cards -> [entries : DirEntries, new : BOOLEAN]]
  /\ slot \in Cards
  /\ dir \in DirEntries
  /\ job.what \in {"none", "create", "format", "hung"}
  /\ todo \in Seq(CardBlock \cup {INFO})
  /\ saved \in [Cards -> SUBSET [block : CardBlock, name : FileNames]]
  /\ lame \in BOOLEAN

(* A file of one block that was created without an error stays on its card, *)
(* whatever fails, is exchanged or loses power after it, until the card is  *)
(* formatted (device.c:142-171, backupunit.c:523-551).                      *)
SavedFilesStay ==
  \A c \in Cards : \A f \in saved[c] :
    LET e == cards[c].entries[f.block]
    IN  e.state = "51" /\ e.name = f.name /\ e.size = 1

(* The directory in memory is that of the card in the slot as long as the   *)
(* card does not say that it is new: such a file is found in it, or nothing *)
(* is (device.c:73-95, backupunit.c:206-279).                               *)
SavedFilesFound ==
  ~cards[slot].new /\ dir # ZeroedCard /\ job.what # "format" =>
    \A f \in saved[slot] : f.block \in FoundAt(f.name)

(* No block belongs to two files of the directory, nor to one and the free  *)
(* ones (device.c:142-171, backupunit.c:238-260).                           *)
NoSharedBlocks ==
  job.what # "format" =>
    \A b \in CardBlock : dir[b].state = "51" =>
      /\ \A r \in Rest(dir, b) : dir[r].state \in {"52", "53"}
      /\ \A c \in CardBlock \ {b} :
           dir[c].state = "51" => Rest(dir, b) \cap ({c} \cup Rest(dir, c)) = {}

(* No two files have the same name, unless a format failed in part.         *)
NamesUnique ==
  ~lame => \A b, c \in CardBlock :
    dir[b].state = "51" /\ dir[c].state = "51" /\ dir[b].name = dir[c].name => b = c

(* The directory of a card, on it and in memory, survives what fails        *)
(* (device.c:142-171, backupunit.c:206-279, 523-551).                       *)
DirectoriesKept ==
  UnitTypeOK /\ SavedFilesStay /\ SavedFilesFound /\ NoSharedBlocks /\ NamesUnique

=============================================================================
