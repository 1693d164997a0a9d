------------------------------ MODULE MCFiles ------------------------------
(***************************************************************************)
(* The tables of files and devices with the file systems behind them: the  *)
(* discs' directories, the directory of a memory card, searches in the     *)
(* directories of two ports, and the sectors of a file on a card.  They    *)
(* share no variable, and the tables take every answer of a driver: what   *)
(* one part reaches it reaches alone.  So one moves in each behaviour, the *)
(* others stay in an initial state.                                        *)
(***************************************************************************)
EXTENDS FileIO, CardSectors, CdFiles, CardSearch

VARIABLE part   \* which one moves

(* Two discs that share names in different places, one with a directory    *)
(* the other lacks, with an entry further on than its parent has any.      *)
Listings ==
  [d1 |-> <<<<"self", "parent", "A">>, <<"self", "parent", "B", "A">>>>,
   d2 |-> <<<<"self", "parent", "A", "B">>>>]
DirectoriesBelow == [d1 |-> <<{2}, {}>>, d2 |-> <<{}>>]
ListingPatterns == {{"A"}, {"B"}, {"parent", "A", "B"}}

(* A program that holds its files and lists little in between, or one that *)
(* searches, opens in its searches alone and closes again at once.         *)
HoldsFiles ==
  /\ CdFilesNext
  /\ cwd' = cwd /\ cdSearch'.pattern \in {{}, {"B"}}
  /\ cdSearch'.clean /\ ~cdSearch'.over
ListsFiles ==
  /\ ~lost
  /\ \/ cdFiles # <<>> /\ \E f \in CdSlots : Close(f)
     \/ /\ cdFiles = <<>>
        /\ \/ /\ cdSearch.active /\ cdSearch.alone
              /\ \E f \in CdSlots, folder \in Dirs, n \in NamesAsked : dev_cd_open(f, folder, n)
           \/ \E p \in Patterns : dev_cd_firstFile(p)
           \/ dev_cd_nextFile
           \/ \E folder \in Dirs : dev_cd_chdir(folder)
           \/ \E d \in Discs : Swap(d)

ReplacedSectors == <<7, -1>>   \* one sector replaced

(* Names of up to three characters, the longest as long as the array, in   *)
(* directories with files in different places and with deleted ones.       *)
Directory(x, y, z) == [b \in 0 .. 2 |-> <<x, y, z>>[b + 1]]
A == <<"51", <<"a">>>>
AB == <<"51", <<"a", "b">>>>
BAB == <<"51", <<"b", "a", "b">>>>
Free == <<"a0", <<>>>>
SearchedDirectories ==
  {Directory(BAB, A, AB), Directory(AB, <<"52", <<>>>>, A),
   Directory(<<"a1", <<"b">>>>, BAB, <<"a1", <<"a">>>>), Directory(Free, A, Free)}
SecondDirectory == Directory(Free, A, Free)
SearchPatterns ==
  {<<>>, <<"a", "*">>, <<"b", "?">>, <<"a", "b">>, <<"b", "a", "b">>, <<"?", "?", "*">>,
   <<"?", "b">>}

(* One card, on which a program creates files of any length; or two that   *)
(* are exchanged, with a name of its own and files of at most two blocks.  *)
OneCard == slot' = slot
TwoCards ==
  job'.what = "create" /\ job.what # "create" =>
    job'.size =< 2 /\ job'.name = (IF slot = "c1" THEN "a" ELSE "b")

MCInit ==
  /\ part \in {"tables", "discs", "listings", "card", "cards", "sectors", "searches"}
  /\ Init /\ (part = "tables" \/ devices[2] = "cdrom")
  /\ CdFilesInit
  /\ UnitInit /\ (part = "cards" \/ slot = "c1")
  /\ SectorsInit /\ (part = "sectors" \/ file = <<0>>)
  /\ SearchInit /\ (part = "searches" \/ entries[1] = entries[2])

MCNext ==
  /\ UNCHANGED part
  /\ \/ /\ part = "tables"
        /\ Next \/ (aborted /\ UNCHANGED vars)   \* ioabort does not return
        /\ UNCHANGED <<cdFileVars, unitVars, sectorVars, searchVars>>
     \/ /\ part \in {"discs", "listings"}
        /\ \/ part = "discs" /\ HoldsFiles
           \/ part = "listings" /\ ListsFiles
           \/ lost /\ UNCHANGED cdFileVars
        /\ UNCHANGED <<vars, unitVars, sectorVars, searchVars>>
     \/ part = "card" /\ UnitNext /\ OneCard /\ UNCHANGED <<vars, cdFileVars, sectorVars, searchVars>>
     \/ part = "cards" /\ UnitNext /\ TwoCards /\ UNCHANGED <<vars, cdFileVars, sectorVars, searchVars>>
     \/ part = "sectors" /\ SectorsNext /\ UNCHANGED <<vars, cdFileVars, unitVars, searchVars>>
     \/ part = "searches" /\ SearchNext /\ UNCHANGED <<vars, cdFileVars, unitVars, sectorVars>>

mcVars == <<part, vars, cdFileVars, unitVars, sectorVars, searchVars>>
MCSpec == MCInit /\ [][MCNext]_mcVars
=============================================================================
