----------------------------- MODULE CardSearch -----------------------------
(***************************************************************************)
(* Searching the directories of the memory cards by name (firstFile and    *)
(* nextFile of card/device.c).  The pattern and the place of the search    *)
(* are kept once for both ports, and every open looks for its file with    *)
(* the same routine and moves the place.  What an open writes to a card is *)
(* BackupUnit's, whose directories these are; here it claims one block of  *)
(* the BIOS's copy.                                                        *)
(*                                                                         *)
(* A call while an operation is under way on its port does nothing and is  *)
(* left out, as are patterns longer than the 20 characters kept.           *)
(***************************************************************************)
EXTENDS BackupUnit

CONSTANTS
  Width,            \* 20, of s_findFilePattern and of a name
  CardDirectories,  \* that buInit may make of a card: <<state, name>> by block
  OtherDirectory,   \* the one of the card in the second port
  CardPatterns,     \* of searches: characters, "?" and "*"
  SearchApart       \* while it searches a program opens at most what was listed

Character == STRING \ {"?", "*", "0", "behind", "other"}   \* of a name

ASSUME CardSearchAssumption ==
  /\ Width \in Nat \ {0} /\ OtherDirectory \in CardDirectories
  /\ \A d \in CardDirectories :
       /\ d \in [CardBlock -> (AllocState \cup {"a1"}) \X Seq(Character)]
       /\ \A b, c \in CardBlock : d[b][1] = "51" /\ d[c] = d[b] => b = c
  /\ \A f \in CardPatterns : f \in Seq(Character \cup {"?", "*"}) /\ Len(f) =< Width

ZeroedNames == [b \in CardBlock |-> <<"zero", <<>>>>]

VARIABLES
  entries,  \* g_buDirEntries, by port
  pattern,  \* s_findFilePattern, as far as its end
  index,    \* s_buNextFileIndex
  status,   \* s_deviceStatus
  cardSearch \* history: the search under way, and what it has listed

searchVars == <<entries, pattern, index, status, cardSearch>>

NoSearch == [at |-> "none", port |-> 1, filename |-> <<>>, listed |-> <<>>]
Searching == cardSearch.at = "going"
Goes == cardSearch' = IF Searching THEN cardSearch ELSE NoSearch

SearchInit ==
  /\ entries \in {<<d, OtherDirectory>> : d \in CardDirectories}
  /\ pattern = <<"0">>
  /\ index = 0
  /\ status = 0
  /\ cardSearch = NoSearch

-----------------------------------------------------------------------------
(* Strings end with "0"; "behind" is the byte behind the array, in which   *)
(* the end of a long pattern is written.  It belongs to another variable.  *)
Question(n) == [i \in 1 .. n |-> "?"]
Cut(f) == IF Contains(f, "*") THEN SubSeq(f, 1, SelectInSeq(f, LAMBDA c : c = "*") - 1) ELSE f

Kept(f) ==
  IF f = <<>> THEN Question(Width - 1) \o <<"0">>
  ELSE LET c == Cut(f) \o IF Contains(f, "*") THEN Question(Width - Len(Cut(f))) ELSE <<>>
       IN  Append(c, IF Len(c) < Width THEN "0" ELSE "behind")

patternMatch(name, p, behind) ==
  LET At(i) == IF p[i] = "behind" THEN behind ELSE p[i] IN
  /\ \A i \in 1 .. Len(name) : i =< Len(p) /\ At(i) \in {"?", name[i]}
  /\ At(Len(name) + 1) \in {"0", "?"}

Wanted(deviceStatus) == IF deviceStatus = 0 THEN "51" ELSE "a1"

(* The first entry from i on, or none: -1.                                 *)
buNextFileInternal(directory, wanted, i, p, behind) ==
  LET found == {b \in i .. BlockCount - 1 :
                  /\ directory[b][1] = wanted /\ directory[b][2] # <<>>
                  /\ patternMatch(directory[b][2], p, behind)}
  IN  IF found = {} THEN -1 ELSE Min(found)

(* What buDevInit leaves: the copy, if the card is the one it knows, or    *)
(* the directory of a new one.  When it fails: the copy, of a card that    *)
(* cannot be asked or read, or an empty one.                               *)
buDevInitOf(port) ==
  entries' \in {entries} \cup {[entries EXCEPT ![port] = d] :
                                 d \in IF port = 1 THEN CardDirectories ELSE {OtherDirectory}}
buDevInitFails(port) == entries' \in {entries, [entries EXCEPT ![port] = ZeroedNames]}

-----------------------------------------------------------------------------
dev_bu_firstFileFails(port) ==
  /\ buDevInitFails(port)
  /\ cardSearch' = NoSearch
  /\ UNCHANGED <<pattern, index, status>>

(* The search s goes on from place i, or ends (PSXENOENT) where it was.    *)
Continue(s, i) ==
  \E behind \in {"0", "other"} :
    LET b == buNextFileInternal(entries'[s.port], Wanted(status'), i + 1, pattern', behind)
    IN  IF b = -1
        THEN cardSearch' = [s EXCEPT !.at = "over"] /\ index' = i
        ELSE cardSearch' = [s EXCEPT !.listed = Append(@, b)] /\ index' = b

dev_bu_firstFile(port, filename) ==
  /\ buDevInitOf(port)
  /\ pattern' = Kept(filename)
  /\ UNCHANGED status
  /\ Continue([at |-> "going", port |-> port, filename |-> filename, listed |-> <<>>], -1)
dev_bu_nextFile ==
  /\ Searching
  /\ UNCHANGED <<entries, pattern, status>>
  /\ Continue(cardSearch, index)

(* The file a program may open in its search.                              *)
LastListed(port, name) ==
  /\ port = cardSearch.port /\ cardSearch.listed # <<>> /\ status = 0
  /\ entries[port][Last(cardSearch.listed)][2] = name

Looked(port, name) ==
  /\ status' = 0
  /\ LET b == buNextFileInternal(entries'[port], "51", 0, Append(name, "0"), "other")
     IN  index' = IF b = -1 THEN index ELSE b
  /\ Goes /\ UNCHANGED pattern

(* dev_bu_open, of a file that is there or not; asynchronous or of a card  *)
(* that is the one known it does not touch the copy.                       *)
open(port, name) ==
  /\ Searching /\ SearchApart => LastListed(port, name)
  /\ UNCHANGED entries
  /\ Looked(port, name)
openFirst(port, name) ==
  /\ ~(Searching /\ SearchApart)
  /\ buDevInitOf(port)
  /\ Looked(port, name)

(* With PSXF_CREAT, when there is none: the first free block.              *)
create(port, name) ==
  /\ ~(Searching /\ SearchApart)
  /\ status' = 0
  /\ \A b \in CardBlock : entries[port][b] # <<"51", name>>
  /\ LET free == {b \in CardBlock : entries[port][b][1] = "a0"} IN
     /\ free # {}
     /\ entries' = [entries EXCEPT ![port][Min(free)] = <<"51", name>>]
  /\ Goes /\ UNCHANGED <<pattern, index>>

setDeviceStatus(s) ==
  /\ ~(Searching /\ SearchApart)
  /\ status' = s
  /\ Goes /\ UNCHANGED <<entries, pattern, index>>

NamesThere == {d[b][2] : d \in CardDirectories, b \in CardBlock} \ {<<>>}

SearchNext ==
  \/ \E port \in 1 .. 2 :
       \/ dev_bu_firstFileFails(port)
       \/ \E f \in CardPatterns : dev_bu_firstFile(port, f)
       \/ \E name \in NamesThere : open(port, name) \/ openFirst(port, name) \/ create(port, name)
  \/ dev_bu_nextFile
  \/ \E s \in 0 .. 1 : setDeviceStatus(s)

SearchSpec == SearchInit /\ [][SearchNext]_searchVars

-----------------------------------------------------------------------------
SearchTypeOK ==
  /\ entries \in Seq([CardBlock -> (AllocState \cup {"a1"}) \X Seq(Character)])
  /\ index \in -1 .. BlockCount - 1 /\ status \in 0 .. 1
  /\ Len(pattern) =< Width + 1

(* What a pattern says: a "*" stands for every end of a name, a "?" for a  *)
(* character or none, nothing at all for every name.                       *)
Named(name, f) ==
  LET c == Cut(f) IN
  \/ f = <<>>
  \/ /\ \A i \in 1 .. Len(c) :
          IF i > Len(name) THEN c[i] = "?" ELSE c[i] \in {"?", name[i]}
     /\ Len(name) > Len(c) => Contains(f, "*")

(* Only "?" follow one another: a name may end at a "?", and the search    *)
(* does not look at the rest of the pattern then.                          *)
QuestionsEnd(f) ==
  LET c == Cut(f) IN \A i \in 1 .. Len(c) : c[i] = "?" => \A j \in i .. Len(c) : c[j] = "?"

(* A search lists files its pattern names, in the order of the directory   *)
(* and each once, and one that came to its end has listed all of them but  *)
(* those whose names are as long as the array for the pattern, although    *)
(* the program opens the files as it finds them and opens move the place   *)
(* of the search (dev_bu_nextFile, buNextFileInternal).                    *)
Listable ==
  LET e == entries[cardSearch.port] IN
  {b \in CardBlock : e[b][1] = Wanted(status) /\ e[b][2] # <<>>
                     /\ Named(e[b][2], cardSearch.filename)}
SearchListsFiles ==
  LET s == cardSearch IN
  s.at # "none" =>
    /\ QuestionsEnd(s.filename) => Range(s.listed) \subseteq Listable
    /\ \A i \in 1 .. Len(s.listed) - 1 : s.listed[i] < s.listed[i + 1]
    /\ s.at = "over" =>
         {b \in Listable : Len(entries[s.port][b][2]) < Width} \subseteq Range(s.listed)

(* What a search tells a program (card/device.c).                          *)
SearchesHold == SearchTypeOK /\ SearchListsFiles

(* The directories of cards keep the files that were saved, and searches   *)
(* in them list what is there (card/device.c, card/backupunit.c).          *)
CardsKeepFiles == DirectoriesKept /\ SearchesHold
=============================================================================
