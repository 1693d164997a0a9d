------------------------------ MODULE CdFiles ------------------------------
(***************************************************************************)
(* The file system of the disc drive (openbios/cdrom/filesystem.c): the    *)
(* path table, the cache of one directory, files opened and read, the      *)
(* search by pattern, and the disc being changed under all of them.  One   *)
(* call of the file system is one action: taking a disc out and putting    *)
(* another in takes far longer than the gap between two commands.  Every   *)
(* block that is read may fail after its retries.                          *)
(*                                                                         *)
(* A directory is its number in the path table, and an entry its place in  *)
(* the directory, from 0: the first two are the directory itself and its   *)
(* parent.                                                                 *)
(*                                                                         *)
(* Discs come and go as the player likes and programs call as they like.   *)
(* What can be claimed depends on it, so files and searches carry history: *)
(* whether what they were opened with was read off the disc in the drive,  *)
(* and whether anything failed or came between.                            *)
(***************************************************************************)
EXTENDS Integers, Sequences, Functions

CONSTANTS
  Discs,         \* the discs there are
  Listing,       \* disc -> directory number -> the names of its entries
  Below,         \* disc -> directory number -> the directories on paths below it
  NamesAsked,    \* names a program opens
  Patterns,      \* patterns it searches for: each the set of names it matches
  FileLength,    \* sectors in a file
  CdSlots,       \* the open files
  FirstDisc      \* the disc in the drive when the file system starts

ASSUME DiscsAssumption ==
  /\ FirstDisc \in Discs /\ FileLength \in Nat \ {0}
  /\ Listing \in [Discs -> Seq(Seq(STRING)) \ {<<>>}]   \* each has its root
  /\ \A d \in Discs : \A dir \in DOMAIN Listing[d] : Below[d][dir] \subseteq DOMAIN Listing[d]

VARIABLES
  disc,       \* the disc in the drive
  gone,       \* discs that have been taken out
  shellOpen,  \* bit 0x10 of the drive's status: the lid was opened
  cdFs,       \* s_pathTable, s_currentDiscHash and the cached directory
  cwd,        \* g_cdromCWD, as a directory number
  cdSearch,   \* the pattern and the state of firstFile and nextFile
  cdFiles,    \* the open files, by slot
  lost        \* the bytes behind a path led out of the program

cdFileVars == <<disc, gone, shellOpen, cdFs, cwd, cdSearch, cdFiles, lost>>

Dirs == UNION {DOMAIN Listing[d] : d \in Discs}
Idle == [active |-> FALSE, pattern |-> {}, dir |-> 0, listed |-> <<>>,
         of |-> <<FirstDisc, 0>>,                     \* history: what is listed,
         over |-> FALSE, alone |-> TRUE, clean |-> TRUE]   \* and what came between

(* Of the path table: mixed, a name in it may end in one of another disc's,*)
(* as names are copied without their end; fresh (history), it was read from*)
(* the disc in the drive, and so was the hash.                             *)
CdFilesInit ==
  /\ disc = FirstDisc /\ gone = {} /\ shellOpen = FALSE
  /\ cdFs = [table |-> disc, hash |-> <<disc, "whole">>, mixed |-> FALSE, fresh |-> TRUE,
             cachedID |-> 0, entries |-> <<disc, 0>>, found |-> 0]
  /\ cwd = 1 /\ cdSearch = Idle
  /\ cdFiles = <<>>
  /\ lost = FALSE

-----------------------------------------------------------------------------
(* cdromReadPathTable: the volume descriptor, then the table.  When the    *)
(* second block fails the hash is already the new descriptor's, the table  *)
(* and the cached directory still the old ones.                            *)
PathTableRead(s) ==
  {[ok |-> TRUE, fs |-> [s EXCEPT !.table = disc, !.hash = <<disc, "whole">>,
                                  !.mixed = @ \/ s.table # disc, !.fresh = TRUE,
                                  !.cachedID = 0]],
   [ok |-> FALSE, fs |-> s],
   [ok |-> FALSE, fs |-> [s EXCEPT !.hash = <<disc, "half">>]]}

(* The names in a cached directory; <<disc, 0>> holds none.                *)
Entries(e) == IF e[2] = 0 THEN <<>> ELSE Listing[e[1]][e[2]]

(* Mutant: the cache is filled and its number forgotten.                   *)
NumberForgotten(s, id) ==
  IF s.cachedID # 0 THEN {[read |-> TRUE, fs |-> s]}
  ELSE IF id \in DOMAIN Listing[disc]
       THEN {[read |-> TRUE, fs |-> [s EXCEPT !.cachedID = id, !.entries = <<disc, id>>]]}
       ELSE {[read |-> FALSE, fs |-> s]}

(* readDirectory.  A sector read by the table of another disc holds that   *)
(* directory of this disc, when both are laid out alike, or none.  The     *)
(* caller looks for 0, which is never returned: after a block that cannot  *)
(* be read it goes on with the entries of the directory before.            *)
DirectoryRead(s, id) ==
  IF s.cachedID = id
  THEN {[read |-> TRUE, fs |-> s]}
  ELSE LET Now(e) == [read |-> TRUE, fs |-> [s EXCEPT !.cachedID = id, !.entries = e]] IN
       {[read |-> FALSE, fs |-> s]}
         \cup {Now(<<disc, d>>) : d \in {id} \cap DOMAIN Listing[disc]}
         \cup {Now(<<disc, 0>>) : d \in {s.table} \ {disc}}

(* A miss of findDirectoryEntryForFilename leaves only its inner loop: the *)
(* outer one goes on with the bytes behind the end of the static path,     *)
(* left there by longer ones, and then behind the array.  They end at a    *)
(* directory that is not there, or as a name in a directory below, or run  *)
(* over localName; entries already looked at are not looked at again.      *)
BehindThePath(s, from, dir) ==
  LET Seen == UNION {DirectoryRead(s, d) : d \in {dir} \cup Below[s.table][dir]} IN
  {[how |-> "none", fs |-> s], [how |-> "lost", fs |-> s]}
    \cup {[how |-> "none", fs |-> u.fs] : u \in Seen}
    \cup UNION {{[how |-> "found", fs |-> [u.fs EXCEPT !.found = i]] :
                  i \in from .. Len(Entries(u.fs.entries)) - 1} : u \in Seen}

(* The first entry from id on that matches, or what the path ends at.      *)
(* History: of, the directory looked at first; over when it went on behind *)
(* the path's end; sure when that directory is the one named and was read. *)
Searched(r, id, dir, matching, sure) ==
  LET names == Entries(r.fs.entries)
      hits  == {i \in id .. Len(names) - 1 : names[i + 1] \in matching}
      from  == IF id < Len(names) THEN Len(names) ELSE id
      Is(how, fs, over) == [how |-> how, fs |-> fs, of |-> r.fs.entries, over |-> over,
                            sure |-> sure /\ r.read]
  IN IF hits = {}
     THEN {Is(x.how, x.fs, TRUE) : x \in BehindThePath(r.fs, from, dir)}
     ELSE {Is("found", [r.fs EXCEPT !.found = CHOOSE i \in hits : \A j \in hits : i <= j],
              FALSE)}

(* findDirectoryEntryForFilename from entry id on: the directory by the    *)
(* path table, of which only the root needs no name, then its entries.     *)
Found(s, id, dir, matching) ==
  LET sure == dir = 1 \/ ~s.mixed IN
  UNION {IF where \notin DOMAIN Listing[s.table]
         THEN {[how |-> "none", fs |-> s, of |-> s.entries, over |-> FALSE, sure |-> sure]}
         ELSE UNION {Searched(r, id, where, matching, sure) : r \in DirectoryRead(s, where)}
         : where \in IF sure THEN {dir} ELSE Dirs \cup {0}}

-----------------------------------------------------------------------------
(* History of an open file: fresh as the path table was; clean, the answer *)
(* was certain, for a directory with none below or a name that is in it.   *)
OpenedAt(r, dir, name) ==
  [asked |-> <<dir, name>>, deviceId |-> r.fs.hash, at |-> <<r.fs.entries, r.fs.found>>,
   offset |-> 0, fresh |-> r.fs.fresh,
   clean |-> /\ r.sure
             /\ \/ Below[r.fs.table][dir] = {}
                \/ r.fs.fresh /\ \E i \in DOMAIN Listing[disc][dir] : Listing[disc][dir][i] = name]

(* A search during which something else is opened or changed.              *)
Disturbed ==
  IF cdSearch.active THEN [cdSearch EXCEPT !.alone = FALSE, !.listed = <<>>] ELSE cdSearch

(* dev_cd_open: after the lid was opened the path table is read again.     *)
dev_cd_open(f, dir, name) ==
  /\ f \notin DOMAIN cdFiles
  /\ shellOpen' = FALSE
  /\ \E t \in IF shellOpen THEN PathTableRead(cdFs) ELSE {[ok |-> TRUE, fs |-> cdFs]} :
       \/ /\ ~t.ok
          /\ cdFs' = t.fs
          /\ UNCHANGED <<cdFiles, lost>>
       \/ /\ t.ok
          /\ \E r \in Found(t.fs, 0, dir, {name}) :
               /\ cdFs' = r.fs
               /\ lost' = (r.how = "lost")
               /\ cdFiles' = IF r.how = "found"
                             THEN [g \in DOMAIN cdFiles \cup {f} |->
                                     IF g = f THEN OpenedAt(r, dir, name) ELSE cdFiles[g]]
                             ELSE cdFiles
  /\ cdSearch' = Disturbed
  /\ UNCHANGED <<disc, gone, cwd>>

Close(f) ==
  /\ f \in DOMAIN cdFiles
  /\ cdFiles' = Restrict(cdFiles, DOMAIN cdFiles \ {f})
  /\ UNCHANGED <<disc, gone, shellOpen, cdFs, cwd, cdSearch, lost>>

(* What a read delivers: the sectors at the file's place, off this disc.   *)
Deliver(f, size) ==
  LET past == cdFiles[f].offset + size IN
  cdFiles' = [cdFiles EXCEPT ![f].offset = IF FileLength < past THEN FileLength ELSE past]

(* Mutant: a read that does not look at the lid.                           *)
ReadForgetsLid(f, size) ==
  /\ f \in DOMAIN cdFiles /\ cdFiles[f].offset < FileLength
  /\ \E t \in PathTableRead(cdFs) :
       /\ cdFs' = t.fs
       /\ t.ok /\ t.fs.hash = cdFiles[f].deviceId /\ Deliver(f, size)
  /\ UNCHANGED <<disc, gone, shellOpen, cwd, cdSearch, lost>>

(* dev_cd_read: a lid that was opened is an error, whatever the disc; then *)
(* the path table is read again and the disc must be the file's.           *)
dev_cd_read(f, size) ==
  /\ f \in DOMAIN cdFiles
  /\ IF cdFiles[f].offset >= FileLength
     THEN UNCHANGED <<shellOpen, cdFs, cdFiles>>
     ELSE /\ shellOpen' = FALSE
          /\ IF shellOpen
             THEN UNCHANGED <<cdFs, cdFiles>>
             ELSE \E t \in PathTableRead(cdFs) :
                    /\ cdFs' = t.fs
                    /\ \/ t.ok /\ t.fs.hash = cdFiles[f].deviceId /\ Deliver(f, size)
                       \/ UNCHANGED cdFiles
  /\ UNCHANGED <<disc, gone, cwd, cdSearch, lost>>

(* dev_cd_nextFile after its status check: a search that is not the first  *)
(* goes on only in the directory it began in.  History: the entries listed *)
(* until it went on behind its pattern, and the directory they are of.     *)
Advance(s, q, first) ==
  IF ~first /\ s.cachedID # q.dir
  THEN /\ cdFs' = s
       /\ cdSearch' = Idle
       /\ UNCHANGED lost
  ELSE \E r \in Found(s, s.found + 1, cwd, q.pattern) :
         /\ cdFs' = r.fs
         /\ lost' = (r.how = "lost")
         /\ cdSearch' =
              [q EXCEPT !.active = (r.how = "found"),
                        !.dir = IF first THEN r.fs.cachedID ELSE @,
                        !.of = IF first THEN r.of ELSE @,
                        !.over = @ \/ r.over, !.clean = @ /\ r.sure,
                        !.listed = IF ~(q.alone /\ q.clean /\ r.sure) THEN <<>>
                                   ELSE IF r.how = "found" /\ ~r.over /\ ~q.over
                                   THEN Append(@, <<r.fs.entries, r.fs.found>>) ELSE @]

(* dev_cd_firstFile: the path table, the pattern, then the entry after the *)
(* first one.  nextFile's own status check finds the lid as it was; a disc *)
(* read anew just before has the hash it is compared with.                 *)
dev_cd_firstFile(pattern) ==
  LET q == [Idle EXCEPT !.pattern = pattern] IN
  /\ \E t \in PathTableRead(cdFs) :
       \/ /\ ~t.ok
          /\ cdFs' = t.fs /\ cdSearch' = Idle
          /\ UNCHANGED <<shellOpen, lost>>
       \/ /\ t.ok /\ shellOpen' = FALSE
          /\ LET s == [t.fs EXCEPT !.found = 0] IN
             \E u \in IF shellOpen THEN PathTableRead(s) ELSE {[ok |-> TRUE, fs |-> s]} :
               IF u.ok THEN Advance(u.fs, q, TRUE)
                       ELSE cdFs' = u.fs /\ cdSearch' = Idle /\ UNCHANGED lost
  /\ UNCHANGED <<disc, gone, cwd, cdFiles>>

(* dev_cd_nextFile: on another disc the old hash is put back over the new  *)
(* disc's path table.                                                      *)
dev_cd_nextFile ==
  /\ cdSearch.active
  /\ shellOpen' = FALSE
  /\ IF ~shellOpen
     THEN Advance(cdFs, cdSearch, FALSE)
     ELSE \E t \in PathTableRead(cdFs) :
            IF t.ok /\ t.fs.hash = cdFs.hash
            THEN Advance(t.fs, cdSearch, FALSE)
            ELSE /\ cdFs' = IF t.ok THEN [t.fs EXCEPT !.hash = cdFs.hash, !.fresh = FALSE]
                                  ELSE t.fs
                 /\ cdSearch' = Idle
                 /\ UNCHANGED lost
  /\ UNCHANGED <<disc, gone, cwd, cdFiles>>

(* dev_cd_chdir: the directory, then the path table.                       *)
dev_cd_chdir(dir) ==
  /\ cwd' = dir
  /\ \E t \in PathTableRead(cdFs) : cdFs' = t.fs
  /\ cdSearch' = Disturbed
  /\ UNCHANGED <<disc, gone, shellOpen, cdFiles, lost>>

(* The player changes the disc, or opens the lid and closes it again.      *)
Swap(d) ==
  /\ disc' = d /\ shellOpen' = TRUE
  /\ gone' = IF d = disc THEN gone ELSE gone \cup {disc}
  /\ cdFs' = [cdFs EXCEPT !.fresh = @ /\ d = disc]
  /\ UNCHANGED <<cwd, cdSearch, cdFiles, lost>>

(* Once the bytes behind a path led astray, nothing more is known.         *)
CdFilesNext ==
  /\ ~lost
  /\ \/ \E f \in CdSlots, dir \in Dirs, n \in NamesAsked : dev_cd_open(f, dir, n)
     \/ \E f \in CdSlots : Close(f)
     \/ \E f \in CdSlots, size \in 1 .. 2 : dev_cd_read(f, size)
     \/ \E p \in Patterns : dev_cd_firstFile(p)
     \/ dev_cd_nextFile
     \/ \E dir \in Dirs : dev_cd_chdir(dir)
     \/ \E d \in Discs : Swap(d)

CdFilesSpec == CdFilesInit /\ [][CdFilesNext]_cdFileVars

-----------------------------------------------------------------------------
Hashes == Discs \X {"whole", "half"}
CdPlaces == (Discs \X (Dirs \cup {0})) \X Nat

(* The type of the file system's state: the cached directory's number, the *)
(* entry last found, the open files and the search of filesystem.c.        *)
CdFilesTypeOK ==
  /\ disc \in Discs /\ gone \subseteq Discs /\ shellOpen \in BOOLEAN
  /\ cdFs.table \in Discs /\ cdFs.hash \in Hashes /\ cdFs.cachedID \in Dirs \cup {0}
  /\ cdFs.entries \in Discs \X (Dirs \cup {0}) /\ cdFs.found \in Nat
  /\ cwd \in Dirs
  /\ DOMAIN cdFiles \subseteq CdSlots
  /\ \A f \in DOMAIN cdFiles :
       /\ cdFiles[f].deviceId \in Hashes /\ cdFiles[f].at \in CdPlaces
       /\ cdFiles[f].offset \in 0 .. FileLength
  /\ cdSearch.active \in BOOLEAN /\ lost \in BOOLEAN
  /\ \A i \in DOMAIN cdSearch.listed : cdSearch.listed[i] \in CdPlaces

(* The name at a place of a directory.                                     *)
NameAt(p) == Entries(p[1])[p[2] + 1]

(* A file that carries the hash of the disc in the drive lies on it, so    *)
(* that what dev_cd_read delivers is its data: when it was opened with the *)
(* path table of the disc then in the drive and a certain answer, however  *)
(* often discs were changed, put back or failed to be read since.  One that*)
(* was opened by a stale table passes for another disc's only when that    *)
(* disc is put back: dev_cd_nextFile puts an old hash over a new table.    *)
DataIsTheFiles ==
  \A f \in DOMAIN cdFiles : (cdFiles[f].clean /\ cdFiles[f].deviceId = <<disc, "whole">>) =>
    IF cdFiles[f].fresh
    THEN /\ cdFiles[f].at[1] = <<disc, cdFiles[f].asked[1]>>
         /\ NameAt(cdFiles[f].at) = cdFiles[f].asked[2]
    ELSE disc \in gone

(* dev_cd_open opens what it was asked for, off the disc whose hash it     *)
(* keeps.  Where the answer is not certain it need not: filesystem.c gives *)
(* up "Cannot read directory" where readDirectory never says so, and looks *)
(* for a name that is not there in the directories below.                  *)
OpenFindsItsFile ==
  \A f \in DOMAIN cdFiles : cdFiles[f].clean =>
    /\ cdFiles[f].at[1][2] = cdFiles[f].asked[1] /\ NameAt(cdFiles[f].at) = cdFiles[f].asked[2]
    /\ cdFiles[f].fresh => cdFiles[f].at[1][1] = cdFiles[f].deviceId[1]

Certain(q) == q.alone /\ q.clean

(* One search lists entries of one directory of one disc, each once and in *)
(* their order: dev_cd_nextFile shares its cache and its place with every  *)
(* other call.  So it is while no file is opened, no directory changed and *)
(* every block of its own read, and until it looks behind its pattern.     *)
SearchInOrder ==
  Certain(cdSearch) =>
    \A i, j \in DOMAIN cdSearch.listed :
      /\ cdSearch.listed[i][1] = cdSearch.of
      /\ i < j => cdSearch.listed[i][2] < cdSearch.listed[j][2]

(* A search that looks behind its pattern has listed everything after the  *)
(* directory's own entry that matches; it ends there where no directory is *)
(* below.                                                                  *)
SearchListsAll ==
  (Certain(cdSearch) /\ cdSearch.over) =>
    LET names == Entries(cdSearch.of) IN
    /\ {cdSearch.listed[i][2] : i \in DOMAIN cdSearch.listed}
         = {k \in 1 .. Len(names) - 1 : names[k + 1] \in cdSearch.pattern}
    /\ Below[cdSearch.of[1]][cdSearch.of[2]] = {} => ~cdSearch.active

(* A file opened while the path table was another disc's is refused, never *)
(* read: what dev_cd_read advances carries the hash of the disc in the     *)
(* drive, read whole in the same call.                                     *)
DiscIsChecked ==
  [][\A f \in DOMAIN cdFiles \cap DOMAIN cdFiles' : cdFiles'[f].offset > cdFiles[f].offset
       => /\ cdFiles[f].deviceId = <<disc, "whole">>
          /\ cdFs'.table = disc /\ ~shellOpen]_cdFileVars

(* Opens, reads and searches whose answer is certain are of the directory   *)
(* they were asked about, whatever is cached, fails and is exchanged before *)
(* and after (cdrom/filesystem.c).                                          *)
DiscFilesAreFound ==
  CdFilesTypeOK /\ DataIsTheFiles /\ OpenFindsItsFile /\ SearchInOrder /\ SearchListsAll

=============================================================================
