---------------------------- MODULE FileIOProofs ----------------------------
(***************************************************************************)
(* The invariants of FileIO hold for tables of any size, any drivers, any  *)
(* numbers and modes, provided no file is opened or formatted while a      *)
(* directory is searched.  Those of CardSectors hold for blocks and files  *)
(* of any length and any places on the card, provided a program asks only  *)
(* for transfers that Safe allows.  Those of CdFiles hold for any discs,   *)
(* however they are exchanged, sectors fail and calls follow one another.  *)
(* Those of BackupUnit hold for cards of any size, any number of them and  *)
(* any files, those of CardSearch for any directories and patterns, while  *)
(* SearchApart holds.                                                      *)
(***************************************************************************)
EXTENDS FileIO, CardSectors, CdFiles, CardSearch, SequenceTheorems, FiniteSetTheorems,
        WellFoundedInduction, TLAPS

(* Min, which the searches of both tables use, is the first free entry.     *)
LEMMA MinIsLeast ==
  ASSUME NEW T, T \subseteq Nat, T # {}
  PROVE  Min(T) \in T /\ \A y \in T : Min(T) =< y
<1> DEFINE Less == OpToRel(<, Nat)
<1>1. IsWellFoundedOn(Less, Nat)
  BY NatLessThanWellFounded
<1> HIDE DEF Less
<1>2. PICK x \in T : \A y \in T : ~ (<<y, x>> \in Less)
  BY <1>1, WFMin
<1>3. \A y \in T : <<y, x>> \in Less \/ x =< y
  BY DEF Less, OpToRel
<1>4. \A y \in T : x =< y
  BY <1>2, <1>3
<1> QED BY <1>4 DEF Min

DevTable == [Slot -> Drivers \cup {"tty", NULL}]
File == [flags : SUBSET {"read", "write", "nblock"}, slot : Slot, id : Ids \cup {0}]
FileTable == [Fd -> File]
Has(ds, name) == \E s \in Slot : ds[s] = name

(* findDevice finds the device of that name, if there is one               *)
(* (misc.c:82-93).                                                         *)
LEMMA FoundDevice ==
  ASSUME NEW ds \in DevTable, NEW name
  PROVE  IF Has(ds, name) THEN findDevice(ds, name) \in Slot /\ ds[findDevice(ds, name)] = name
                          ELSE findDevice(ds, name) = 0
<1> DEFINE found == {s \in Slot : ds[s] = name}
<1>1. found \subseteq Nat
  BY FileIOAssumption DEF Slot
<1>2. CASE Has(ds, name)
  <2>1. found # {}
    BY <1>2 DEF Has
  <2>2. Min(found) \in found
    BY <1>1, <2>1, MinIsLeast
  <2> QED BY <1>2, <2>1, <2>2 DEF findDevice
<1>3. CASE ~Has(ds, name)
  BY <1>3 DEF Has, findDevice
<1> QED BY <1>2, <1>3

(* 0, which stands for no device, is not a place of the table.             *)
LEMMA ZeroIsNoSlot == 0 \notin Slot
  BY FileIOAssumption DEF Slot

(* removeDevice takes one name out and leaves the others (misc.c:95-107).   *)
LEMMA Removing ==
  ASSUME NEW ds \in DevTable, AddedOnce(ds), NEW name, name # NULL
  PROVE  /\ removeDevice(ds, name) \in DevTable
         /\ AddedOnce(removeDevice(ds, name))
         /\ ~Has(removeDevice(ds, name), name)
         /\ Has(ds, name) => Has(removeDevice(ds, name), NULL)
         /\ \A s \in Slot : ds[s] # name => removeDevice(ds, name)[s] = ds[s]
<1>1. CASE Has(ds, name)
  <2> DEFINE s0 == findDevice(ds, name)
  <2>1. s0 \in Slot /\ ds[s0] = name /\ s0 # 0
    BY <1>1, FoundDevice, ZeroIsNoSlot
  <2>2. removeDevice(ds, name) = [ds EXCEPT ![s0] = NULL]
    BY <2>1 DEF removeDevice
  <2> HIDE DEF s0
  <2> QED BY <2>1, <2>2 DEF DevTable, AddedOnce, Has
<1>2. CASE ~Has(ds, name)
  BY <1>2, FoundDevice DEF removeDevice
<1> QED BY <1>1, <1>2

(* addDevice takes a free slot, if there is one, and no other.              *)
LEMMA Adding ==
  ASSUME NEW ds \in DevTable, AddedOnce(ds), NEW name \in Drivers \cup {"tty"}, ~Has(ds, name)
  PROVE  /\ addDevice(ds, name) \in DevTable
         /\ AddedOnce(addDevice(ds, name))
         /\ Has(ds, NULL) => Has(addDevice(ds, name), name)
         /\ \A s \in Slot : ds[s] # NULL => addDevice(ds, name)[s] = ds[s]
<1>1. CASE Has(ds, NULL)
  <2> DEFINE s0 == findDevice(ds, NULL)
  <2>1. s0 \in Slot /\ ds[s0] = NULL /\ s0 # 0
    BY <1>1, FoundDevice, ZeroIsNoSlot
  <2>2. addDevice(ds, name) = [ds EXCEPT ![s0] = name]
    BY <2>1 DEF addDevice
  <2> HIDE DEF s0
  <2> QED BY <2>1, <2>2 DEF DevTable, AddedOnce, Has
<1>2. CASE ~Has(ds, NULL)
  BY <1>2, FoundDevice DEF addDevice
<1> QED BY <1>1, <1>2

(* The console is put in again, perhaps elsewhere (stdio.c:49-68).          *)
LEMMA Reinstalling ==
  ASSUME NEW ds \in DevTable, AddedOnce(ds), Has(ds, "tty")
  PROVE  /\ Reinstalled(ds) \in DevTable
         /\ AddedOnce(Reinstalled(ds))
         /\ Has(Reinstalled(ds), "tty")
         /\ \A s \in Slot : ds[s] \notin {"tty", NULL} => Reinstalled(ds)[s] = ds[s]
<1> DEFINE es == removeDevice(ds, "tty")
<1>1. "tty" # NULL
  BY DEF NULL
<1>2. /\ es \in DevTable /\ AddedOnce(es) /\ ~Has(es, "tty") /\ Has(es, NULL)
      /\ \A s \in Slot : ds[s] # "tty" => es[s] = ds[s]
  BY <1>1, Removing
<1>3. Reinstalled(ds) = addDevice(es, "tty")
  BY DEF Reinstalled
<1> HIDE DEF es
<1> QED BY <1>2, <1>3, Adding

(* findEmptyFile answers an entry that no one holds (misc.c:124-131).      *)
LEMMA EmptyFile ==
  ASSUME NEW fs \in FileTable, findEmptyFile(fs) # NoFile
  PROVE  findEmptyFile(fs) \in Fd /\ fs[findEmptyFile(fs)].flags = {}
<1>1. Empty(fs) # {} /\ findEmptyFile(fs) = Min(Empty(fs))
  BY DEF findEmptyFile
<1>2. Empty(fs) \subseteq Nat
  BY FileIOAssumption DEF Empty, Fd
<1>3. Min(Empty(fs)) \in Empty(fs)
  BY <1>1, <1>2, MinIsLeast
<1> QED BY <1>1, <1>3 DEF Empty

(* The entry it answers is the first one.                                  *)
LEMMA LeastEmpty ==
  ASSUME NEW fs \in FileTable, NEW fd \in Fd, fs[fd].flags = {},
         \A e \in Fd : e < fd => fs[e].flags # {}
  PROVE  findEmptyFile(fs) = fd
<1>1. Empty(fs) \subseteq Nat /\ fd \in Empty(fs) /\ fd \in Nat
  BY FileIOAssumption DEF Empty, Fd
<1>2. Min(Empty(fs)) \in Empty(fs) /\ Min(Empty(fs)) =< fd
  BY <1>1, MinIsLeast
<1>3. Min(Empty(fs)) \in Fd /\ fs[Min(Empty(fs))].flags = {} /\ Min(Empty(fs)) \in Nat
  BY <1>1, <1>2 DEF Empty
<1>4. Min(Empty(fs)) = fd
  BY <1>1, <1>2, <1>3
<1> QED BY <1>1, <1>4 DEF findEmptyFile

(* What opening, leading and freeing do to one entry of the table.          *)
LEMMA LeadsFile ==
  ASSUME NEW fs \in FileTable, NEW fd \in Fd, NEW place \in Slot, NEW id \in Ids \cup {0}
  PROVE  /\ Leads(fs, fd, place, id) \in FileTable
         /\ Leads(fs, fd, place, id)[fd].flags = fs[fd].flags
         /\ Leads(fs, fd, place, id)[fd].slot = place
         /\ Leads(fs, fd, place, id)[fd].id = id
         /\ \A e \in Fd \ {fd} : Leads(fs, fd, place, id)[e] = fs[e]
<1> DEFINE f == [fs[fd] EXCEPT !.slot = place, !.id = id]
<1>1. fs[fd] \in File
  BY DEF FileTable
<1>2. f \in File /\ f.flags = fs[fd].flags /\ f.slot = place /\ f.id = id
  BY <1>1 DEF File
<1>3. Leads(fs, fd, place, id) = [fs EXCEPT ![fd] = f]
  BY DEF Leads
<1> HIDE DEF f
<1> QED BY <1>2, <1>3 DEF FileTable

WithFlags(fs, fd, flags) == [fs EXCEPT ![fd].flags = flags]

(* What a change of the flags does to one entry (stdio.c:224-231).         *)
LEMMA FlagsFile ==
  ASSUME NEW fs \in FileTable, NEW fd \in Fd, NEW flags \in SUBSET {"read", "write", "nblock"}
  PROVE  LET rs == WithFlags(fs, fd, flags)
         IN  /\ rs \in FileTable
             /\ rs[fd].flags = flags /\ rs[fd].slot = fs[fd].slot /\ rs[fd].id = fs[fd].id
             /\ \A e \in Fd \ {fd} : rs[e] = fs[e]
<1> DEFINE f == [fs[fd] EXCEPT !.flags = flags]
<1>1. fs[fd] \in File
  BY DEF FileTable
<1>2. f \in File /\ f.flags = flags /\ f.slot = fs[fd].slot /\ f.id = fs[fd].id
  BY <1>1 DEF File
<1>3. WithFlags(fs, fd, flags) = [fs EXCEPT ![fd] = f]
  BY DEF WithFlags
<1> HIDE DEF f
<1> QED BY <1>2, <1>3 DEF FileTable

(* What an open does to the entry it took (stdio.c:94-101).                *)
LEMMA OpenedFile ==
  ASSUME NEW fs \in FileTable, NEW fd \in Fd, NEW place \in Slot, NEW id \in Ids \cup {0},
         NEW mode \in SUBSET {"read", "write", "nblock"}
  PROVE  /\ Opened(fs, fd, place, id, mode) \in FileTable
         /\ Opened(fs, fd, place, id, mode)[fd].flags = mode
         /\ Opened(fs, fd, place, id, mode)[fd].slot = place
         /\ Opened(fs, fd, place, id, mode)[fd].id = id
         /\ \A e \in Fd \ {fd} : Opened(fs, fd, place, id, mode)[e] = fs[e]
<1> DEFINE ls == Leads(fs, fd, place, id)
<1>1. /\ ls \in FileTable /\ ls[fd].slot = place /\ ls[fd].id = id
      /\ \A e \in Fd \ {fd} : ls[e] = fs[e]
  BY LeadsFile
<1>2. Opened(fs, fd, place, id, mode) = WithFlags(ls, fd, mode)
  BY DEF Opened, WithFlags
<1> HIDE DEF ls
<1> QED BY <1>1, <1>2, FlagsFile

(* What a close does to its entry (stdio.c:207-208).                       *)
LEMMA FreedFile ==
  ASSUME NEW fs \in FileTable, NEW fd \in Fd
  PROVE  /\ Freed(fs, fd) \in FileTable
         /\ Freed(fs, fd)[fd].flags = {}
         /\ Freed(fs, fd)[fd].slot = fs[fd].slot /\ Freed(fs, fd)[fd].id = fs[fd].id
         /\ \A e \in Fd \ {fd} : Freed(fs, fd)[e] = fs[e]
<1>1. Freed(fs, fd) = WithFlags(fs, fd, {})
  BY DEF Freed, WithFlags
<1> QED BY <1>1, FlagsFile

(* After reopenStdio 0 and 1 are the console's and the rest is as it was    *)
(* (stdio.c:40-47).                                                        *)
LEMMA Reopening ==
  ASSUME NEW fs \in FileTable, NEW ds \in DevTable, Has(ds, "tty")
  PROVE  /\ reopenStdio(fs, ds) \in FileTable
         /\ \A fd \in Fd : fd > 1 => reopenStdio(fs, ds)[fd] = fs[fd]
         /\ \A fd \in {0, 1} : LET f == reopenStdio(fs, ds)[fd]
                               IN  /\ f.flags \cap {"read", "write"} # {}
                                   /\ ds[f.slot] = "tty" /\ f.id = 0
<1> DEFINE tty == findDevice(ds, "tty")
           closed == Freed(Freed(fs, 0), 1)
           input == Opened(closed, findEmptyFile(closed), tty, 0, {"read"})
           output == Opened(input, findEmptyFile(input), tty, 0, {"write"})
<1>1. tty \in Slot /\ ds[tty] = "tty" /\ tty # 0
  BY FoundDevice, ZeroIsNoSlot
<1>2. 0 \in Fd /\ 1 \in Fd /\ \A fd \in Fd : fd \in Nat
  BY FileIOAssumption DEF Fd
<1>3. /\ closed \in FileTable /\ closed[0].flags = {} /\ closed[1].flags = {}
      /\ \A fd \in Fd : fd > 1 => closed[fd] = fs[fd]
  <2>1. /\ Freed(fs, 0) \in FileTable /\ Freed(fs, 0)[0].flags = {}
        /\ \A fd \in Fd \ {0} : Freed(fs, 0)[fd] = fs[fd]
    BY <1>2, FreedFile
  <2> QED BY <1>2, <2>1, FreedFile, SMTT(30)
<1>4. findEmptyFile(closed) = 0
  <2> HIDE DEF closed
  <2> QED BY <1>2, <1>3, LeastEmpty
<1>5. reopenStdio(fs, ds) = output
  BY <1>1, <1>4 DEF reopenStdio
<1> HIDE DEF tty, closed
<1>6. /\ input \in FileTable /\ input[0].flags = {"read"} /\ input[0].slot = tty
      /\ input[0].id = 0 /\ input[1].flags = {}
      /\ \A fd \in Fd : fd > 1 => input[fd] = fs[fd]
  BY <1>1, <1>2, <1>3, <1>4, OpenedFile
<1> HIDE DEF input
<1>7. findEmptyFile(input) = 1
  BY <1>2, <1>6, LeastEmpty
<1>8. /\ output \in FileTable /\ output[1].flags = {"write"} /\ output[1].slot = tty
      /\ output[1].id = 0 /\ \A fd \in Fd \ {1} : output[fd] = input[fd]
  BY <1>1, <1>2, <1>6, <1>7, OpenedFile
<1> HIDE DEF output
<1> QED BY <1>1, <1>2, <1>5, <1>6, <1>8

-----------------------------------------------------------------------------
(* What is held: a device the table may have, under a number.               *)
Asked == (Drivers \X (Ids \cup {0})) \cup {Console, Nobody}

HistoryType == held \in [Fd -> Asked] /\ search \in (Drivers \X (Ids \cup {0})) \cup {Nobody}

(* The console is always in the table of devices, and nothing twice.        *)
DevicesInv == AddedOnce(devices) /\ Has(devices, "tty")

(* The File of a search under way is empty, so it is nobody's.              *)
SearchInv == search # Nobody => g_firstFile \in Fd /\ files[g_firstFile].flags = {}

IInv == /\ TypeOK /\ HistoryType /\ DevicesInv /\ SearchInv
        /\ HeldFilesStay /\ NoFileLost /\ SearchStays

(* The console's driver is no empty place and no block device.             *)
LEMMA Names ==
  /\ \A a \in Asked : a # Nobody => a[1] # NULL
  /\ \A a \in Asked : a # Console => a[1] # "tty"
  /\ Console # Nobody /\ Console[1] = "tty" /\ Console[2] = 0
  /\ \A a \in Asked : a = <<a[1], a[2]>>
  BY FileIOAssumption DEF Asked, Console, Nobody, NULL

(* The type invariant as the lemmas above want it.                         *)
LEMMA Tables == TypeOK => files \in FileTable /\ devices \in DevTable
  BY DEF TypeOK, FileTable, File, DevTable

(* The console opened on both descriptors satisfies what is held of them.   *)
LEMMA ReopenedIsHeld ==
  ASSUME NEW fs \in FileTable, NEW ds \in DevTable, AddedOnce(ds), Has(ds, "tty"),
         files' = reopenStdio(fs, ds), devices' = ds,
         g_firstFile' \in Fd \cup {NoFile}, held' \in [Fd -> Asked], search' = Nobody,
         held'[0] = Console, held'[1] = Console,
         \A fd \in Fd : fd > 1 => /\ fs[fd].flags # {} => fs[fd].flags \cap {"read", "write"} # {}
                                  /\ fs[fd].flags # {} => held'[fd] # Nobody
                                  /\ held'[fd] # Nobody => /\ fs[fd].flags # {}
                                                           /\ ds[fs[fd].slot] = held'[fd][1]
                                                           /\ fs[fd].id = held'[fd][2]
  PROVE  IInv'
<1>1. /\ files' \in FileTable
      /\ \A fd \in Fd : fd > 1 => files'[fd] = fs[fd]
      /\ \A fd \in {0, 1} : /\ files'[fd].flags \cap {"read", "write"} # {}
                            /\ ds[files'[fd].slot] = "tty" /\ files'[fd].id = 0
  BY Reopening
<1>2. \A fd \in Fd : fd > 1 \/ fd \in {0, 1}
  BY FileIOAssumption DEF Fd
<1>3. TypeOK'
  BY <1>1, <1>2 DEF TypeOK, FileTable, File, DevTable
<1>4. HistoryType' /\ DevicesInv' /\ SearchInv' /\ SearchStays'
  BY DEF HistoryType, DevicesInv, SearchInv, SearchStays, AddedOnce, Has
<1>5. NoFileLost'
  BY <1>1, <1>2, Names DEF NoFileLost
<1>6. HeldFilesStay'
  <2> SUFFICES ASSUME NEW fd \in Fd, held'[fd] # Nobody
               PROVE  files'[fd].flags # {} /\ Now(fd)' = held'[fd]
    BY DEF HeldFilesStay
  <2>1. held'[fd] = <<held'[fd][1], held'[fd][2]>>
    BY Names
  <2>2. CASE fd > 1
    BY <1>1, <2>1, <2>2 DEF Now
  <2>3. CASE fd \in {0, 1}
    BY <1>1, <2>1, <2>3, Names DEF Now
  <2> QED BY <1>2, <2>2, <2>3
<1> QED BY <1>3, <1>4, <1>5, <1>6 DEF IInv

(* The tables as setupFileIO leaves them satisfy the invariant             *)
(* (misc.c:51-70).                                                         *)
LEMMA InitIInv == Init => IInv
<1> SUFFICES ASSUME Init PROVE IInv
  OBVIOUS
<1> DEFINE zeroed == [fd \in Fd |-> [flags |-> {}, slot |-> 1, id |-> 0]]
<1>1. 1 \in Slot /\ \A fd \in Fd : fd > 1 \/ fd \in {0, 1}
  BY FileIOAssumption DEF Slot, Fd
<1>2. zeroed \in FileTable
  BY <1>1 DEF FileTable, File
<1>3. devices \in DevTable /\ Has(devices, "tty") /\ AddedOnce(devices)
  BY <1>1 DEF Init, DevTable, Has
<1>4. files = reopenStdio(zeroed, devices)
  BY DEF Init
<1> HIDE DEF zeroed
<1>5. /\ files \in FileTable
      /\ \A fd \in Fd : fd > 1 => files[fd] = zeroed[fd]
      /\ \A fd \in {0, 1} : /\ files[fd].flags \cap {"read", "write"} # {}
                            /\ devices[files[fd].slot] = "tty" /\ files[fd].id = 0
  BY <1>2, <1>3, <1>4, Reopening
<1>6. \A fd \in Fd : fd > 1 => files[fd].flags = {} /\ held[fd] = Nobody
  <2>1. \A fd \in Fd : fd > 1 => held[fd] = Nobody
    BY FileIOAssumption DEF Init, ConsoleOnly, Fd
  <2>2. \A fd \in Fd : zeroed[fd].flags = {}
    BY DEF zeroed
  <2> QED BY <1>5, <2>1, <2>2
<1>7. \A fd \in {0, 1} : held[fd] = Console
  BY FileIOAssumption DEF Init, ConsoleOnly, Fd
<1>8. TypeOK /\ HistoryType
  <2>1. TypeOK
    BY <1>1, <1>3, <1>5, <1>6 DEF Init, TypeOK, FileTable, File, DevTable
  <2>2. HistoryType
    BY DEF Init, HistoryType, ConsoleOnly, Asked
  <2> QED BY <2>1, <2>2
<1>9. DevicesInv /\ SearchInv /\ SearchStays
  BY <1>3 DEF Init, DevicesInv, SearchInv, SearchStays
<1>10. NoFileLost /\ HeldFilesStay
  BY <1>1, <1>5, <1>6, <1>7 DEF NoFileLost, HeldFilesStay, Now, Console, Nobody, NULL
<1> QED BY <1>8, <1>9, <1>10 DEF IInv

-----------------------------------------------------------------------------
(* A step that changes one entry of the table of files, from f to an entry  *)
(* that is held as held says.                                               *)
LEMMA OneFile ==
  ASSUME IInv, NEW fd \in Fd, files' \in FileTable,
         \A e \in Fd \ {fd} : files'[e] = files[e] /\ held'[e] = held[e],
         files'[fd].flags # {} => files'[fd].flags \cap {"read", "write"} # {},
         held'[fd] \in Asked,
         files'[fd].flags # {} <=> held'[fd] # Nobody,
         held'[fd] # Nobody => devices[files'[fd].slot] = held'[fd][1]
                               /\ files'[fd].id = held'[fd][2],
         held' \in [Fd -> Asked], devices' = devices
  PROVE  /\ HeldFilesStay' /\ NoFileLost' /\ DevicesInv'
         /\ g_firstFile' \in Fd \cup {NoFile} => TypeOK'
<1> USE DEF IInv
<1>1. HeldFilesStay'
  <2> SUFFICES ASSUME NEW e \in Fd, held'[e] # Nobody
               PROVE  files'[e].flags # {} /\ Now(e)' = held'[e]
    BY DEF HeldFilesStay
  <2>1. CASE e = fd
    <3>1. held'[fd] = <<held'[fd][1], held'[fd][2]>>
      BY Names
    <3> QED BY <2>1, <3>1 DEF Now
  <2>2. CASE e # fd
    <3>1. files[e].flags # {} /\ Now(e) = held[e]
      BY <2>2 DEF HeldFilesStay
    <3> QED BY <2>2, <3>1 DEF Now
  <2> QED BY <2>1, <2>2
<1>2. NoFileLost'
  BY DEF NoFileLost
<1>3. DevicesInv'
  BY DEF DevicesInv, AddedOnce, Has
<1>4. ASSUME g_firstFile' \in Fd \cup {NoFile} PROVE TypeOK'
  BY <1>4 DEF TypeOK, FileTable, File
<1> QED BY <1>1, <1>2, <1>3, <1>4

(* psxopen keeps the invariant (stdio.c:70-106).                           *)
LEMMA OpenKeeps ==
  ASSUME IInv, SearchesApart, NEW name \in Drivers, NEW id \in Ids, NEW mode \in Modes,
         psxopen(name, id, mode)
  PROVE  IInv'
<1> USE DEF IInv
<1>1. CASE findEmptyFile(files) = NoFile
  BY <1>1 DEF psxopen, ioAbort, TypeOK, HistoryType, DevicesInv, AddedOnce, Has, SearchInv,
              HeldFilesStay, NoFileLost, SearchStays, Now
<1>2. CASE findEmptyFile(files) # NoFile
  <2> DEFINE fd == findEmptyFile(files)
             place == findDevice(devices, name)
  <2>1. fd \in Fd /\ files[fd].flags = {} /\ files \in FileTable /\ devices \in DevTable
    BY <1>2, Tables, EmptyFile
  <2>2. held[fd] = Nobody
    BY <2>1 DEF HeldFilesStay
  <2>3. PICK ok \in BOOLEAN :
          /\ ok => place # 0
          /\ files' = IF place = 0 THEN files
                      ELSE Opened(files, fd, place, id, IF ok THEN mode ELSE {})
          /\ held' = IF ok THEN [held EXCEPT ![fd] = <<name, id>>] ELSE held
          /\ UNCHANGED <<devices, g_firstFile, aborted, search>>
    BY <1>2 DEF psxopen
  <2>4. place # 0 => place \in Slot /\ devices[place] = name
    BY <2>1, FoundDevice
  <2>5. search = Nobody
    BY DEF psxopen
  <2>6. mode \in SUBSET {"read", "write", "nblock"} /\ mode \cap {"read", "write"} # {}
        /\ id \in Ids \cup {0} /\ {} \in SUBSET {"read", "write", "nblock"}
    BY FileIOAssumption
  <2>7. <<name, id>> \in Asked /\ <<name, id>> # Nobody /\ <<name, id>>[1] = name
        /\ <<name, id>>[2] = id
    BY FileIOAssumption DEF Asked, Nobody, NULL
  <2> HIDE DEF fd, place
  <2>8. /\ files' \in FileTable /\ \A e \in Fd \ {fd} : files'[e] = files[e]
        /\ files'[fd].flags = IF ok THEN mode ELSE {}
        /\ ok => files'[fd].slot = place /\ files'[fd].id = id
    <3>1. CASE place = 0
      BY <2>1, <2>3, <3>1
    <3>2. CASE place # 0
      <4> DEFINE flags == IF ok THEN mode ELSE {}
      <4>1. flags \in SUBSET {"read", "write", "nblock"}
        BY <2>6
      <4>2. files' = Opened(files, fd, place, id, flags)
        BY <2>3, <3>2
      <4> HIDE DEF flags
      <4>3. /\ files' \in FileTable /\ files'[fd].flags = flags /\ files'[fd].slot = place
            /\ files'[fd].id = id /\ \A e \in Fd \ {fd} : files'[e] = files[e]
        BY <2>1, <2>4, <2>6, <3>2, <4>1, <4>2, OpenedFile
      <4> QED BY <4>3 DEF flags
    <3> QED BY <3>1, <3>2
  <2>9. /\ held' \in [Fd -> Asked] /\ \A e \in Fd \ {fd} : held'[e] = held[e]
        /\ held'[fd] = IF ok THEN <<name, id>> ELSE Nobody
    BY <2>1, <2>2, <2>3, <2>7 DEF HistoryType
  <2>10. HeldFilesStay' /\ NoFileLost' /\ DevicesInv' /\ TypeOK'
    <3>1. g_firstFile' \in Fd \cup {NoFile} /\ devices' = devices
      BY <2>3 DEF TypeOK
    <3>2. /\ files'[fd].flags # {} => files'[fd].flags \cap {"read", "write"} # {}
          /\ held'[fd] \in Asked
          /\ files'[fd].flags # {} <=> held'[fd] # Nobody
      BY <2>1, <2>6, <2>7, <2>8, <2>9
    <3>3. held'[fd] # Nobody => devices[files'[fd].slot] = held'[fd][1]
                                /\ files'[fd].id = held'[fd][2]
      BY <2>3, <2>4, <2>7, <2>8, <2>9
    <3> QED BY <2>1, <2>8, <2>9, <3>1, <3>2, <3>3, OneFile
  <2>11. HistoryType' /\ SearchInv' /\ SearchStays'
    BY <2>3, <2>5, <2>9 DEF HistoryType, SearchInv, SearchStays
  <2> QED BY <2>10, <2>11
<1> QED BY <1>1, <1>2

(* psxclose keeps the invariant (stdio.c:201-214).                         *)
LEMMA CloseKeeps ==
  ASSUME IInv, NEW fd \in Fd, psxclose(fd)
  PROVE  IInv'
<1> USE DEF IInv
<1>1. /\ files \in FileTable /\ files' = Freed(files, fd)
      /\ held' = [held EXCEPT ![fd] = Nobody] /\ files[fd].flags # {}
      /\ UNCHANGED <<devices, g_firstFile, aborted, search>>
  BY Tables DEF psxclose
<1>2. /\ files' \in FileTable /\ files'[fd].flags = {}
      /\ \A e \in Fd \ {fd} : files'[e] = files[e]
  BY <1>1, FreedFile
<1>3. /\ held' \in [Fd -> Asked] /\ held'[fd] = Nobody /\ Nobody \in Asked
      /\ \A e \in Fd \ {fd} : held'[e] = held[e]
  BY <1>1 DEF HistoryType, Asked
<1>4. HeldFilesStay' /\ NoFileLost' /\ DevicesInv' /\ TypeOK'
  BY <1>1, <1>2, <1>3, OneFile DEF TypeOK
<1>5. HistoryType' /\ SearchInv' /\ SearchStays'
  <2>1. search # Nobody => g_firstFile # fd
    BY <1>1 DEF SearchInv
  <2> QED BY <1>1, <1>2, <1>3, <2>1 DEF HistoryType, SearchInv, SearchStays, Now
<1> QED BY <1>4, <1>5

(* psxioctl keeps the invariant (stdio.c:216-238).                         *)
LEMMA IoctlKeeps ==
  ASSUME IInv, NEW fd \in Fd, NEW arg \in 0 .. 1, psxioctl(fd, arg)
  PROVE  IInv'
<1> USE DEF IInv
<1> DEFINE flags == NonBlocking(files[fd].flags, arg)
<1>1. /\ files \in FileTable /\ files[fd].flags # {}
      /\ files' = WithFlags(files, fd, flags)
      /\ UNCHANGED <<devices, g_firstFile, aborted, held, search>>
  BY Tables DEF psxioctl, WithFlags
<1>2. files[fd].flags \cap {"read", "write"} # {}
      /\ files[fd].flags \in SUBSET {"read", "write", "nblock"}
  BY <1>1 DEF TypeOK, FileTable, File
<1>3. flags \in SUBSET {"read", "write", "nblock"} /\ flags \cap {"read", "write"} # {}
  BY <1>2 DEF NonBlocking
<1> HIDE DEF flags
<1>4. /\ files' \in FileTable /\ files'[fd].flags = flags
      /\ files'[fd].slot = files[fd].slot /\ files'[fd].id = files[fd].id
      /\ \A e \in Fd \ {fd} : files'[e] = files[e]
  <2> DEFINE rs == WithFlags(files, fd, flags)
  <2>1. /\ rs \in FileTable
        /\ rs[fd].flags = flags /\ rs[fd].slot = files[fd].slot /\ rs[fd].id = files[fd].id
        /\ \A e \in Fd \ {fd} : rs[e] = files[e]
    BY Zenon, <1>1, <1>3, FlagsFile
  <2>2. files' = rs
    BY Zenon, <1>1
  <2> HIDE DEF rs
  <2> QED BY Zenon, <2>1, <2>2
<1>5. held[fd] # Nobody /\ held[fd] \in Asked /\ <<devices[files[fd].slot], files[fd].id>> = held[fd]
  BY <1>1 DEF NoFileLost, HeldFilesStay, HistoryType, Now
<1>6. devices[files[fd].slot] = held[fd][1] /\ files[fd].id = held[fd][2]
  BY <1>5
<1>7. HeldFilesStay' /\ NoFileLost' /\ DevicesInv' /\ TypeOK'
  BY <1>1, <1>3, <1>4, <1>5, <1>6, OneFile DEF TypeOK, HistoryType
<1>8. HistoryType' /\ SearchInv' /\ SearchStays'
  <2>1. search # Nobody => g_firstFile # fd
    BY <1>1 DEF SearchInv
  <2> QED BY <1>1, <1>4, <2>1 DEF HistoryType, SearchInv, SearchStays, Now
<1> QED BY <1>7, <1>8

(* firstFile and format lead an empty entry, and leave it empty.            *)
LEMMA EmptyLeads ==
  ASSUME IInv, NEW fd \in Fd, files[fd].flags = {}, NEW name \in Drivers, NEW id \in Ids,
         files' = Freed(IF findDevice(devices, name) = 0 THEN files
                        ELSE Leads(files, fd, findDevice(devices, name), id), fd),
         UNCHANGED <<devices, held>>, g_firstFile' \in Fd \cup {NoFile}
  PROVE  /\ TypeOK' /\ DevicesInv' /\ HeldFilesStay' /\ NoFileLost'
         /\ files'[fd].flags = {}
         /\ findDevice(devices, name) # 0 => Now(fd)' = <<name, id>>
<1> DEFINE place == findDevice(devices, name)
           led == IF place = 0 THEN files ELSE Leads(files, fd, place, id)
<1>1. files \in FileTable /\ devices \in DevTable /\ held[fd] = Nobody /\ held[fd] \in Asked
  BY Tables DEF IInv, HeldFilesStay, HistoryType
<1>2. place # 0 => place \in Slot /\ devices[place] = name
  BY <1>1, FoundDevice
<1> HIDE DEF place
<1>3. /\ led \in FileTable
      /\ place # 0 => led[fd].slot = place /\ led[fd].id = id
      /\ \A e \in Fd \ {fd} : led[e] = files[e]
  BY <1>1, <1>2, LeadsFile
<1>4. files' = Freed(led, fd)
  BY DEF place
<1> HIDE DEF led
<1>5. /\ files' \in FileTable /\ files'[fd].flags = {}
      /\ place # 0 => files'[fd].slot = place /\ files'[fd].id = id
      /\ \A e \in Fd \ {fd} : files'[e] = files[e]
  BY <1>3, <1>4, FreedFile
<1>6. HeldFilesStay' /\ NoFileLost' /\ DevicesInv' /\ TypeOK'
  BY <1>1, <1>5, OneFile DEF IInv, HistoryType
<1> QED BY <1>2, <1>5, <1>6 DEF Now, place

(* firstFile keeps the invariant (filesystem.c:34-56).                     *)
LEMMA FirstFileKeeps ==
  ASSUME IInv, SearchesApart, NEW name \in Drivers, NEW id \in Ids, firstFile(name, id)
  PROVE  IInv'
<1> USE DEF IInv
<1>1. CASE SearchFile = NoFile
  BY <1>1 DEF firstFile, ioAbort, TypeOK, HistoryType, DevicesInv, AddedOnce, Has, SearchInv,
              HeldFilesStay, NoFileLost, SearchStays, Now
<1>2. CASE SearchFile # NoFile
  <2> DEFINE place == findDevice(devices, name)
  <2>1. files \in FileTable
    BY Tables
  <2>0. PICK fd \in Fd : fd = SearchFile
    BY <1>2, <2>1, EmptyFile DEF SearchFile, TypeOK
  <2>7. files[fd].flags = {}
    BY <1>2, <2>0 DEF firstFile
  <2>2. /\ g_firstFile' = fd
        /\ files' = IF place = 0 THEN Freed(files, fd) ELSE Leads(files, fd, place, id)
        /\ search' = IF place = 0 THEN Nobody ELSE <<name, id>>
        /\ UNCHANGED <<devices, aborted, held>>
    BY <1>2, <2>0 DEF firstFile
  <2>3. place # 0 => place \in Slot
    BY Tables, FoundDevice
  <2>4. files' = Freed(IF place = 0 THEN files ELSE Leads(files, fd, place, id), fd)
    <3>1. CASE place = 0
      BY <2>2, <3>1
    <3>2. CASE place # 0
      <4> DEFINE led == Leads(files, fd, place, id)
      <4>1. led \in FileTable /\ led[fd].flags = {}
        BY <2>1, <2>3, <2>7, <3>2, LeadsFile
      <4>2. files' = led
        BY <2>2, <3>2
      <4> HIDE DEF led
      <4>3. led[fd] \in File
        BY <2>1, <4>1 DEF FileTable
      <4>4. [led[fd] EXCEPT !.flags = {}] = led[fd]
        BY <4>1, <4>3 DEF File
      <4>5. Freed(led, fd) = led
        BY <2>1, <4>1, <4>4 DEF Freed, FileTable
      <4> QED BY <3>2, <4>2, <4>5 DEF led
    <3> QED BY <3>1, <3>2
  <2>5. /\ TypeOK' /\ DevicesInv' /\ HeldFilesStay' /\ NoFileLost'
        /\ files'[fd].flags = {} /\ (place # 0 => Now(fd)' = <<name, id>>)
    <3>1. g_firstFile' \in Fd \cup {NoFile}
      BY <2>2
    <3> HIDE DEF IInv
    <3> QED BY <2>2, <2>4, <2>7, <3>1, EmptyLeads
  <2>6. HistoryType' /\ SearchInv' /\ SearchStays'
    <3>1. <<name, id>> \in Drivers \X (Ids \cup {0})
      OBVIOUS
    <3>2. g_firstFile' = fd /\ held' = held /\ search' = IF place = 0 THEN Nobody ELSE <<name, id>>
      BY <2>2
    <3>3. HistoryType'
      BY <3>1, <3>2 DEF HistoryType
    <3>4. SearchInv' /\ SearchStays'
      BY <2>5, <3>2 DEF SearchInv, SearchStays, Now
    <3> QED BY <3>3, <3>4
  <2> QED BY <2>5, <2>6
<1> QED BY <1>1, <1>2

(* format keeps the invariant (filesystem.c:62-86).                        *)
LEMMA FormatKeeps ==
  ASSUME IInv, SearchesApart, NEW name \in Drivers, NEW id \in Ids, format(name, id)
  PROVE  IInv'
<1>1. CASE findEmptyFile(files) = NoFile
  BY <1>1 DEF IInv, format, ioAbort, TypeOK, HistoryType, DevicesInv, AddedOnce, Has, SearchInv,
              HeldFilesStay, NoFileLost, SearchStays, Now
<1>2. CASE findEmptyFile(files) # NoFile
  <2> DEFINE fd == findEmptyFile(files)
  <2>1. fd \in Fd /\ files[fd].flags = {}
    BY <1>2, Tables, EmptyFile DEF IInv
  <2>2. /\ files' = Freed(IF findDevice(devices, name) = 0 THEN files
                          ELSE Leads(files, fd, findDevice(devices, name), id), fd)
        /\ UNCHANGED <<devices, g_firstFile, aborted, held, search>> /\ search = Nobody
    BY <1>2 DEF format
  <2> HIDE DEF fd
  <2>3. g_firstFile' \in Fd \cup {NoFile}
    BY <2>2 DEF IInv, TypeOK
  <2>4. TypeOK' /\ DevicesInv' /\ HeldFilesStay' /\ NoFileLost'
    BY <2>1, <2>2, <2>3, EmptyLeads
  <2> QED BY <2>2, <2>4 DEF IInv, HistoryType, SearchInv, SearchStays
<1> QED BY <1>1, <1>2

(* A driver comes or goes, and the slots of the others are as they were.    *)
LEMMA DevicesKeep ==
  ASSUME IInv, NEW name \in Drivers, Add(name) \/ Withdraw(name)
  PROVE  IInv'
<1> USE DEF IInv
<1>1. /\ files \in FileTable /\ devices \in DevTable
      /\ UNCHANGED <<files, g_firstFile, aborted, held, search>>
  BY Tables DEF Add, Withdraw
<1>2. name # NULL /\ name # "tty" /\ "tty" # NULL
  BY FileIOAssumption DEF NULL
<1>3. /\ devices' \in DevTable /\ AddedOnce(devices') /\ Has(devices', "tty")
      /\ \A s \in Slot : devices[s] \notin {NULL, name} => devices'[s] = devices[s]
      /\ (\E fd \in Fd : held[fd][1] = name) \/ search[1] = name =>
           \A s \in Slot : devices[s] # NULL => devices'[s] = devices[s]
  <2>1. CASE Add(name)
    <3>1. ~Has(devices, name) /\ devices' = addDevice(devices, name)
      BY <1>1, <2>1, FoundDevice, ZeroIsNoSlot DEF Add
    <3>2. /\ devices' \in DevTable /\ AddedOnce(devices')
          /\ \A s \in Slot : devices[s] # NULL => devices'[s] = devices[s]
      BY <1>1, <3>1, Adding DEF DevicesInv
    <3> QED BY <1>2, <3>2 DEF DevicesInv, Has
  <2>2. CASE Withdraw(name)
    <3>1. /\ devices' \in DevTable /\ AddedOnce(devices')
          /\ \A s \in Slot : devices[s] # name => devices'[s] = devices[s]
      BY <1>1, <1>2, <2>2, Removing DEF Withdraw, DevicesInv
    <3> QED BY <1>2, <2>2, <3>1 DEF DevicesInv, Has, Withdraw
  <2> QED BY <2>1, <2>2
<1>4. TypeOK' /\ HistoryType' /\ DevicesInv' /\ SearchInv' /\ NoFileLost'
  BY <1>1, <1>3 DEF TypeOK, HistoryType, DevicesInv, SearchInv, NoFileLost, AddedOnce, Has,
                    DevTable, FileTable, File
<1>5. HeldFilesStay'
  <2> SUFFICES ASSUME NEW fd \in Fd, held[fd] # Nobody
               PROVE  files[fd].flags # {} /\ Now(fd)' = held[fd]
    BY <1>1 DEF HeldFilesStay
  <2>1. files[fd].flags # {} /\ Now(fd) = held[fd] /\ held[fd] \in Asked
    BY DEF HeldFilesStay, HistoryType
  <2>2. files[fd].slot \in Slot /\ devices[files[fd].slot] = held[fd][1] /\ held[fd][1] # NULL
    <3>1. held[fd][1] # NULL
      BY <2>1, Names
    <3>2. files[fd].slot \in Slot
      BY <1>1 DEF FileTable, File
    <3> QED BY <2>1, <3>1, <3>2 DEF Now
  <2>3. devices'[files[fd].slot] = devices[files[fd].slot]
    BY <1>3, <2>2
  <2> QED BY <1>1, <2>1, <2>3 DEF Now
<1>6. SearchStays'
  <2> SUFFICES ASSUME search # Nobody PROVE Now(g_firstFile)' = search
    BY <1>1 DEF SearchStays
  <2>1. g_firstFile \in Fd /\ Now(g_firstFile) = search /\ search \in Asked
    BY DEF SearchInv, SearchStays, HistoryType, Asked
  <2>2. /\ files[g_firstFile].slot \in Slot /\ search[1] # NULL
        /\ devices[files[g_firstFile].slot] = search[1]
    <3>1. search[1] # NULL
      BY <2>1, Names
    <3>2. files[g_firstFile].slot \in Slot
      BY <1>1, <2>1 DEF FileTable, File
    <3> QED BY <2>1, <3>1, <3>2 DEF Now
  <2>3. devices'[files[g_firstFile].slot] = devices[files[g_firstFile].slot]
    BY <1>3, <2>2
  <2> QED BY <1>1, <2>1, <2>3 DEF Now
<1> QED BY <1>4, <1>5, <1>6

(* The console is installed anew, by the program or for the next one.       *)
LEMMA InstallKeeps ==
  ASSUME IInv, SearchesApart, Install
  PROVE  IInv'
<1> USE DEF IInv
<1> DEFINE ds == Reinstalled(devices)
<1>1. /\ files \in FileTable /\ devices' = ds /\ files' = reopenStdio(files, ds)
      /\ held' = [held EXCEPT ![0] = Console, ![1] = Console]
      /\ UNCHANGED <<g_firstFile, aborted, search>> /\ search = Nobody
      /\ \A fd \in Fd : fd > 1 => held[fd] # Console
  BY Tables DEF Install, installStdIo
<1>2. /\ ds \in DevTable /\ AddedOnce(ds) /\ Has(ds, "tty")
      /\ \A s \in Slot : devices[s] \notin {"tty", NULL} => ds[s] = devices[s]
  BY Tables, Reinstalling DEF DevicesInv
<1> HIDE DEF ds
<1>3. 0 \in Fd /\ 1 \in Fd /\ \A fd \in Fd : fd \in Nat
  BY FileIOAssumption DEF Fd
<1>4. /\ held' \in [Fd -> Asked] /\ held'[0] = Console /\ held'[1] = Console
      /\ \A fd \in Fd : fd > 1 => held'[fd] = held[fd]
  BY <1>1, <1>3 DEF HistoryType, Asked
<1>5. ASSUME NEW fd \in Fd, fd > 1
      PROVE  /\ files[fd].flags # {} => files[fd].flags \cap {"read", "write"} # {}
             /\ files[fd].flags # {} => held'[fd] # Nobody
             /\ held'[fd] # Nobody => /\ files[fd].flags # {}
                                      /\ ds[files[fd].slot] = held'[fd][1]
                                      /\ files[fd].id = held'[fd][2]
  <2>1. /\ files[fd].flags # {} => files[fd].flags \cap {"read", "write"} # {}
        /\ files[fd].flags # {} => held'[fd] # Nobody
    BY <1>4, <1>5 DEF TypeOK, NoFileLost
  <2>2. ASSUME held[fd] # Nobody
        PROVE  /\ files[fd].flags # {} /\ ds[files[fd].slot] = held[fd][1]
               /\ files[fd].id = held[fd][2]
    <3>1. files[fd].flags # {} /\ Now(fd) = held[fd] /\ held[fd] \in Asked
      BY <2>2 DEF HeldFilesStay, HistoryType
    <3>2. held[fd][1] \notin {NULL, "tty"}
      BY <1>1, <1>5, <2>2, <3>1, Names
    <3>3. files[fd].slot \in Slot
      BY <1>1 DEF FileTable, File
    <3>4. devices[files[fd].slot] = held[fd][1] /\ files[fd].id = held[fd][2]
      BY <3>1 DEF Now
    <3> QED BY <1>2, <3>1, <3>2, <3>3, <3>4
  <2> QED BY <1>4, <1>5, <2>1, <2>2
<1>6. g_firstFile' \in Fd \cup {NoFile} /\ search' = Nobody
  BY <1>1 DEF TypeOK
<1> QED BY <1>1, <1>2, <1>4, <1>5, <1>6, ReopenedIsHeld

(* psxexit keeps the invariant (misc.c:166-170).                           *)
LEMMA ExitKeeps ==
  ASSUME IInv, psxexit
  PROVE  IInv'
<1> USE DEF IInv
<1> DEFINE ds == Reinstalled(devices)
           fs == AllFreed
<1>1. /\ files \in FileTable /\ devices' = ds /\ files' = reopenStdio(fs, ds)
      /\ held' = ConsoleOnly /\ search' = Nobody /\ UNCHANGED <<g_firstFile, aborted>>
  BY Tables DEF psxexit, installStdIo
<1>2. ds \in DevTable /\ AddedOnce(ds) /\ Has(ds, "tty")
  BY Tables, Reinstalling DEF DevicesInv
<1>3. fs \in FileTable /\ \A fd \in Fd : fs[fd].flags = {}
  <2>1. \A fd \in Fd : files[fd] \in File
    BY <1>1 DEF FileTable
  <2>2. \A fd \in Fd : [files[fd] EXCEPT !.flags = {}] \in File
                         /\ [files[fd] EXCEPT !.flags = {}].flags = {}
    BY <2>1 DEF File
  <2> QED BY <2>2 DEF AllFreed, FileTable
<1> HIDE DEF ds, fs
<1>4. /\ held' \in [Fd -> Asked] /\ held'[0] = Console /\ held'[1] = Console
      /\ \A fd \in Fd : fd > 1 => held'[fd] = Nobody
  BY <1>1, FileIOAssumption DEF ConsoleOnly, Asked, Fd
<1>5. g_firstFile' \in Fd \cup {NoFile}
  BY <1>1 DEF TypeOK
<1> QED BY <1>1, <1>2, <1>3, <1>4, <1>5, ReopenedIsHeld

(* Every step keeps the invariant.                                         *)
LEMMA NextKeeps ==
  ASSUME IInv, SearchesApart, [Next]_vars
  PROVE  IInv'
<1>1. CASE UNCHANGED vars
  BY <1>1 DEF vars, IInv, TypeOK, HistoryType, DevicesInv, AddedOnce, Has, SearchInv,
              HeldFilesStay, NoFileLost, SearchStays, Now
<1>2. CASE nextFile
  BY <1>2 DEF nextFile, IInv, TypeOK, HistoryType, DevicesInv, AddedOnce, Has, SearchInv,
              HeldFilesStay, NoFileLost, SearchStays, Now
<1>3. CASE Next /\ ~nextFile
  BY <1>3, OpenKeeps, CloseKeeps, IoctlKeeps, FirstFileKeeps, FormatKeeps, DevicesKeep,
     InstallKeeps, ExitKeeps
  DEF Next
<1> QED BY <1>1, <1>2, <1>3

(* The strengthened invariant holds of every state the tables reach.       *)
THEOREM Inductive == SearchesApart => (Spec => []IInv)
<1> SUFFICES ASSUME SearchesApart PROVE Spec => []IInv
  OBVIOUS
<1>1. IInv /\ [Next]_vars => IInv'
  BY NextKeeps
<1> QED BY <1>1, InitIInv, PTL DEF Spec

(* For tables of any size, a descriptor leads where it was opened to        *)
(* (stdio.c:70-106, filesystem.c:34-56, misc.c:178-192).                    *)
THEOREM HeldFilesAreKept == SearchesApart => (Spec => []HeldFilesStay)
<1>1. IInv => HeldFilesStay
  BY DEF IInv
<1> QED BY <1>1, Inductive, PTL

(* No entry of the table of files is lost, whatever fails.                  *)
THEOREM FilesAreNotLost == SearchesApart => (Spec => []NoFileLost)
<1>1. IInv => NoFileLost
  BY DEF IInv
<1> QED BY <1>1, Inductive, PTL

(* A directory search stays on its device (filesystem.c:58-60).             *)
THEOREM SearchesStay == SearchesApart => (Spec => []SearchStays)
<1>1. IInv => SearchStays
  BY DEF IInv
<1> QED BY <1>1, Inductive, PTL

(* Descriptors 0 and 1 are the console after a program has gone             *)
(* (misc.c:166-170, stdio.c:40-47).                                         *)
LEMMA ExitReopens ==
  ASSUME IInv, psxexit
  PROVE  \A fd \in 0 .. 1 : files'[fd].flags # {} /\ devices'[files'[fd].slot] = "tty"
<1>1. files \in FileTable /\ devices \in DevTable
  BY Tables DEF IInv
<1>2. Reinstalled(devices) \in DevTable /\ Has(Reinstalled(devices), "tty")
  BY <1>1, Reinstalling DEF IInv, DevicesInv
<1>3. AllFreed \in FileTable
  <2>1. \A fd \in Fd : files[fd] \in File
    BY <1>1 DEF FileTable
  <2>2. \A fd \in Fd : [files[fd] EXCEPT !.flags = {}] \in File
    BY <2>1 DEF File
  <2> QED BY <2>2 DEF AllFreed, FileTable
<1>4. devices' = Reinstalled(devices) /\ files' = reopenStdio(AllFreed, Reinstalled(devices))
  BY DEF psxexit, installStdIo
<1>5. \A fd \in {0, 1} : /\ files'[fd].flags \cap {"read", "write"} # {}
                          /\ devices'[files'[fd].slot] = "tty"
  BY <1>2, <1>3, <1>4, Reopening
<1> QED BY <1>5

(* For any number of files and devices, 0 and 1 are the console after a     *)
(* program has gone (misc.c:166-170, stdio.c:40-47).                       *)
THEOREM ConsoleIsBack == SearchesApart => (Spec => ConsoleAfterExit)
<1> SUFFICES ASSUME SearchesApart PROVE Spec => ConsoleAfterExit
  OBVIOUS
<1>1. IInv /\ [Next]_vars =>
        [psxexit => \A fd \in 0 .. 1 : files'[fd].flags # {} /\ devices'[files'[fd].slot] = "tty"]_vars
  BY ExitReopens
<1> QED BY <1>1, Inductive, PTL DEF Spec, ConsoleAfterExit

(* The tables keep their types (fileio.h).                                  *)
THEOREM TypeCorrect == SearchesApart => (Spec => []TypeOK)
<1>1. IInv => TypeOK
  BY DEF IInv
<1> QED BY <1>1, Inductive, PTL

(* Every descriptor leads where it was opened to, for tables of any size    *)
(* (fileio/).                                                               *)
THEOREM Lead == SearchesApart => (Spec => []DescriptorsLead)
BY TypeCorrect, HeldFilesAreKept, FilesAreNotLost, SearchesStay, PTL DEF DescriptorsLead

-----------------------------------------------------------------------------
(* CardSectors *)

LEMMA LeastExists ==
  ASSUME NEW T, T \subseteq Nat, T # {}
  PROVE  \E m \in T : \A n \in T : m =< n
<1> DEFINE R == OpToRel(<, Nat)
<1>1. \A m, n \in Nat : <<m, n>> \in R <=> m < n
  BY DEF OpToRel
<1> HIDE DEF R
<1>2. PICK m \in T : \A n \in T : ~(<<n, m>> \in R)
  BY NatLessThanWellFounded, WFMin DEF R
<1>3. \A n \in T : ~(n < m)
  BY <1>1, <1>2
<1>4. \A n \in T : m =< n
  BY <1>3, SMT
<1> QED BY <1>4

(* Division by the length of a block.                                      *)
LEMMA Dividing ==
  ASSUME NEW i \in Nat
  PROVE  /\ i \div S \in Nat /\ i % S \in 0 .. S - 1
         /\ i = S * (i \div S) + (i % S)
  BY CardSectorsAssumption DEF CardSectorsAssumption

LEMMA Divided ==
  ASSUME NEW q \in Nat, NEW r \in 0 .. S - 1
  PROVE  /\ S * q \in Nat /\ S * q = q * S /\ S * q + r \in Nat
         /\ (S * q + r) \div S = q /\ (S * q + r) % S = r
  BY CardSectorsAssumption DEF CardSectorsAssumption

(* The open file: its blocks, each once.                                   *)
FileInv ==
  /\ file \in Seq(Block) /\ Len(file) \in 1 .. MaxLength
  /\ \A j, k \in 1 .. Len(file) : file[j] = file[k] => j = k
Sectors == Len(file) * S

LEMMA FileFacts ==
  ASSUME FileInv
  PROVE  /\ Len(file) \in Nat \ {0} /\ Sectors \in Nat /\ S \in Nat /\ S > 1 /\ MaxLength \in Nat
         /\ \A k \in 1 .. Len(file) : file[k] \in Nat /\ file[k] # NONE
         /\ \A i \in Nat : i < Sectors => i \div S + 1 \in 1 .. Len(file)
<1>1. S \in Nat /\ S > 1 /\ MaxLength \in Nat /\ Blocks \in Nat
  BY CardSectorsAssumption DEF CardSectorsAssumption
<1>2. Len(file) \in Nat \ {0} /\ Sectors \in Nat
  BY <1>1 DEF FileInv, Sectors
<1>3. \A k \in 1 .. Len(file) : file[k] \in Nat /\ file[k] # NONE
  BY <1>1 DEF FileInv, Block, NONE
<1>4. ASSUME NEW i \in Nat, i < Sectors
      PROVE  i \div S + 1 \in 1 .. Len(file)
  <2> DEFINE q == i \div S
  <2>1. q \in Nat /\ i = S * q + (i % S) /\ (i % S) \in Nat
    BY <1>1, Dividing
  <2>2. S * q =< i
    BY <2>1, <1>1
  <2>3. S * q < S * Len(file)
    BY <2>1, <2>2, <1>1, <1>2, <1>4 DEF Sectors
  <2>4. ASSUME q >= Len(file) PROVE FALSE
    <3> HIDE DEF q
    <3>1. S * q >= S * Len(file)
      BY <2>1, <2>4, <1>1, <1>2
    <3> DEFINE a == S * q
               b == S * Len(file)
    <3>2. a \in Nat /\ b \in Nat
      BY <2>1, <1>1, <1>2
    <3> QED BY <2>3, <3>1, <3>2
  <2> QED BY <2>1, <2>4, <1>2
<1> QED BY <1>1, <1>2, <1>3, <1>4

LEMMA NextOf ==
  ASSUME FileInv, NEW k \in 1 .. Len(file), k < Len(file)
  PROVE  NextBlock(file[k]) = file[k + 1]
<1>1. DOMAIN file = 1 .. Len(file) /\ Len(file) \in Nat
  BY DEF FileInv
<1>5. k # Len(file)
  <2> DEFINE n == Len(file)
  <2>1. n \in Nat /\ k \in Nat /\ k < n
    BY <1>1
  <2> HIDE DEF n
  <2>2. k # n
    BY <2>1
  <2> QED BY <2>2 DEF n
<1> DEFINE j == CHOOSE j \in DOMAIN file : file[j] = file[k]
<1>2. j \in 1 .. Len(file) /\ file[j] = file[k]
  BY <1>1
<1>3. j = k
  BY <1>2 DEF FileInv
<1>4. NextBlock(file[k]) = IF j = Len(file) THEN NONE ELSE file[j + 1]
  BY DEF NextBlock
<1> HIDE DEF j
<1>6. NextBlock(file[k]) = IF k = Len(file) THEN NONE ELSE file[k + 1]
  BY <1>3, <1>4
<1> QED BY Zenon, <1>5, <1>6

(* The look-up goes on by as many blocks as the sector is behind, if it is *)
(* not the last of a block (backupunit.c:334-338).                         *)
Absolute(i) == file[i \div S + 1] * S + (i % S) + S

LEMMA TupleParts == \A a, b : <<a, b>>[1] = a /\ <<a, b>>[2] = b
  OBVIOUS

LEMMA LookedUp ==
  ASSUME FileInv, NEW i \in Nat, i < Sectors, i % S # S - 1
  PROVE  buRelativeToAbsoluteSector(file[1], i) = Absolute(i)
<1> DEFINE q == i \div S
           r == i % S
           Step(x) == IF x[1] = NONE \/ ~StepsAt(x[2]) THEN x ELSE <<NextBlock(x[1]), x[2] - S>>
           R(g) == [n \in 0 .. MaxLength |-> IF n = 0 THEN <<file[1], i>> ELSE Step(g[n - 1])]
           at == CHOOSE g : g = R(g)
           m(n) == IF n =< q THEN n ELSE q
           G == [n \in 0 .. MaxLength |-> <<file[m(n) + 1], i - S * m(n)>>]
<1>1. /\ Len(file) \in Nat \ {0} /\ S \in Nat /\ S > 1 /\ MaxLength \in Nat
      /\ \A k \in 1 .. Len(file) : file[k] \in Nat /\ file[k] # NONE
      /\ q + 1 \in 1 .. Len(file)
  BY FileFacts
<1>2. q \in Nat /\ r \in 0 .. S - 2 /\ i = S * q + r
  BY <1>1, Dividing
<1>3. Len(file) =< MaxLength
  BY DEF FileInv
<1> HIDE DEF q, r
<1>4. G[0] = <<file[1], i>>
  <2>1. m(0) = 0 /\ 0 \in 0 .. MaxLength
    BY <1>1, <1>2
  <2>2. G[0] = <<file[0 + 1], i - S * 0>>
    BY <2>1
  <2>3. S * 0 = 0
    BY <1>1
  <2> QED BY <2>2, <2>3
<1>5. ASSUME NEW n \in 1 .. MaxLength PROVE G[n] = Step(G[n - 1])
  <2>1. n - 1 \in 0 .. MaxLength /\ n \in 0 .. MaxLength /\ n \in Nat
    BY <1>1
  <2>2. G[n] = <<file[m(n) + 1], i - S * m(n)>>
    BY <2>1
  <2>3. G[n - 1] = <<file[m(n - 1) + 1], i - S * m(n - 1)>>
    BY <2>1
  <2>4. CASE n =< q
    <3>1. m(n) = n /\ m(n - 1) = n - 1
      BY <2>4, <1>2, <2>1
    <3>2. G[n - 1] = <<file[n], i - S * (n - 1)>>
      <4>1. m(n - 1) + 1 = n
        BY <2>1, <2>4, <1>2
      <4> QED BY <2>3, <3>1, <4>1
    <3>3. n \in 1 .. Len(file) /\ n < Len(file)
      BY <2>4, <1>1, <1>2
    <3>4. file[n] # NONE /\ NextBlock(file[n]) = file[n + 1]
      BY <3>3, <1>1, NextOf
    <3>5. S * n = S * (n - 1) + S /\ S * (n - 1) \in Nat /\ S * n \in Nat
      BY <1>1, <2>1
    <3>6. S * n =< S * q /\ S * q \in Nat
      BY <2>4, <1>1, <1>2, <2>1
    <3> DEFINE a == S * n
               b == S * (n - 1)
               c == S * q
    <3>7. i - b >= S /\ i - b - S = i - a
      <4>1. a = b + S /\ b \in Nat /\ a \in Nat /\ a =< c /\ c \in Nat /\ i = c + r
        BY <3>5, <3>6, <1>2
      <4> HIDE DEF a, b, c
      <4> QED BY <4>1, <1>2, <1>1
    <3>8. StepsAt(i - S * (n - 1))
      <4>1. i - b >= S - 1
        <5>1. b \in Nat
          BY <3>5
        <5> HIDE DEF b
        <5> QED BY <3>7, <5>1, <1>1
      <4> QED BY <4>1 DEF StepsAt
    <3>9. Step(G[n - 1]) = <<NextBlock(file[n]), i - S * (n - 1) - S>>
      <4> DEFINE x == G[n - 1]
                 t == i - S * (n - 1)
      <4>0. x = <<file[n], t>>
        BY <3>2
      <4>1. x[1] = file[n] /\ x[2] = t
        <5> HIDE DEF x, t
        <5> QED BY <4>0
      <4>2. x[1] # NONE /\ StepsAt(x[2])
        BY <4>1, <3>4, <3>8
      <4> HIDE DEF x, t
      <4>3. Step(x) = <<NextBlock(x[1]), x[2] - S>>
        BY <4>2
      <4>4. Step(x) = <<NextBlock(file[n]), t - S>>
        BY <4>1, <4>3
      <4> QED BY <4>4 DEF x, t
    <3> QED BY <2>2, <3>1, <3>4, <3>7, <3>9
  <2>5. CASE ~(n =< q)
    <3>1. m(n) = q /\ m(n - 1) = q
      BY <2>5, <1>2, <2>1
    <3>2. i - S * q = r
      <4> DEFINE c == S * q
      <4>1. c \in Nat /\ i = c + r
        BY <1>1, <1>2
      <4> HIDE DEF c
      <4>2. i - c = r
        BY <4>1, <1>2
      <4> QED BY <4>2 DEF c
    <3>3. ~StepsAt(r)
      BY <1>1, <1>2 DEF StepsAt
    <3>4. G[n - 1] = <<file[q + 1], r>> /\ G[n] = <<file[q + 1], r>>
      BY <2>2, <2>3, <3>1, <3>2
    <3> QED BY <3>3, <3>4
  <2> QED BY <2>4, <2>5
<1> HIDE DEF Step
<1>6. G = R(G)
  <2>1. \A n \in 0 .. MaxLength : G[n] = IF n = 0 THEN <<file[1], i>> ELSE Step(G[n - 1])
    <3> SUFFICES ASSUME NEW n \in 0 .. MaxLength
                 PROVE  G[n] = IF n = 0 THEN <<file[1], i>> ELSE Step(G[n - 1])
      OBVIOUS
    <3>1. CASE n = 0
      BY <3>1, <1>4
    <3>2. CASE n # 0
      <4>1. n \in 1 .. MaxLength
        BY <3>2, <1>1
      <4> QED BY <3>2, <4>1, <1>5
    <3> QED BY <3>1, <3>2
  <2> DEFINE H == R(G)
  <2>2. \A n \in 0 .. MaxLength : H[n] = IF n = 0 THEN <<file[1], i>> ELSE Step(G[n - 1])
    OBVIOUS
  <2>3. H = [n \in 0 .. MaxLength |-> H[n]]
    OBVIOUS
  <2>4. G = [n \in 0 .. MaxLength |-> G[n]]
    OBVIOUS
  <2> HIDE DEF H, G
  <2>5. \A n \in 0 .. MaxLength : G[n] = H[n]
    BY <2>1, <2>2
  <2>6. G = H
    BY <2>3, <2>4, <2>5
  <2> QED BY <2>6 DEF H
<1> HIDE DEF G
<1>7. at = R(at)
  BY <1>6
<1> HIDE DEF at
<1>8. \A n \in 0 .. MaxLength : at[n] = IF n = 0 THEN <<file[1], i>> ELSE Step(at[n - 1])
  BY <1>7
<1>9. \A n \in 0 .. MaxLength : at[n] = G[n]
  <2> DEFINE Bad == {n \in 0 .. MaxLength : at[n] # G[n]}
  <2> SUFFICES ASSUME Bad # {} PROVE FALSE
    OBVIOUS
  <2>1. Bad \subseteq Nat
    OBVIOUS
  <2>2. PICK n \in Bad : \A k \in Bad : n =< k
    BY <2>1, LeastExists
  <2>3. n # 0
    BY <1>1, <1>4, <1>8
  <2>4. n \in 1 .. MaxLength /\ n - 1 \in 0 .. MaxLength /\ n - 1 < n
    BY <2>3, <1>1
  <2>5. at[n - 1] = G[n - 1]
    BY <2>2, <2>4
  <2> QED BY <2>3, <2>4, <2>5, <1>5, <1>8
<1>10. buRelativeToAbsoluteSector(file[1], i) =
         LET last == at[MaxLength] IN IF last[1] = NONE THEN NONE ELSE last[1] * S + last[2] + S
  BY DEF buRelativeToAbsoluteSector, at, Step
<1>11. at[MaxLength] = <<file[q + 1], r>>
  <2>1. m(MaxLength) = q
    BY <1>1, <1>2, <1>3
  <2>2. i - S * q = r
    <3> DEFINE c == S * q
    <3>1. c \in Nat /\ i = c + r
      BY <1>1, <1>2
    <3> HIDE DEF c
    <3>2. i - c = r
      BY <3>1, <1>2
    <3> QED BY <3>2 DEF c
  <2>3. MaxLength \in 0 .. MaxLength
    BY <1>1
  <2>4. G[MaxLength] = <<file[m(MaxLength) + 1], i - S * m(MaxLength)>>
    BY <2>3 DEF G
  <2> QED BY <1>9, <2>1, <2>2, <2>3, <2>4
<1>12. file[q + 1] # NONE
  BY <1>1
<1> QED BY <1>10, <1>11, <1>12 DEF Absolute, q, r

(* A synchronous transfer goes on from the start of a block, or stays in   *)
(* one whose last sector it does not begin with.                           *)
Fits(start, left) == start % S = 0 \/ (start % S # S - 1 /\ (start % S) + left =< S)

LEMMA WithinBlock ==
  ASSUME S \in Nat, NEW i \in Nat, NEW j \in Nat, (i % S) + j < S
  PROVE  (i + j) \div S = i \div S /\ (i + j) % S = (i % S) + j
<1> DEFINE q == i \div S
           r == i % S
<1>1. q \in Nat /\ r \in Nat /\ i = S * q + r
  BY Dividing
<1>2. r + j \in 0 .. S - 1
  BY <1>1
<1>3. (S * q + (r + j)) \div S = q /\ (S * q + (r + j)) % S = r + j /\ S * q \in Nat
  BY <1>1, <1>2, Divided
<1> DEFINE p == S * q
<1>4. i + j = p + (r + j)
  <2>1. p \in Nat /\ i = p + r
    BY <1>1, <1>3
  <2> HIDE DEF p, r
  <2> QED BY <1>1, <2>1
<1> QED BY <1>3, <1>4

LEMMA NextStart ==
  ASSUME S \in Nat, NEW i \in Nat, i % S = 0
  PROVE  (i + S) % S = 0
<1> DEFINE q == i \div S
<1>1. q \in Nat /\ i = S * q + 0
  BY Dividing
<1>2. q + 1 \in Nat /\ 0 \in 0 .. S - 1
  BY <1>1, CardSectorsAssumption DEF CardSectorsAssumption
<1>3. (S * (q + 1) + 0) % S = 0
  BY <1>2, Divided
<1>4. S * (q + 1) = S * q + S
  BY <1>1
<1> QED BY <1>1, <1>3, <1>4

LEMMA ChunkFits ==
  ASSUME FileInv, NEW start \in Nat, NEW left \in Nat \ {0},
         start < Sectors, Fits(start, left)
  PROVE  /\ Chunk(start, left) \in 1 .. left /\ Chunk(start, left) =< S
         /\ start % S # S - 1
         /\ \A j \in 0 .. Chunk(start, left) - 1 : Absolute(start + j) = Absolute(start) + j
         /\ Chunk(start, left) < left => Fits(start + Chunk(start, left), left - Chunk(start, left))
<1> DEFINE w == start % S
           c == Chunk(start, left)
<1>1. S \in Nat /\ S > 1
  BY CardSectorsAssumption DEF CardSectorsAssumption
<1>2. w \in 0 .. S - 1
  BY Dividing
<1>3. w = 0 \/ (w # S - 1 /\ w + left =< S)
  BY DEF Fits
<1>4. start # 0 \/ w = 0
  BY <1>1
<1>5. c = IF left > SectorLimit(start) THEN SectorLimit(start) ELSE left
  BY DEF Chunk
<1>6. SectorLimit(start) = S - (IF start > 0 /\ w # 0 THEN w - S ELSE w)
  BY DEF SectorLimit
<1> HIDE DEF w, c
<1>7. c \in 1 .. left /\ w + c =< S /\ (c < left => w = 0 /\ c = S)
  BY <1>1, <1>2, <1>3, <1>4, <1>5, <1>6
<1>8. w # S - 1
  BY <1>1, <1>3
<1>9. ASSUME NEW j \in 0 .. c - 1 PROVE Absolute(start + j) = Absolute(start) + j
  <2>1. j \in Nat /\ w + j < S
    BY <1>1, <1>2, <1>7
  <2>2. (start + j) \div S = start \div S /\ (start + j) % S = w + j
    BY <2>1, <1>1, WithinBlock DEF w
  <2> DEFINE b == file[start \div S + 1] * S
  <2>3. Absolute(start + j) = b + (w + j) + S /\ Absolute(start) = b + w + S
    BY <2>2 DEF Absolute, w
  <2>4. b \in Int
    BY <1>1, FileFacts, SMTT(30)
  <2> HIDE DEF b
  <2> QED BY <1>1, <1>2, <2>1, <2>3, <2>4
<1>10. ASSUME c < left PROVE Fits(start + c, left - c)
  BY <1>1, <1>7, <1>10, NextStart DEF Fits, w
<1> QED BY <1>1, <1>2, <1>7, <1>8, <1>9, <1>10 DEF c, w

-----------------------------------------------------------------------------
Calls == [kind : {"none", "sync", "read", "write"}, start : Nat, left : Nat,
          at : Int, chunk : Nat]
Places == {Reallocated(a) : a \in Int}
Moves == [from : Nat, sectors : Seq(Places)]

Going == moved.from + Len(moved.sectors)

(* A synchronous transfer has moved what was before its chunk, and of the  *)
(* chunk what at has passed; the offset waits for its end.                 *)
SyncInv ==
  call.kind = "sync" =>
    /\ offset = moved.from
    /\ call.left > 0 => Fits(call.start, call.left)
    /\ call.chunk = 0 => call.start = Going
    /\ call.chunk > 0 =>
         /\ call.left > 0 /\ call.chunk =< ChunkOf(call)
         /\ call.start + ChunkOf(call) - call.chunk = Going
         /\ call.at = Absolute(call.start) + ChunkOf(call) - call.chunk

(* An asynchronous one meets no last sector of a block; the offset is      *)
(* behind it.                                                              *)
AsyncInv ==
  call.kind \in {"read", "write"} =>
    /\ call.start = Going /\ call.chunk = 0 /\ offset =< call.start
    /\ \A i \in call.start .. call.start + call.left - 1 : i % S # S - 1

SectorsInv ==
  /\ FileInv
  /\ offset \in 0 .. Sectors
  /\ call \in Calls /\ moved \in Moves
  /\ call.start + call.left =< Sectors /\ moved.from =< Sectors
  /\ \A k \in 1 .. Len(moved.sectors) : moved.sectors[k] = Home(moved.from + k - 1)
  /\ call.kind = "none" => call.chunk = 0 /\ offset =< Going
  /\ SyncInv
  /\ AsyncInv

LEMMA HomeIs == \A i : Home(i) = Reallocated(Absolute(i))
  BY DEF Home, Absolute

LEMMA NoCallIs ==
  /\ NoCall \in Calls /\ NoCall.kind = "none" /\ NoCall.start = 0
  /\ NoCall.left = 0 /\ NoCall.chunk = 0
  BY DEF NoCall, Calls

(* One more sector of the file. *)
LEMMA OneMore ==
  ASSUME SectorsInv, NEW a \in Int, a = Absolute(Going), Moving(a)
  PROVE  /\ moved' \in Moves /\ moved'.from = moved.from
         /\ moved.from + Len(moved'.sectors) = Going + 1
         /\ \A k \in 1 .. Len(moved'.sectors) : moved'.sectors[k] = Home(moved.from + k - 1)
<1> DEFINE s == moved.sectors
           e == Reallocated(a)
<1>1. moved.from \in Nat /\ s \in Seq(Places) /\ e \in Places
  BY DEF SectorsInv, Moves, Places
<1>2. moved' \in Moves /\ moved'.from = moved.from /\ moved'.sectors = Append(s, e)
  <2>1. moved' = [moved EXCEPT !.sectors = Append(s, e)]
    BY DEF Moving
  <2> HIDE DEF e
  <2>2. Append(s, e) \in Seq(Places)
    BY <1>1
  <2>3. moved \in Moves
    BY DEF SectorsInv
  <2> QED BY <2>1, <2>2, <2>3 DEF Moves
<1>3. e = Home(Going)
  BY HomeIs
<1>4. \A k \in 1 .. Len(s) : s[k] = Home(moved.from + k - 1)
  BY DEF SectorsInv
<1>5. Going = moved.from + Len(s)
  BY DEF Going
<1> HIDE DEF s, e
<1>6. /\ Len(Append(s, e)) = Len(s) + 1 /\ Append(s, e)[Len(s) + 1] = e
      /\ \A k \in 1 .. Len(s) : Append(s, e)[k] = s[k]
      /\ Len(s) \in Nat
  BY <1>1
<1>7. ASSUME NEW k \in 1 .. Len(s) + 1
      PROVE  Append(s, e)[k] = Home(moved.from + k - 1)
  <2>1. CASE k = Len(s) + 1
    <3>1. moved.from + k - 1 = Going
      BY <1>1, <1>5, <1>6, <2>1
    <3> QED BY <1>3, <1>6, <2>1, <3>1
  <2>2. CASE k # Len(s) + 1
    <3>1. k \in 1 .. Len(s)
      BY <1>6, <2>2
    <3> QED BY <1>4, <1>6, <3>1
  <2> QED BY <2>1, <2>2
<1>8. moved.from + (Len(s) + 1) = Going + 1
  BY <1>1, <1>5, <1>6
<1> QED BY <1>2, <1>6, <1>7, <1>8

LEMMA SectorsInvInit == SectorsInit => SectorsInv
<1> SUFFICES ASSUME SectorsInit PROVE SectorsInv
  OBVIOUS
<1>1. PICK n \in 1 .. MaxLength : file \in [1 .. n -> Block] /\ IsInjective(file)
  BY DEF SectorsInit
<1>2. n \in Nat /\ MaxLength \in Nat
  BY CardSectorsAssumption DEF CardSectorsAssumption
<1>3. file \in Seq(Block) /\ Len(file) = n
  BY <1>1, <1>2
<1>4. \A j, k \in 1 .. Len(file) : file[j] = file[k] => j = k
  BY <1>1, <1>3 DEF IsInjective
<1>5. FileInv
  BY <1>3, <1>4 DEF FileInv
<1>6. Sectors \in Nat
  BY <1>5, FileFacts
<1>7. moved \in Moves /\ moved.from = 0 /\ moved.sectors = <<>>
  BY DEF SectorsInit, Nothing, Moves
<1>8. Len(moved.sectors) = 0
  BY <1>7
<1> QED BY <1>5, <1>6, <1>7, <1>8, NoCallIs DEF SectorsInit, SectorsInv, SyncInv, AsyncInv, Going

(* What the steps use of it. *)
LEMMA SectorsFacts ==
  ASSUME SectorsInv
  PROVE  /\ S \in Nat /\ S > 1 /\ Sectors \in Nat /\ Going \in Nat /\ offset \in Nat
         /\ call.start \in Nat /\ call.left \in Nat /\ call.chunk \in Nat /\ call.at \in Int
         /\ call.kind \in {"none", "sync", "read", "write"}
         /\ moved.from \in Nat /\ Len(moved.sectors) \in Nat
         /\ \A i \in Nat : i < Sectors => Absolute(i) \in Int
<1>1. S \in Nat /\ S > 1 /\ Sectors \in Nat
  BY FileFacts DEF SectorsInv
<1>2. \A i \in Nat : i < Sectors => Absolute(i) \in Int
  <2> SUFFICES ASSUME NEW i \in Nat, i < Sectors PROVE Absolute(i) \in Int
    OBVIOUS
  <2>1. (i % S) \in Nat
    BY <1>1, Dividing
  <2>3. file[i \div S + 1] \in Nat
    BY FileFacts DEF SectorsInv
  <2> DEFINE b == file[i \div S + 1]
             r == i % S
  <2> HIDE DEF b, r
  <2>2. b * S + r + S \in Int
    BY <1>1, <2>1, <2>3 DEF b, r
  <2> QED BY <2>2 DEF Absolute, b, r
<1>3. moved.from \in Nat /\ Len(moved.sectors) \in Nat
  BY DEF SectorsInv, Moves
<1> QED BY <1>1, <1>2, <1>3 DEF SectorsInv, Calls, Going

LEMMA BeginKeeps ==
  ASSUME SectorsInv, OnlySafe, NEW kind \in {"sync", "read", "write"},
         NEW n \in 0 .. MaxLength * S, Begin(kind, n)
  PROVE  SectorsInv'
<1>1. n \in Nat
  BY CardSectorsAssumption DEF CardSectorsAssumption
<1>2. call.kind = "none" /\ offset \in Nat /\ offset + n =< Sectors
  BY NoCallIs, SectorsFacts DEF Begin, Sectors
<1>3. moved' = [from |-> offset, sectors |-> <<>>]
  BY DEF Begin, Nothing
<1>4. moved' \in Moves /\ moved'.from = offset /\ Len(moved'.sectors) = 0
  BY <1>2, <1>3 DEF Moves
<1>5. /\ call' \in Calls /\ call'.kind = kind /\ call'.start = offset /\ call'.left = n
      /\ call'.chunk = 0
  <2>1. call' = [kind |-> kind, start |-> offset, left |-> n, at |-> 0, chunk |-> 0]
    BY DEF Begin, NoCall
  <2> QED BY <1>1, <1>2, <2>1 DEF Calls
<1>6. UNCHANGED <<file, offset>> /\ Safe(kind, offset, n)
  BY DEF Begin
<1>7. FileInv' /\ Sectors' = Sectors
  BY <1>6 DEF FileInv, Sectors, SectorsInv
<1>8. Going' = offset
  BY <1>2, <1>4 DEF Going
<1>9. SyncInv'
  BY <1>4, <1>5, <1>6, <1>8 DEF SyncInv, Safe, Fits
<1>10. AsyncInv'
  BY <1>2, <1>5, <1>6, <1>8 DEF AsyncInv, Safe
<1> QED BY <1>1, <1>2, <1>4, <1>5, <1>6, <1>7, <1>9, <1>10 DEF SectorsInv

LEMMA NextChunkKeeps == SectorsInv /\ NextChunk => SectorsInv'
<1> SUFFICES ASSUME SectorsInv, NextChunk PROVE SectorsInv'
  OBVIOUS
<1>1. UNCHANGED <<file, offset, moved>>
  BY DEF NextChunk
<1>2. FileInv' /\ Sectors' = Sectors /\ Going' = Going
  BY <1>1 DEF FileInv, Sectors, Going, SectorsInv
<1> DEFINE c == ChunkOf(call)
           a == buRelativeToAbsoluteSector(file[1], call.start)
<1>3. /\ call.kind = "sync" /\ call.chunk = 0 /\ call.left \in Nat \ {0}
      /\ call.start \in Nat /\ call.start < Sectors /\ Fits(call.start, call.left)
  BY SectorsFacts DEF NextChunk, SectorsInv, SyncInv
<1>4. c \in 1 .. call.left /\ c =< S /\ call.start % S # S - 1
  BY <1>3, ChunkFits DEF SectorsInv, ChunkOf
<1>5. a = Absolute(call.start) /\ a \in Int
  BY <1>3, <1>4, LookedUp, SectorsFacts DEF SectorsInv
<1>6. call' = [call EXCEPT !.at = a, !.chunk = c]
  BY DEF NextChunk, ChunkOf
<1> HIDE DEF a
<1>7. call.left \in Nat /\ c \in Nat /\ c > 0 /\ c =< call.left
  BY <1>3, <1>4
<1> HIDE DEF c
<1>8. /\ call' \in Calls /\ call'.kind = "sync" /\ call'.start = call.start
      /\ call'.left = call.left /\ call'.chunk = c /\ call'.at = a
  BY <1>3, <1>5, <1>6, <1>7 DEF SectorsInv, Calls
<1>9. ChunkOf(call') = c
  BY <1>8 DEF ChunkOf, c
<1>10. call.start = Going
  BY <1>3 DEF SectorsInv, SyncInv
<1>11. Absolute(call.start)' = Absolute(call.start)
  BY <1>1, <1>8 DEF Absolute
<1>12. SyncInv'
  <2>1. call'.start + c - c = Going'
    BY <1>2, <1>3, <1>7, <1>8, <1>10
  <2>2. call'.at = Absolute(call.start) + c - c
    BY <1>5, <1>7, <1>8
  <2>3. offset' = moved'.from
    BY <1>1, <1>3 DEF SectorsInv, SyncInv
  <2> QED BY <1>3, <1>7, <1>8, <1>9, <1>11, <2>1, <2>2, <2>3 DEF SyncInv
<1>13. AsyncInv'
  BY <1>8 DEF AsyncInv
<1>14. \A k : Home(moved.from + k - 1)' = Home(moved.from + k - 1)
  BY <1>1 DEF Home
<1> QED BY <1>1, <1>2, <1>8, <1>12, <1>13, <1>14 DEF SectorsInv

(* The sector a chunk moves next is the file's next one. *)
LEMMA ChunkIsNext ==
  ASSUME SectorsInv, call.chunk > 0
  PROVE  /\ call.kind = "sync" /\ call.left \in Nat \ {0}
         /\ call.start < Sectors /\ Fits(call.start, call.left)
         /\ ChunkOf(call) \in 1 .. call.left /\ call.chunk =< ChunkOf(call)
         /\ call.start + ChunkOf(call) - call.chunk = Going
         /\ call.at = Absolute(Going)
         /\ ChunkOf(call) < call.left =>
              Fits(call.start + ChunkOf(call), call.left - ChunkOf(call))
<1> DEFINE c == ChunkOf(call)
<1>1. /\ call.kind = "sync" /\ call.left \in Nat \ {0} /\ call.start \in Nat
      /\ call.start < Sectors /\ Fits(call.start, call.left)
  BY SectorsFacts DEF SectorsInv, SyncInv, AsyncInv
<1>2. /\ c \in 1 .. call.left
      /\ \A j \in 0 .. c - 1 : Absolute(call.start + j) = Absolute(call.start) + j
      /\ c < call.left => Fits(call.start + c, call.left - c)
  BY <1>1, ChunkFits DEF SectorsInv, ChunkOf
<1>3. /\ call.chunk =< c /\ call.start + c - call.chunk = Going
      /\ call.at = Absolute(call.start) + c - call.chunk
  BY <1>1 DEF SectorsInv, SyncInv
<1> HIDE DEF c
<1> DEFINE j == c - call.chunk
<1>4. j \in 0 .. c - 1 /\ call.start + j = Going /\ Absolute(call.start) \in Int
  <2>1. c \in Nat /\ call.chunk \in Nat /\ call.chunk > 0 /\ call.start \in Nat
    BY <1>1, <1>2, SectorsFacts
  <2>2. call.chunk =< c /\ call.start + c - call.chunk = Going
    BY <1>3
  <2>3. j \in 0 .. c - 1 /\ call.start + j = Going
    BY <2>1, <2>2
  <2>4. Absolute(call.start) \in Int
    BY <1>1, SectorsFacts
  <2> QED BY <2>3, <2>4
<1>5. call.at = Absolute(call.start) + j
  BY <1>2, <1>3, <1>4, SectorsFacts
<1>6. call.at = Absolute(Going)
  BY <1>2, <1>4, <1>5
<1> QED BY <1>1, <1>2, <1>3, <1>6 DEF c

LEMMA MoveSectorKeeps == SectorsInv /\ MoveSector => SectorsInv'
<1> SUFFICES ASSUME SectorsInv, MoveSector PROVE SectorsInv'
  OBVIOUS
<1> DEFINE c == ChunkOf(call)
<1>1. UNCHANGED <<file, offset>> /\ call.chunk > 0 /\ Moving(call.at)
  BY DEF MoveSector
<1>2. FileInv' /\ Sectors' = Sectors
  BY <1>1 DEF FileInv, Sectors, SectorsInv
<1>3. /\ call.kind = "sync" /\ call.left \in Nat \ {0}
      /\ call.start < Sectors /\ Fits(call.start, call.left)
      /\ c \in 1 .. call.left /\ call.chunk =< c
      /\ call.start + c - call.chunk = Going
      /\ call.at = Absolute(Going)
      /\ c < call.left => Fits(call.start + c, call.left - c)
  BY <1>1, ChunkIsNext
<1>4. /\ moved' \in Moves /\ moved'.from = moved.from
      /\ moved.from + Len(moved'.sectors) = Going + 1
      /\ \A k \in 1 .. Len(moved'.sectors) : moved'.sectors[k] = Home(moved.from + k - 1)
  BY <1>1, <1>3, SectorsFacts, OneMore
<1>5. Going' = Going + 1
  BY <1>4 DEF Going
<1>6. \A k : Home(moved.from + k - 1)' = Home(moved.from + k - 1)
  BY <1>1, <1>4 DEF Home
<1>7. \A k \in 1 .. Len(moved'.sectors) : moved'.sectors[k] = Home(moved.from + k - 1)'
  BY <1>4, <1>6
<1>8. offset' = moved'.from
  BY <1>1, <1>3, <1>4 DEF SectorsInv, SyncInv
<1>9. moved.from =< Sectors /\ call.start + call.left =< Sectors
  BY DEF SectorsInv
<1>10. CASE call.chunk > 1
  <2>1. call' = [call EXCEPT !.at = @ + 1, !.chunk = @ - 1]
    BY <1>10 DEF MoveSector
  <2>2. call.at + 1 \in Int /\ call.chunk - 1 \in Nat
    BY <1>10, SectorsFacts
  <2>3. /\ call' \in Calls /\ call'.kind = "sync" /\ call'.start = call.start
        /\ call'.left = call.left /\ call'.chunk = call.chunk - 1 /\ call'.at = call.at + 1
    BY <1>3, <2>1, <2>2 DEF SectorsInv, Calls
  <2>4. ChunkOf(call') = c /\ Absolute(call.start)' = Absolute(call.start)
    BY <1>1, <2>3 DEF ChunkOf, Absolute
  <2>5. call.at = Absolute(call.start) + c - call.chunk
    BY <1>1, <1>3 DEF SectorsInv, SyncInv
  <2>6. Absolute(call.start) \in Int /\ c \in Nat
    BY <1>3, SectorsFacts
  <2> HIDE DEF c
  <2>7. /\ call'.chunk > 0 /\ call'.chunk =< c
        /\ call'.start + c - call'.chunk = Going'
        /\ call'.at = Absolute(call.start) + c - call'.chunk
    <3>1. call.chunk \in Nat /\ call.start \in Nat /\ call.at \in Int /\ Going \in Nat
      BY SectorsFacts
    <3>2. /\ call'.chunk = call.chunk - 1 /\ call'.at = call.at + 1 /\ call'.start = call.start
          /\ call.chunk > 1 /\ call.chunk =< c /\ Going' = Going + 1
      BY <1>3, <1>5, <1>10, <2>3
    <3>3. call.start + c - call.chunk = Going
      BY <1>3
    <3> DEFINE b == Absolute(call.start)
    <3>4. b \in Int /\ c \in Nat /\ call.at = b + c - call.chunk
      BY <2>5, <2>6
    <3> HIDE DEF b
    <3>5. call'.chunk > 0 /\ call'.chunk =< c
      BY <3>1, <3>2, <3>4
    <3>6. call'.start + c - call'.chunk = Going'
      BY <3>1, <3>2, <3>3, <3>4
    <3>7. call'.at = b + c - call'.chunk
      BY <3>1, <3>2, <3>4
    <3> QED BY <3>5, <3>6, <3>7 DEF b
  <2>8. SyncInv'
    BY <1>3, <1>8, <2>3, <2>4, <2>7 DEF SyncInv
  <2>9. AsyncInv'
    BY <2>3 DEF AsyncInv
  <2> QED BY <1>1, <1>2, <1>4, <1>7, <1>9, <2>3, <2>8, <2>9 DEF SectorsInv
<1>11. CASE ~(call.chunk > 1)
  <2>1. call.chunk = 1
    BY <1>1, <1>11, SectorsFacts
  <2>2. call' = [call EXCEPT !.chunk = 0, !.at = 0, !.start = @ + c, !.left = @ - c]
    BY <1>11 DEF MoveSector
  <2>3. c \in Nat /\ call.start + c \in Nat /\ call.left - c \in Nat
    BY <1>3, SectorsFacts, SMTT(30)
  <2> HIDE DEF c
  <2>4. /\ call' \in Calls /\ call'.kind = "sync" /\ call'.start = call.start + c
        /\ call'.left = call.left - c /\ call'.chunk = 0 /\ call'.at = 0
    <3> DEFINE s == call.start + c
               l == call.left - c
    <3>1. call' = [call EXCEPT !.chunk = 0, !.at = 0, !.start = s, !.left = l]
      BY <2>2
    <3>2. s \in Nat /\ l \in Nat /\ call \in Calls /\ call.kind = "sync"
      BY <1>3, <2>3 DEF SectorsInv
    <3> HIDE DEF s, l
    <3>3. /\ call' \in Calls /\ call'.kind = "sync" /\ call'.start = s /\ call'.left = l
          /\ call'.chunk = 0 /\ call'.at = 0
      <4> DEFINE d == [call EXCEPT !.chunk = 0, !.at = 0]
      <4>7. d \in Calls
        <5> DEFINE e == [call EXCEPT !.chunk = 0]
        <5>1. e \in Calls
          BY <3>2 DEF Calls
        <5>2. d = [e EXCEPT !.at = 0]
          OBVIOUS
        <5> HIDE DEF e, d
        <5> QED BY <5>1, <5>2 DEF Calls
      <4>8. call' = [d EXCEPT !.start = s, !.left = l]
        BY <3>1
      <4>1. call' \in Calls
        <5> HIDE DEF d
        <5> QED BY <3>2, <4>7, <4>8 DEF Calls
      <4>2. call'.kind = "sync"
        BY <3>1, <3>2 DEF Calls
      <4>3. call'.start = s
        BY <3>1, <3>2 DEF Calls
      <4>4. call'.left = l
        BY <3>1, <3>2 DEF Calls
      <4>5. call'.chunk = 0
        BY <3>1, <3>2 DEF Calls
      <4>6. call'.at = 0
        BY <3>1, <3>2 DEF Calls
      <4> QED BY <4>1, <4>2, <4>3, <4>4, <4>5, <4>6
    <3> QED BY <3>3 DEF s, l
  <2>5. call'.start = Going' /\ call'.start + call'.left =< Sectors
    BY <1>3, <1>5, <1>9, <2>1, <2>3, <2>4, SectorsFacts, SMTT(30)
  <2>6. call'.left > 0 => Fits(call'.start, call'.left)
    BY <1>3, <2>3, <2>4, SectorsFacts
  <2>7. SyncInv'
    BY <1>8, <2>4, <2>5, <2>6 DEF SyncInv
  <2>8. AsyncInv'
    BY <2>4 DEF AsyncInv
  <2> QED BY <1>1, <1>2, <1>4, <1>7, <1>9, <2>4, <2>5, <2>7, <2>8 DEF SectorsInv
<1> QED BY <1>10, <1>11

LEMMA MoveFailsKeeps == SectorsInv /\ MoveFails => SectorsInv'
<1> SUFFICES ASSUME SectorsInv, MoveFails PROVE SectorsInv'
  OBVIOUS
<1> DEFINE c == ChunkOf(call)
<1>1. file' = file /\ call.chunk > 0 /\ offset' = call.start /\ call' = NoCall
  BY DEF MoveFails, Counted
<1>2. FileInv' /\ Sectors' = Sectors
  BY <1>1 DEF FileInv, Sectors, SectorsInv
<1>3. /\ c \in 1 .. call.left /\ call.chunk =< c /\ call.left \in Nat
      /\ call.start + c - call.chunk = Going /\ call.at = Absolute(Going)
  BY <1>1, ChunkIsNext
<1>4. moved.from =< Sectors /\ call.start + call.left =< Sectors
  BY DEF SectorsInv
<1>5. call.start \in 0 .. Sectors /\ call.start =< Going
  <2> HIDE DEF c
  <2> QED BY <1>3, <1>4, SectorsFacts
<1>6. /\ moved' \in Moves /\ moved'.from = moved.from /\ Going' \in {Going, Going + 1}
      /\ \A k \in 1 .. Len(moved'.sectors) : moved'.sectors[k] = Home(moved.from + k - 1)
  <2>1. CASE UNCHANGED moved
    BY <2>1 DEF SectorsInv, Going
  <2>2. CASE Moving(call.at)
    BY <1>3, <2>2, SectorsFacts, OneMore DEF Going
  <2> QED BY <2>1, <2>2 DEF MoveFails
<1>7. \A k : Home(moved.from + k - 1)' = Home(moved.from + k - 1)
  BY <1>1, <1>6 DEF Home
<1>8. offset' \in 0 .. Sectors' /\ offset' =< Going'
  BY <1>1, <1>2, <1>5, <1>6, SectorsFacts
<1>9. SyncInv' /\ AsyncInv'
  BY <1>1, NoCallIs DEF SyncInv, AsyncInv
<1>10. call'.start + call'.left =< Sectors'
  BY <1>1, <1>2, NoCallIs, SectorsFacts
<1> QED BY <1>1, <1>2, <1>4, <1>6, <1>7, <1>8, <1>9, <1>10, NoCallIs DEF SectorsInv

(* A transfer over, with nothing more moved. *)
LEMMA OverKeeps ==
  ASSUME SectorsInv, call' = NoCall, UNCHANGED <<file, moved>>,
         offset' \in 0 .. Sectors, offset' =< Going
  PROVE  SectorsInv'
<1>1. FileInv' /\ Sectors' = Sectors /\ Going' = Going
  BY DEF FileInv, Sectors, Going, SectorsInv
<1>2. \A k : Home(moved.from + k - 1)' = Home(moved.from + k - 1)
  BY DEF Home
<1>3. SyncInv' /\ AsyncInv' /\ call'.start + call'.left =< Sectors'
  BY <1>1, NoCallIs, SectorsFacts DEF SyncInv, AsyncInv
<1> QED BY <1>1, <1>2, <1>3, NoCallIs DEF SectorsInv

LEMMA SyncDoneKeeps == SectorsInv /\ SyncDone => SectorsInv'
<1> SUFFICES ASSUME SectorsInv, SyncDone PROVE SectorsInv'
  OBVIOUS
<1>1. /\ offset' = call.start /\ call.start = Going /\ call.start + call.left =< Sectors
      /\ call' = NoCall /\ UNCHANGED <<file, moved>>
  BY DEF SyncDone, SectorsInv, SyncInv
<1>2. offset' \in 0 .. Sectors /\ offset' =< Going
  BY <1>1, SectorsFacts
<1> QED BY <1>1, <1>2, OverKeeps

LEMMA AsyncEndsKeeps == SectorsInv /\ AsyncEnds => SectorsInv'
<1> SUFFICES ASSUME SectorsInv, AsyncEnds PROVE SectorsInv'
  OBVIOUS
<1>1. /\ offset' = offset /\ offset =< Going /\ offset \in 0 .. Sectors
      /\ call' = NoCall /\ UNCHANGED <<file, moved>>
  BY DEF AsyncEnds, SectorsInv, AsyncInv
<1> QED BY <1>1, OverKeeps

LEMMA AsyncSectorKeeps == SectorsInv /\ AsyncSector => SectorsInv'
<1> SUFFICES ASSUME SectorsInv, AsyncSector PROVE SectorsInv'
  OBVIOUS
<1> DEFINE a == buRelativeToAbsoluteSector(file[1], call.start)
<1>1. file' = file /\ Moving(a) /\ call.kind \in {"read", "write"} /\ call.left > 0
  BY DEF AsyncSector
<1>2. FileInv' /\ Sectors' = Sectors
  BY <1>1 DEF FileInv, Sectors, SectorsInv
<1>3. /\ call.start = Going /\ call.chunk = 0 /\ offset =< call.start
      /\ \A i \in call.start .. call.start + call.left - 1 : i % S # S - 1
      /\ call.start + call.left =< Sectors /\ moved.from =< Sectors
  BY <1>1 DEF SectorsInv, AsyncInv
<1>4. call.start \in Nat /\ call.start < Sectors /\ call.start % S # S - 1
  BY <1>1, <1>3, SectorsFacts
<1>5. a = Absolute(Going) /\ a \in Int
  BY <1>3, <1>4, LookedUp, SectorsFacts DEF SectorsInv
<1> HIDE DEF a
<1>6. /\ moved' \in Moves /\ moved'.from = moved.from
      /\ moved.from + Len(moved'.sectors) = Going + 1
      /\ \A k \in 1 .. Len(moved'.sectors) : moved'.sectors[k] = Home(moved.from + k - 1)
  BY <1>1, <1>5, OneMore
<1>7. Going' = Going + 1
  BY <1>6 DEF Going
<1>8. \A k : Home(moved.from + k - 1)' = Home(moved.from + k - 1)
  BY <1>1, <1>6 DEF Home
<1>9. call.start + 1 \in Nat /\ call.left - 1 \in Nat
  BY <1>1, SectorsFacts
<1>10. /\ call' \in Calls /\ call'.kind = call.kind /\ call'.start = call.start + 1
       /\ call'.left = call.left - 1 /\ call'.chunk = call.chunk
  <2>1. call' = [call EXCEPT !.start = @ + 1, !.left = @ - 1]
    BY DEF AsyncSector
  <2>2. call \in Calls
    BY DEF SectorsInv
  <2> QED BY <1>9, <2>1, <2>2 DEF Calls
<1>11. offset' \in Nat /\ offset' =< offset + 1
  BY SectorsFacts DEF AsyncSector, Counts
<1>12. offset' \in 0 .. Sectors' /\ offset' =< call'.start /\ call'.start = Going'
       /\ call'.start + call'.left =< Sectors'
  <2>1. /\ call.start \in Nat /\ call.left \in Nat /\ offset \in Nat /\ Going \in Nat
        /\ Sectors \in Nat
    BY SectorsFacts
  <2>2. offset =< call.start /\ call.start + call.left =< Sectors /\ call.start = Going /\ call.left > 0
    BY <1>1, <1>3
  <2>3. call'.start = call.start + 1 /\ call'.left = call.left - 1
    BY <1>10
  <2>4. call'.start = Going' /\ call'.start + call'.left =< Sectors'
    BY <1>2, <1>7, <2>1, <2>2, <2>3
  <2>5. offset' =< call'.start /\ offset' \in 0 .. Sectors'
    BY <1>2, <1>11, <2>1, <2>2, <2>3
  <2> QED BY <2>4, <2>5
<1>13. \A i \in call'.start .. call'.start + call'.left - 1 : i % S # S - 1
  <2>1. call.start \in Nat /\ call.left \in Nat
    BY SectorsFacts
  <2>2. \A i \in call'.start .. call'.start + call'.left - 1 :
          i \in call.start .. call.start + call.left - 1
    BY <1>10, <2>1
  <2> QED BY <1>3, <2>2
<1>14. SyncInv' /\ AsyncInv'
  BY <1>1, <1>3, <1>10, <1>12, <1>13 DEF SyncInv, AsyncInv
<1> QED BY <1>1, <1>2, <1>3, <1>6, <1>8, <1>10, <1>12, <1>14 DEF SectorsInv

LEMMA SeekKeeps == SectorsInv /\ Seek => SectorsInv'
<1> SUFFICES ASSUME SectorsInv, Seek PROVE SectorsInv'
  OBVIOUS
<1>1. /\ UNCHANGED <<file, call>> /\ call = NoCall /\ offset' \in 0 .. Sectors
      /\ moved' = [from |-> offset', sectors |-> <<>>]
  BY DEF Seek, Sectors, Nothing
<1>2. FileInv' /\ Sectors' = Sectors
  BY <1>1 DEF FileInv, Sectors, SectorsInv
<1>3. moved' \in Moves /\ moved'.from = offset' /\ Len(moved'.sectors) = 0
  BY <1>1, SectorsFacts DEF Moves
<1>4. Going' = offset'
  <2>2. Sectors \in Nat
    BY SectorsFacts
  <2>3. offset' \in Nat
    BY <1>1, <2>2
  <2>4. \A x \in Nat : x + 0 = x
    OBVIOUS
  <2>1. offset' + 0 = offset'
    BY Zenon, <2>3, <2>4
  <2> QED BY <1>3, <2>1 DEF Going
<1>5. SyncInv' /\ AsyncInv'
  BY <1>1, NoCallIs DEF SyncInv, AsyncInv
<1>6. \A k \in 1 .. Len(moved'.sectors) : FALSE
  BY <1>3
<1>7. call'.start + call'.left =< Sectors' /\ offset' =< Going'
  BY <1>1, <1>2, <1>4, NoCallIs, SectorsFacts
<1>8. moved'.from =< Sectors' /\ offset' \in 0 .. Sectors'
  BY <1>1, <1>2, <1>3, SectorsFacts
<1> QED BY <1>1, <1>2, <1>3, <1>5, <1>6, <1>7, <1>8, NoCallIs DEF SectorsInv

LEMMA SectorsInvStep ==
  ASSUME OnlySafe, SectorsInv, [SectorsNext]_sectorVars
  PROVE  SectorsInv'
<1>1. ASSUME NEW kind \in {"sync", "read", "write"}, NEW n \in 0 .. MaxLength * S, Begin(kind, n)
      PROVE  SectorsInv'
  BY <1>1, BeginKeeps
<1>2. CASE UNCHANGED sectorVars
  <2>1. UNCHANGED <<file, offset, call, moved>>
    BY <1>2 DEF sectorVars
  <2>2. FileInv' /\ Sectors' = Sectors /\ Going' = Going
    BY <2>1 DEF FileInv, Sectors, Going, SectorsInv
  <2>3. /\ \A i : Absolute(i)' = Absolute(i) /\ Home(i)' = Home(i)
        /\ ChunkOf(call)' = ChunkOf(call)
    BY <2>1 DEF Absolute, Home, ChunkOf
  <2>4. SyncInv' /\ AsyncInv'
    BY <2>1, <2>2, <2>3 DEF SyncInv, AsyncInv, SectorsInv, Absolute
  <2> QED BY <2>1, <2>2, <2>3, <2>4 DEF SectorsInv, Home
<1> QED BY <1>1, <1>2, NextChunkKeeps, MoveSectorKeeps, MoveFailsKeeps, SyncDoneKeeps,
           AsyncSectorKeeps, AsyncEndsKeeps, SeekKeeps DEF SectorsNext

LEMMA SectorsInvMeans == SectorsInv => SectorsInPlace
<1> SUFFICES ASSUME SectorsInv PROVE SectorsInPlace
  OBVIOUS
<1>1. DOMAIN moved.sectors = 1 .. Len(moved.sectors)
  BY DEF SectorsInv, Moves
<1>2. InPlace
  BY <1>1 DEF SectorsInv, InPlace
<1>3. offset =< Going
  <2>1. CASE call.kind = "none"
    BY <2>1 DEF SectorsInv
  <2>2. CASE call.kind = "sync"
    BY <2>2, SectorsFacts DEF SectorsInv, SyncInv, Going
  <2>3. CASE call.kind \in {"read", "write"}
    BY <2>3 DEF SectorsInv, AsyncInv
  <2> QED BY <2>1, <2>2, <2>3, SectorsFacts
<1>4. CountedIsMoved
  BY <1>3, SectorsFacts DEF CountedIsMoved, Going
<1>5. call.chunk =< S
  <2>1. CASE call.chunk = 0
    BY <2>1, SectorsFacts
  <2>2. CASE call.chunk > 0
    <3>1. ChunkOf(call) =< S /\ ChunkOf(call) \in 1 .. call.left
      BY <2>2, ChunkIsNext, ChunkFits, SectorsFacts DEF SectorsInv, ChunkOf
    <3>2. call.chunk =< ChunkOf(call)
      BY <2>2, ChunkIsNext
    <3> DEFINE c == ChunkOf(call)
    <3>3. c \in Nat
      BY <3>1, SectorsFacts
    <3> HIDE DEF c
    <3> QED BY <3>1, <3>2, <3>3, SectorsFacts DEF c
  <2> QED BY <2>1, <2>2, SectorsFacts
<1>6. /\ call.start \in 0 .. Sectors /\ call.left \in 0 .. Sectors /\ moved.from \in 0 .. Sectors
      /\ call.chunk \in 0 .. S /\ file \in Seq(Block)
  BY <1>5, SectorsFacts DEF SectorsInv, FileInv
<1>7. SectorsTypeOK
  BY <1>6, SectorsFacts DEF SectorsTypeOK, Sectors, SectorsInv
<1> QED BY <1>2, <1>4, <1>7 DEF SectorsInPlace

(* Whatever the lengths of blocks and files, and wherever a file's blocks  *)
(* and replaced sectors are: what Safe allows is moved from and to the     *)
(* file's own sectors (device.c:207-222, 341-360, backupunit.c:322-338).   *)
THEOREM SectorsAreOwn ==
  ASSUME OnlySafe
  PROVE  SectorsSpec => []SectorsInPlace
<1>1. SectorsInit => SectorsInv
  BY SectorsInvInit
<1>2. SectorsInv /\ [SectorsNext]_sectorVars => SectorsInv'
  BY SectorsInvStep
<1>3. SectorsInv => SectorsInPlace
  BY SectorsInvMeans
<1> QED BY <1>1, <1>2, <1>3, PTL DEF SectorsSpec

-----------------------------------------------------------------------------
(* CdFiles *)

Known(d, g) == g \cup {d}   \* the discs that have been in the drive

FsRec == [table : Discs, hash : Hashes, mixed : BOOLEAN, fresh : BOOLEAN,
          cachedID : Dirs \cup {0}, entries : Discs \X (Dirs \cup {0}), found : Nat]
FileRec == [asked : Dirs \X NamesAsked, deviceId : Hashes, at : CdPlaces,
            offset : 0 .. FileLength, fresh : BOOLEAN, clean : BOOLEAN]
SearchRec == [active : BOOLEAN, pattern : Patterns \cup {{}}, dir : Dirs \cup {0},
              listed : Seq(CdPlaces), of : Discs \X (Dirs \cup {0}),
              over : BOOLEAN, alone : BOOLEAN, clean : BOOLEAN]

(* A fresh path table, its hash and the cached directory are of the disc   *)
(* in the drive; a stale hash that was read whole is of a disc that was    *)
(* taken out.                                                              *)
FsGood(s, d, g) ==
  /\ s \in FsRec /\ s.hash[1] \in Known(d, g)
  /\ s.fresh => s.table = d /\ s.hash[1] = d /\ (s.cachedID # 0 => s.entries = <<d, s.cachedID>>)
  /\ ~s.fresh /\ s.hash[2] = "whole" => s.hash[1] \in g
  /\ s.cachedID # 0 => s.entries[2] \in {0, s.cachedID}
  /\ s.entries[2] # 0 => s.entries[2] \in DOMAIN Listing[s.entries[1]]

(* A file that was found with certainty is the one asked for, and on the   *)
(* disc whose hash it has if that was fresh.                               *)
FileGood(x, d, g) ==
  /\ x \in FileRec /\ x.deviceId[1] \in Known(d, g)
  /\ x.clean => /\ x.at[1][2] = x.asked[1] /\ NameAt(x.at) = x.asked[2]
                /\ x.fresh => x.at[1][1] = x.deviceId[1]
  /\ ~x.fresh /\ x.deviceId[2] = "whole" => x.deviceId[1] \in g

InOrder(l, e) == \A i, j \in DOMAIN l : l[i][1] = e /\ (i < j => l[i][2] < l[j][2])
Ordered(q) == Certain(q) => InOrder(q.listed, q.of)

Matches(e, n, p) == {k \in 1 .. n : Entries(e)[k + 1] \in p}
Listed(q) == {q.listed[i][2] : i \in DOMAIN q.listed}

ListedAll(q) ==
  (Certain(q) /\ q.over) =>
    /\ Listed(q) = Matches(q.of, Len(Entries(q.of)) - 1, q.pattern)
    /\ Below[q.of[1]][q.of[2]] = {} => ~q.active

(* While it goes on, the cached directory is the search's own, or none.    *)
StillGoing(q, s, w) ==
  (q.active /\ Certain(q) /\ ~q.over) =>
    /\ q.dir = w
    /\ s.cachedID # 0 =>
         /\ s.cachedID = w /\ s.entries = q.of /\ q.of = <<s.table, w>>
         /\ s.found < Len(Entries(q.of))
         /\ Listed(q) = Matches(q.of, s.found, q.pattern)

SearchGood(q, s, w) == q \in SearchRec /\ Ordered(q) /\ ListedAll(q) /\ StillGoing(q, s, w)

DiscsInv ==
  /\ disc \in Discs /\ gone \subseteq Discs /\ shellOpen \in BOOLEAN /\ cwd \in Dirs
  /\ lost \in BOOLEAN
  /\ FsGood(cdFs, disc, gone)
  /\ DOMAIN cdFiles \subseteq CdSlots
  /\ \A f \in DOMAIN cdFiles : FileGood(cdFiles[f], disc, gone)
  /\ SearchGood(cdSearch, cdFs, cwd)

(* Directories are numbered from 1, and each disc has its root.            *)
LEMMA Directories ==
  /\ Dirs \subseteq Nat \ {0} /\ 1 \in Dirs
  /\ \A d \in Discs : /\ Listing[d] \in Seq(Seq(STRING))
                      /\ DOMAIN Listing[d] \subseteq Dirs
                      /\ \A i \in DOMAIN Listing[d] : Listing[d][i] \in Seq(STRING)
<1>1. \A d \in Discs : /\ Listing[d] \in Seq(Seq(STRING)) /\ Listing[d] # <<>>
                       /\ DOMAIN Listing[d] \subseteq Dirs
  BY DiscsAssumption DEF Dirs
<1>2. \A d \in Discs : DOMAIN Listing[d] = 1 .. Len(Listing[d]) /\ Len(Listing[d]) \in Nat \ {0}
  BY <1>1, EmptySeq, LenProperties
<1>3. \A d \in Discs : \A i \in DOMAIN Listing[d] : Listing[d][i] \in Seq(STRING)
  BY <1>1, <1>2, ElementOfSeq
<1>4. Dirs \subseteq Nat \ {0}
  BY <1>2 DEF Dirs
<1>5. FirstDisc \in Discs
  BY DiscsAssumption
<1>6. 1 \in DOMAIN Listing[FirstDisc]
  BY <1>2, <1>5
<1> QED BY <1>1, <1>3, <1>4, <1>5, <1>6

LEMMA EntriesOf ==
  ASSUME NEW e \in Discs \X (Dirs \cup {0}), e[2] # 0 => e[2] \in DOMAIN Listing[e[1]]
  PROVE  Entries(e) \in Seq(STRING) /\ Len(Entries(e)) \in Nat
<1>1. e[1] \in Discs
  OBVIOUS
<1>2. CASE e[2] = 0
  <2>1. Entries(e) = <<>>
    BY <1>2 DEF Entries
  <2> QED BY <2>1, EmptySeq
<1>3. CASE e[2] # 0
  <2>1. Entries(e) = Listing[e[1]][e[2]]
    BY <1>3 DEF Entries
  <2>2. Entries(e) \in Seq(STRING)
    BY <1>1, <1>3, <2>1, Directories
  <2> QED BY <2>2, LenProperties
<1> QED BY <1>2, <1>3

LEMMA NamesIn ==
  ASSUME NEW d, NEW g, NEW s, FsGood(s, d, g)
  PROVE  Entries(s.entries) \in Seq(STRING) /\ Len(Entries(s.entries)) \in Nat
<1>1. s.entries \in Discs \X (Dirs \cup {0})
  BY DEF FsGood, FsRec
<1>2. s.entries[2] # 0 => s.entries[2] \in DOMAIN Listing[s.entries[1]]
  BY DEF FsGood
<1> QED BY <1>1, <1>2, EntriesOf

(* What is kept when a path table is read, whole, not at all or in half    *)
(* (filesystem.c:67-104).                                                  *)
LEMMA TableIsRead ==
  ASSUME disc \in Discs, NEW s, FsGood(s, disc, gone), NEW t \in PathTableRead(s)
  PROVE  /\ FsGood(t.fs, disc, gone) /\ t.ok \in BOOLEAN
         /\ t.ok => /\ t.fs.table = disc /\ t.fs.hash = <<disc, "whole">> /\ t.fs.cachedID = 0
                    /\ t.fs.fresh
         /\ t.fs.found = s.found /\ t.fs.entries = s.entries
         /\ t.fs.cachedID # 0 => t.fs.cachedID = s.cachedID /\ t.fs.table = s.table
<1>0. s \in FsRec
  BY DEF FsGood
<1>1. CASE t = [ok |-> TRUE, fs |-> [s EXCEPT !.table = disc, !.hash = <<disc, "whole">>,
                                              !.mixed = @ \/ s.table # disc, !.fresh = TRUE,
                                              !.cachedID = 0]]
  <2> DEFINE b == s.mixed \/ s.table # disc
             u == [table |-> disc, hash |-> <<disc, "whole">>, mixed |-> b, fresh |-> TRUE,
                   cachedID |-> 0, entries |-> s.entries, found |-> s.found]
  <2>1. b \in BOOLEAN
    BY <1>0 DEF FsRec
  <2>2. t.ok /\ t.fs = u
    BY <1>0, <1>1 DEF FsRec
  <2> HIDE DEF b
  <2>3. /\ u.table = disc /\ u.hash = <<disc, "whole">> /\ u.cachedID = 0 /\ u.fresh
        /\ u.found = s.found /\ u.entries = s.entries /\ u \in FsRec
    BY <1>0, <2>1 DEF FsRec, Hashes
  <2> HIDE DEF u
  <2> QED BY <2>2, <2>3 DEF FsGood, Known
<1>2. CASE t = [ok |-> FALSE, fs |-> s]
  BY <1>2
<1>3. CASE t = [ok |-> FALSE, fs |-> [s EXCEPT !.hash = <<disc, "half">>]]
  <2> DEFINE u == [s EXCEPT !.hash = <<disc, "half">>]
  <2>1. /\ u.table = s.table /\ u.hash = <<disc, "half">> /\ u.cachedID = s.cachedID
        /\ u.fresh = s.fresh /\ u.found = s.found /\ u.entries = s.entries /\ u \in FsRec
    BY <1>0 DEF FsRec, Hashes
  <2>2. t.fs = u /\ t.ok = FALSE
    BY <1>3
  <2> HIDE DEF u
  <2>3. u.hash[1] = disc /\ u.hash[2] # "whole"
    BY <2>1
  <2>4. FsGood(u, disc, gone)
    BY <2>1, <2>3 DEF FsGood, Known
  <2> QED BY <2>1, <2>2, <2>4
<1> QED BY <1>1, <1>2, <1>3 DEF PathTableRead

(* The state of the file system with another directory or entry, whose     *)
(* path table is the same.                                                 *)
SameTable(t, s) ==
  t.table = s.table /\ t.hash = s.hash /\ t.mixed = s.mixed /\ t.fresh = s.fresh

(* A directory that is read becomes the cached one, and is of the disc in  *)
(* the drive while the path table is (filesystem.c:115-139).               *)
LEMMA DirectoryIsRead ==
  ASSUME disc \in Discs, NEW s, FsGood(s, disc, gone), NEW id \in DOMAIN Listing[s.table],
         NEW r \in DirectoryRead(s, id)
  PROVE  /\ FsGood(r.fs, disc, gone) /\ r.read \in BOOLEAN
         /\ SameTable(r.fs, s) /\ r.fs.found = s.found
         /\ r.read => r.fs.cachedID = id
         /\ s.cachedID = id => r.fs = s /\ r.read
<1>0. s \in FsRec /\ s.table \in Discs
  BY DEF FsGood, FsRec
<1>1. id \in Dirs /\ id # 0
  BY <1>0, Directories
<1>2. CASE r = [read |-> TRUE, fs |-> s] /\ s.cachedID = id
  BY <1>2 DEF SameTable
<1>3. CASE r = [read |-> FALSE, fs |-> s] /\ s.cachedID # id
  BY <1>3 DEF SameTable
<1>4. ASSUME s.cachedID # id, NEW e \in Discs \X (Dirs \cup {0}),
             (e = <<disc, id>> /\ id \in DOMAIN Listing[disc]) \/ (e = <<disc, 0>> /\ s.table # disc),
             r = [read |-> TRUE, fs |-> [s EXCEPT !.cachedID = id, !.entries = e]]
      PROVE  /\ FsGood(r.fs, disc, gone) /\ r.read = TRUE
             /\ SameTable(r.fs, s) /\ r.fs.found = s.found /\ r.fs.cachedID = id
  <2> DEFINE u == [s EXCEPT !.cachedID = id, !.entries = e]
  <2>1. /\ u.table = s.table /\ u.hash = s.hash /\ u.cachedID = id /\ u.mixed = s.mixed
        /\ u.fresh = s.fresh /\ u.found = s.found /\ u.entries = e /\ u \in FsRec
    BY <1>0, <1>1 DEF FsRec
  <2>2. e[2] \in {0, id} /\ (s.table = disc => e = <<disc, id>>)
        /\ (e[2] # 0 => e[2] \in DOMAIN Listing[e[1]])
    BY <1>1, <1>4
  <2>3. r.fs = u /\ r.read = TRUE
    BY <1>4
  <2> HIDE DEF u
  <2> QED BY <2>1, <2>2, <2>3 DEF FsGood, SameTable
<1>5. ASSUME s.cachedID # id
      PROVE  \/ r = [read |-> FALSE, fs |-> s]
             \/ \E e \in Discs \X (Dirs \cup {0}) :
                  /\ (e = <<disc, id>> /\ id \in DOMAIN Listing[disc]) \/ (e = <<disc, 0>> /\ s.table # disc)
                  /\ r = [read |-> TRUE, fs |-> [s EXCEPT !.cachedID = id, !.entries = e]]
  <2> DEFINE Become(e) == [read |-> TRUE, fs |-> [s EXCEPT !.cachedID = id, !.entries = e]]
  <2>1. \/ r = [read |-> FALSE, fs |-> s]
        \/ id \in DOMAIN Listing[disc] /\ r = Become(<<disc, id>>)
        \/ s.table # disc /\ r = Become(<<disc, 0>>)
    BY <1>5 DEF DirectoryRead
  <2>2. <<disc, id>> \in Discs \X (Dirs \cup {0}) /\ <<disc, 0>> \in Discs \X (Dirs \cup {0})
    BY <1>1
  <2> QED BY <2>1, <2>2
<1>6. CASE s.cachedID = id
  <2>1. r = [read |-> TRUE, fs |-> s]
    BY <1>6 DEF DirectoryRead
  <2> QED BY <1>2, <1>6, <2>1
<1>7. CASE s.cachedID # id
  BY <1>3, <1>4, <1>5, <1>7
<1> QED BY <1>6, <1>7

(* The entry found is moved to a place that may be.                        *)
LEMMA FoundMoves ==
  ASSUME NEW s, FsGood(s, disc, gone), NEW i \in Nat, NEW t, t = [s EXCEPT !.found = i]
  PROVE  /\ FsGood(t, disc, gone) /\ SameTable(t, s) /\ t.found = i
         /\ t.cachedID = s.cachedID /\ t.entries = s.entries
<1>1. s \in FsRec
  BY DEF FsGood
<1>2. /\ t \in FsRec /\ t.table = s.table /\ t.hash = s.hash /\ t.mixed = s.mixed
      /\ t.fresh = s.fresh /\ t.cachedID = s.cachedID /\ t.entries = s.entries /\ t.found = i
  BY <1>1 DEF FsRec
<1> QED BY <1>2 DEF FsGood, SameTable

(* Where the directory was looked through to its end and none is below it, *)
(* nothing is found behind the path (filesystem.c:185-228).                *)
LEMMA NothingBehind ==
  ASSUME disc \in Discs, NEW s, FsGood(s, disc, gone), NEW folder \in DOMAIN Listing[s.table],
         NEW from \in Nat, NEW x \in BehindThePath(s, from, folder)
  PROVE  /\ FsGood(x.fs, disc, gone) /\ SameTable(x.fs, s)
         /\ (x.how = "found" /\ s.cachedID = folder /\ Len(Entries(s.entries)) <= from)
              => Below[s.table][folder] # {}
<1>1. \A d \in {folder} \cup Below[s.table][folder] : d \in DOMAIN Listing[s.table]
  BY DiscsAssumption DEF FsGood, FsRec
<1>2. CASE x = [how |-> "none", fs |-> s] \/ x = [how |-> "lost", fs |-> s]
  BY <1>2 DEF SameTable
<1>3. ASSUME NEW d \in {folder} \cup Below[s.table][folder], NEW u \in DirectoryRead(s, d),
             x = [how |-> "none", fs |-> u.fs]
      PROVE  /\ FsGood(x.fs, disc, gone) /\ SameTable(x.fs, s) /\ x.how # "found"
  <2>1. FsGood(u.fs, disc, gone) /\ SameTable(u.fs, s)
    BY <1>1, DirectoryIsRead
  <2> QED BY <1>3, <2>1
<1>4. ASSUME NEW d \in {folder} \cup Below[s.table][folder], NEW u \in DirectoryRead(s, d),
             NEW i \in from .. Len(Entries(u.fs.entries)) - 1,
             x = [how |-> "found", fs |-> [u.fs EXCEPT !.found = i]]
      PROVE  /\ FsGood(x.fs, disc, gone) /\ SameTable(x.fs, s)
             /\ (s.cachedID = folder /\ Len(Entries(s.entries)) <= from)
                  => Below[s.table][folder] # {}
  <2>1. /\ FsGood(u.fs, disc, gone) /\ SameTable(u.fs, s)
        /\ s.cachedID = d => u.fs = s
    BY <1>1, DirectoryIsRead
  <2>2. Len(Entries(u.fs.entries)) \in Nat
    BY <2>1, NamesIn
  <2>3. i \in Nat
    BY <2>2
  <2>4. x.fs = [u.fs EXCEPT !.found = i]
    BY <1>4
  <2>5. FsGood(x.fs, disc, gone) /\ SameTable(x.fs, u.fs)
    BY <2>1, <2>3, <2>4, FoundMoves
  <2>6. ASSUME s.cachedID = folder, Len(Entries(s.entries)) <= from, Below[s.table][folder] = {}
        PROVE  FALSE
    <3>1. u.fs = s
      BY <2>1, <2>6
    <3> QED BY <2>2, <2>6, <3>1
  <2> QED BY <2>1, <2>5, <2>6 DEF SameTable
<1> QED BY <1>2, <1>3, <1>4 DEF BehindThePath

(* What a look for a name finds.  With certainty it is the first entry     *)
(* from id on that matches; or none does, and what is found all the same   *)
(* is in a directory below (filesystem.c:141-231).                         *)
FoundHere(x, s, id, folder, matching) ==
  /\ folder \in DOMAIN Listing[s.table]
  /\ x.fs.cachedID = folder /\ x.fs.entries[2] = folder /\ x.of = x.fs.entries
  /\ x.fs.found \in id .. Len(Entries(x.of)) - 1
  /\ Entries(x.of)[x.fs.found + 1] \in matching
  /\ \A j \in id .. x.fs.found - 1 : Entries(x.of)[j + 1] \notin matching
  /\ s.cachedID = folder => x.of = s.entries
NoneHere(x, s, id, folder, matching) ==
  /\ folder \in DOMAIN Listing[s.table]
  /\ s.fresh => x.of = <<disc, folder>>
  /\ \A j \in id .. Len(Entries(x.of)) - 1 : Entries(x.of)[j + 1] \notin matching
  /\ s.cachedID = folder => x.of = s.entries
  /\ x.how = "found" => Below[s.table][folder] # {}

ResultGood(x, s) ==
  /\ FsGood(x.fs, disc, gone) /\ SameTable(x.fs, s)
  /\ x.of \in Discs \X (Dirs \cup {0}) /\ (x.of[2] # 0 => x.of[2] \in DOMAIN Listing[x.of[1]])
  /\ x.over \in BOOLEAN /\ x.sure \in BOOLEAN

LEMMA SearchedIs ==
  ASSUME disc \in Discs, NEW s, FsGood(s, disc, gone), NEW id \in Nat,
         NEW folder \in DOMAIN Listing[s.table], NEW matching, NEW sure \in BOOLEAN,
         NEW r \in DirectoryRead(s, folder), NEW x \in Searched(r, id, folder, matching, sure)
  PROVE  /\ ResultGood(x, s) /\ (x.sure => sure)
         /\ (x.sure /\ ~x.over) => x.how = "found" /\ FoundHere(x, s, id, folder, matching)
         /\ (x.sure /\ x.over) => NoneHere(x, s, id, folder, matching)
<1> DEFINE names == Entries(r.fs.entries)
           hits == {i \in id .. Len(names) - 1 : names[i + 1] \in matching}
           first == CHOOSE i \in hits : \A j \in hits : i <= j
           from == IF id < Len(names) THEN Len(names) ELSE id
           Is(how, fs, over) == [how |-> how, fs |-> fs, of |-> r.fs.entries, over |-> over,
                                 sure |-> sure /\ r.read]
<1>1. /\ FsGood(r.fs, disc, gone) /\ r.read \in BOOLEAN
      /\ SameTable(r.fs, s) /\ r.fs.found = s.found
      /\ r.read => r.fs.cachedID = folder
      /\ s.cachedID = folder => r.fs = s
  BY DirectoryIsRead
<1>2. Len(names) \in Nat /\ r.fs \in FsRec
  BY <1>1, NamesIn DEF FsGood
<1>3. /\ r.fs.entries \in Discs \X (Dirs \cup {0}) /\ s.table \in Discs
      /\ r.fs.entries[2] # 0 => r.fs.entries[2] \in DOMAIN Listing[r.fs.entries[1]]
  BY <1>1 DEF FsGood, FsRec
<1>4. folder # 0 /\ folder \in Dirs
  BY <1>3, Directories
<1>5. CASE hits = {}
  <2>1. PICK y \in BehindThePath(r.fs, from, folder) : x = Is(y.how, y.fs, TRUE)
    BY <1>5 DEF Searched
  <2>2. from \in Nat /\ Len(names) <= from
    BY <1>2
  <2>3. folder \in DOMAIN Listing[r.fs.table]
    BY <1>1 DEF SameTable
  <2> HIDE DEF from, names
  <2>4. /\ FsGood(y.fs, disc, gone) /\ SameTable(y.fs, r.fs)
        /\ (y.how = "found" /\ r.fs.cachedID = folder /\ Len(Entries(r.fs.entries)) <= from)
             => Below[r.fs.table][folder] # {}
    BY <1>1, <2>1, <2>2, <2>3, NothingBehind
  <2>5. /\ x.how = y.how /\ x.fs = y.fs /\ x.of = r.fs.entries /\ x.over = TRUE
        /\ x.sure = (sure /\ r.read)
    BY <2>1
  <2>6. ResultGood(x, s)
    BY <1>1, <1>3, <2>4, <2>5 DEF ResultGood, SameTable
  <2>7. ASSUME x.sure PROVE NoneHere(x, s, id, folder, matching)
    <3>1. r.fs.cachedID = folder
      BY <1>1, <2>5, <2>7
    <3>2. s.fresh => x.of = <<disc, folder>>
      BY <1>1, <1>4, <2>5, <3>1 DEF FsGood, SameTable
    <3>3. \A j \in id .. Len(Entries(x.of)) - 1 : Entries(x.of)[j + 1] \notin matching
      BY <1>5, <2>5 DEF names
    <3>4. x.how = "found" => Below[s.table][folder] # {}
      BY <1>1, <2>2, <2>4, <2>5, <3>1 DEF SameTable, names
    <3> QED BY <1>1, <2>5, <3>2, <3>3, <3>4 DEF NoneHere
  <2> QED BY <2>5, <2>6, <2>7
<1>6. CASE hits # {}
  <2> DEFINE t == [r.fs EXCEPT !.found = first]
  <2>1. x = Is("found", t, FALSE)
    BY <1>6 DEF Searched
  <2>2. hits \subseteq Nat
    BY <1>2
  <2>3. first \in hits /\ \A j \in hits : first <= j
    <3> HIDE DEF hits
    <3> QED BY <1>6, <2>2, LeastExists
  <2>4. /\ first \in id .. Len(names) - 1 /\ names[first + 1] \in matching
        /\ \A j \in id .. first - 1 : names[j + 1] \notin matching
    <3> HIDE DEF first, names
    <3>1. first \in id .. Len(names) - 1 /\ names[first + 1] \in matching
      BY <2>3
    <3>2. ASSUME NEW j \in id .. first - 1 PROVE names[j + 1] \notin matching
      <4>1. j \in id .. Len(names) - 1 /\ ~ (first <= j)
        BY <1>2, <3>1
      <4> QED BY <2>3, <4>1
    <3> QED BY <3>1, <3>2
  <2> HIDE DEF hits, first
  <2>5. first \in Nat
    BY <1>2, <2>4
  <2>6. /\ FsGood(t, disc, gone) /\ SameTable(t, r.fs) /\ t.found = first
        /\ t.cachedID = r.fs.cachedID /\ t.entries = r.fs.entries
    BY <1>1, <2>5, FoundMoves
  <2>7. /\ x.how = "found" /\ x.fs = t /\ x.of = r.fs.entries /\ x.over = FALSE
        /\ x.sure = (sure /\ r.read)
    BY <2>1
  <2> HIDE DEF t, names
  <2>8. ResultGood(x, s)
    BY <1>1, <1>3, <2>6, <2>7 DEF ResultGood, SameTable
  <2>9. ASSUME x.sure PROVE FoundHere(x, s, id, folder, matching)
    <3>1. r.fs.cachedID = folder
      BY <1>1, <2>7, <2>9
    <3>2. Len(names) # 0
      BY <1>2, <2>4
    <3>3. r.fs.entries[2] = folder
      <4>1. CASE r.fs.entries[2] = 0
        BY <3>2, <4>1, EmptySeq DEF names, Entries
      <4> QED BY <1>1, <1>4, <3>1, <4>1 DEF FsGood
    <3>4. x.fs.found = first /\ x.fs.cachedID = folder /\ x.fs.entries = r.fs.entries
      BY <2>6, <2>7, <3>1
    <3> QED BY <1>1, <2>4, <2>7, <3>3, <3>4 DEF FoundHere, names
  <2> QED BY <2>7, <2>8, <2>9
<1> QED BY <1>5, <1>6

LEMMA FoundIs ==
  ASSUME disc \in Discs, NEW s, FsGood(s, disc, gone), NEW id \in Nat,
         NEW folder \in Dirs, NEW matching, NEW x \in Found(s, id, folder, matching)
  PROVE  /\ ResultGood(x, s)
         /\ (x.sure /\ x.how = "found" /\ ~x.over) => FoundHere(x, s, id, folder, matching)
         /\ (x.sure /\ x.over) => NoneHere(x, s, id, folder, matching)
<1> DEFINE sure == folder = 1 \/ ~s.mixed
<1>1. sure \in BOOLEAN /\ s \in FsRec
  BY DEF FsGood
<1> HIDE DEF sure
<1>2. PICK place \in IF sure THEN {folder} ELSE Dirs \cup {0} :
        IF place \notin DOMAIN Listing[s.table]
        THEN x = [how |-> "none", fs |-> s, of |-> s.entries, over |-> FALSE, sure |-> sure]
        ELSE \E r \in DirectoryRead(s, place) : x \in Searched(r, id, place, matching, sure)
  BY DEF Found, sure
<1>3. CASE place \notin DOMAIN Listing[s.table]
  <2>1. x = [how |-> "none", fs |-> s, of |-> s.entries, over |-> FALSE, sure |-> sure]
    BY <1>2, <1>3
  <2>2. x.how = "none" /\ x.fs = s /\ x.of = s.entries /\ x.over = FALSE /\ x.sure = sure
    BY <2>1
  <2>3. /\ s.entries \in Discs \X (Dirs \cup {0})
        /\ s.entries[2] # 0 => s.entries[2] \in DOMAIN Listing[s.entries[1]]
    BY DEF FsGood, FsRec
  <2> QED BY <1>1, <2>2, <2>3 DEF ResultGood, SameTable
<1>4. CASE place \in DOMAIN Listing[s.table]
  <2>1. PICK r \in DirectoryRead(s, place) : x \in Searched(r, id, place, matching, sure)
    BY <1>2, <1>4
  <2>2. /\ ResultGood(x, s) /\ (x.sure => sure)
        /\ (x.sure /\ ~x.over) => x.how = "found" /\ FoundHere(x, s, id, place, matching)
        /\ (x.sure /\ x.over) => NoneHere(x, s, id, place, matching)
    BY <1>1, <1>4, <2>1, SearchedIs
  <2>3. x.sure => place = folder
    BY <1>2, <2>2
  <2> QED BY <2>2, <2>3
<1> QED BY <1>3, <1>4

(* One more entry of the directory e, f, behind all that match up to n.    *)
OneMoreEntry(u, q, e, n, f) ==
  /\ e \in Discs \X (Dirs \cup {0}) /\ n \in Nat /\ f \in Nat
  /\ q.listed \in Seq(CdPlaces) /\ u.listed = Append(q.listed, <<e, f>>) /\ u.pattern = q.pattern
  /\ n < f /\ Entries(e)[f + 1] \in q.pattern
  /\ \A j \in n + 1 .. f - 1 : Entries(e)[j + 1] \notin q.pattern
  /\ Listed(q) = Matches(e, n, q.pattern) /\ InOrder(q.listed, e)

LEMMA OneMoreListed ==
  ASSUME NEW u, NEW q, NEW e, NEW n, NEW f, OneMoreEntry(u, q, e, n, f)
  PROVE  InOrder(u.listed, e) /\ Listed(u) = Matches(e, f, u.pattern)
<1> USE DEF OneMoreEntry
<1> DEFINE l == q.listed
           m == Len(l)
<1>1. l \in Seq(CdPlaces) /\ <<e, f>> \in CdPlaces
  BY DEF CdPlaces
<1>2. /\ m \in Nat /\ DOMAIN l = 1 .. m /\ DOMAIN u.listed = 1 .. m + 1
      /\ \A i \in 1 .. m : u.listed[i] = l[i]
      /\ u.listed[m + 1] = <<e, f>>
  <2>1. m \in Nat /\ DOMAIN l = 1 .. m
    BY <1>1, LenProperties
  <2>2. u.listed = Append(l, <<e, f>>)
    OBVIOUS
  <2> DEFINE x == <<e, f>>
  <2> HIDE DEF x, l
  <2>3. /\ u.listed \in Seq(CdPlaces) /\ Len(u.listed) = m + 1
        /\ \A i \in 1 .. m : u.listed[i] = l[i]
        /\ u.listed[m + 1] = x
    <3>1. x \in CdPlaces /\ u.listed = Append(l, x)
      BY <1>1, <2>2 DEF x, l
    <3>2. l \in Seq(CdPlaces)
      BY <1>1 DEF l
    <3> QED BY ONLY <3>1, <3>2, AppendProperties, SMTT(30) DEF m
  <2>4. DOMAIN u.listed = 1 .. m + 1
    BY <2>3, LenProperties
  <2> QED BY <2>1, <2>3, <2>4 DEF x
<1>3. \A i \in 1 .. m : l[i][1] = e /\ l[i][2] \in 1 .. n
  BY <1>2 DEF Listed, Matches, InOrder
<1> HIDE DEF l, m
<1>4. \A i \in 1 .. m + 1 : i \in 1 .. m \/ i = m + 1
  BY <1>2
<1>5. \A i \in DOMAIN u.listed : u.listed[i][1] = e
  BY <1>2, <1>3, <1>4
<1>6. InOrder(u.listed, e)
  <2> SUFFICES ASSUME NEW i \in 1 .. m + 1, NEW j \in 1 .. m + 1, i < j
               PROVE  u.listed[i][2] < u.listed[j][2]
    BY <1>2, <1>5 DEF InOrder
  <2>1. i \in 1 .. m
    BY <1>2
  <2>2. CASE j \in 1 .. m
    BY <1>2, <2>1, <2>2 DEF InOrder, l
  <2>3. CASE j = m + 1
    <3>1. u.listed[i][2] \in 1 .. n /\ u.listed[j][2] = f
      BY <1>2, <1>3, <2>1, <2>3
    <3>2. n \in Nat /\ f \in Nat /\ n < f
      OBVIOUS
    <3> QED BY ONLY <3>1, <3>2
  <2> QED BY <1>4, <2>2, <2>3
<1>7. Listed(u) = Listed(q) \cup {f}
  BY <1>2, <1>4 DEF Listed, l
<1>8. Matches(e, f, q.pattern) = Matches(e, n, q.pattern) \cup {f}
  <2>1. \A k \in 1 .. f : k \in 1 .. n \/ k \in n + 1 .. f - 1 \/ k = f
    OBVIOUS
  <2>2. f \in 1 .. f /\ \A k \in 1 .. n : k \in 1 .. f
    OBVIOUS
  <2> QED BY <2>1, <2>2 DEF Matches
<1> QED BY <1>6, <1>7, <1>8

(* No search is one that is not going on, whatever is read.                *)
LEMMA IdleIsGood ==
  ASSUME NEW s, NEW w
  PROVE  SearchGood(Idle, s, w)
<1>1. FirstDisc \in Discs /\ <<>> \in Seq(CdPlaces) /\ DOMAIN (<<>>) = {}
  BY DiscsAssumption, EmptySeq
<1>2. Idle \in SearchRec
  BY <1>1 DEF Idle, SearchRec
<1> QED BY <1>1, <1>2 DEF SearchGood, Ordered, InOrder, ListedAll, StillGoing, Idle

(* Of a search that something came between nothing more is claimed.        *)
LEMMA Uncertain ==
  ASSUME NEW q \in SearchRec, ~Certain(q), NEW s, NEW w
  PROVE  SearchGood(q, s, w)
BY DEF SearchGood, Ordered, ListedAll, StillGoing

(* What is known of a search before it advances: it begins, or goes on.    *)
Begins(q, s) == /\ q.listed = <<>> /\ ~q.over
                /\ s.fresh /\ s.table = disc /\ s.found = 0
GoesFrom(q, s) ==
  /\ q.dir = cwd /\ s.cachedID = cwd /\ s.entries = q.of /\ q.of = <<s.table, cwd>>
  /\ InOrder(q.listed, q.of) /\ s.found < Len(Entries(q.of))
  /\ Listed(q) = Matches(q.of, s.found, q.pattern)

(* An entry is listed, or the search is over (filesystem.c:332-343).       *)
LEMMA AdvanceKeeps ==
  ASSUME disc \in Discs, cwd \in Dirs, NEW s, FsGood(s, disc, gone),
         NEW q \in SearchRec, NEW first \in BOOLEAN,
         first => Begins(q, s),
         ~first => q.active /\ SearchGood(q, s, cwd),
         Advance(s, q, first)
  PROVE  FsGood(cdFs', disc, gone) /\ SearchGood(cdSearch', cdFs', cwd) /\ (lost' \in BOOLEAN \/ lost' = lost)
<1>0. cwd # 0 /\ s.found \in Nat /\ q.listed \in Seq(CdPlaces)
  BY Directories DEF FsGood, FsRec, SearchRec
<1>1. CASE ~first /\ s.cachedID # q.dir
  BY <1>1, IdleIsGood DEF Advance
<1>2. CASE first \/ s.cachedID = q.dir
  <2>1. PICK r \in Found(s, s.found + 1, cwd, q.pattern) :
          /\ cdFs' = r.fs
          /\ lost' = (r.how = "lost")
          /\ cdSearch' =
              [q EXCEPT !.active = (r.how = "found"),
                        !.dir = IF first THEN r.fs.cachedID ELSE @,
                        !.of = IF first THEN r.of ELSE @,
                        !.over = @ \/ r.over, !.clean = @ /\ r.sure,
                        !.listed = IF ~(q.alone /\ q.clean /\ r.sure) THEN <<>>
                                   ELSE IF r.how = "found" /\ ~r.over /\ ~q.over
                                   THEN Append(@, <<r.fs.entries, r.fs.found>>) ELSE @]
    BY <1>2 DEF Advance
  <2> DEFINE e == r.of
             f == r.fs.found
             n == s.found
             u == cdSearch'
             more == <<r.fs.entries, r.fs.found>>
  <2>2. /\ ResultGood(r, s)
        /\ (r.sure /\ r.how = "found" /\ ~r.over) => FoundHere(r, s, n + 1, cwd, q.pattern)
        /\ (r.sure /\ r.over) => NoneHere(r, s, n + 1, cwd, q.pattern)
    <3>1. n + 1 \in Nat
      BY <1>0
    <3> QED BY <3>1, FoundIs
  <2>3. /\ FsGood(r.fs, disc, gone) /\ r.fs \in FsRec /\ SameTable(r.fs, s)
        /\ e \in Discs \X (Dirs \cup {0}) /\ (e[2] # 0 => e[2] \in DOMAIN Listing[e[1]])
        /\ r.over \in BOOLEAN /\ r.sure \in BOOLEAN
    BY <2>2 DEF ResultGood, FsGood
  <2>4. /\ r.fs.cachedID \in Dirs \cup {0} /\ f \in Nat /\ more \in CdPlaces
        /\ Append(q.listed, more) \in Seq(CdPlaces) /\ <<>> \in Seq(CdPlaces)
    <3>1. r.fs.cachedID \in Dirs \cup {0} /\ f \in Nat /\ more \in CdPlaces
      BY <2>3 DEF FsRec, CdPlaces
    <3> QED BY <1>0, <3>1, AppendProperties, EmptySeq
  <2>5. /\ u \in SearchRec /\ u.active = (r.how = "found") /\ u.pattern = q.pattern
        /\ u.dir = (IF first THEN r.fs.cachedID ELSE q.dir)
        /\ u.of = (IF first THEN e ELSE q.of)
        /\ u.over = (q.over \/ r.over) /\ u.alone = q.alone /\ u.clean = (q.clean /\ r.sure)
        /\ u.listed = IF ~(q.alone /\ q.clean /\ r.sure) THEN <<>>
                      ELSE IF r.how = "found" /\ ~r.over /\ ~q.over
                      THEN Append(q.listed, more) ELSE q.listed
    <3> DEFINE folder == IF first THEN r.fs.cachedID ELSE q.dir
               of == IF first THEN e ELSE q.of
               found == r.how = "found"
               over == q.over \/ r.over
               clean == q.clean /\ r.sure
               listed == IF ~(q.alone /\ q.clean /\ r.sure) THEN <<>>
                         ELSE IF r.how = "found" /\ ~r.over /\ ~q.over
                         THEN Append(q.listed, more) ELSE q.listed
    <3>1. q = [active |-> q.active, pattern |-> q.pattern, dir |-> q.dir, listed |-> q.listed,
               of |-> q.of, over |-> q.over, alone |-> q.alone, clean |-> q.clean]
      BY DEF SearchRec
    <3>2. u = [active |-> found, pattern |-> q.pattern, dir |-> folder, listed |-> listed,
               of |-> of, over |-> over, alone |-> q.alone, clean |-> clean]
      BY <2>1, <3>1
    <3>3. /\ folder \in Dirs \cup {0} /\ of \in Discs \X (Dirs \cup {0}) /\ listed \in Seq(CdPlaces)
          /\ found \in BOOLEAN /\ over \in BOOLEAN /\ clean \in BOOLEAN
      BY <1>0, <2>3, <2>4 DEF SearchRec
    <3> HIDE DEF folder, of, found, over, clean, listed
    <3>4. u \in SearchRec
      BY <3>2, <3>3 DEF SearchRec
    <3>5. /\ u.active = found /\ u.pattern = q.pattern /\ u.dir = folder /\ u.of = of
          /\ u.over = over /\ u.alone = q.alone /\ u.clean = clean /\ u.listed = listed
      BY <3>2
    <3> QED BY <3>4, <3>5 DEF folder, of, found, over, clean, listed
  <2>6. ~first /\ Certain(q) /\ ~q.over => GoesFrom(q, s)
    <3>1. ~first => q.active /\ Ordered(q) /\ StillGoing(q, s, cwd)
      BY DEF SearchGood
    <3> QED BY <1>0, <1>2, <3>1 DEF Ordered, StillGoing, GoesFrom
  <2> HIDE DEF e, f, u, n, more
  <2>7. CASE ~Certain(u)
    BY <2>1, <2>3, <2>5, <2>7, Uncertain DEF u
  <2>8. CASE Certain(u)
    <3>1. Certain(q) /\ r.sure
      BY <2>5, <2>8 DEF Certain
    <3>2. CASE q.over
      <4>1. ~first /\ Ordered(q) /\ ListedAll(q) /\ q.active
        BY <3>2 DEF Begins, SearchGood
      <4>2. /\ u.of = q.of /\ u.listed = q.listed /\ u.over /\ u.pattern = q.pattern
        BY <2>5, <3>1, <3>2, <4>1 DEF Certain
      <4>3. Ordered(u) /\ ListedAll(u) /\ StillGoing(u, r.fs, cwd)
        BY <3>1, <3>2, <4>1, <4>2 DEF Ordered, ListedAll, Listed, StillGoing
      <4> QED BY <2>1, <2>3, <2>5, <4>3 DEF SearchGood, u
    <3>3. CASE ~q.over
      <4>1. InOrder(q.listed, u.of)
        <5>1. CASE first
          <6>1. DOMAIN q.listed = {}
            BY <5>1, EmptySeq DEF Begins
          <6> QED BY <6>1 DEF InOrder
        <5>2. CASE ~first
          BY <2>5, <2>6, <3>1, <3>3, <5>2 DEF GoesFrom
        <5> QED BY <5>1, <5>2
      <4>2. ASSUME e = u.of
            PROVE  Listed(q) = Matches(e, n, q.pattern)
        <5>1. CASE first
          <6>1. DOMAIN q.listed = {} /\ n = 0
            BY <5>1, EmptySeq DEF Begins, n
          <6> QED BY <6>1 DEF Listed, Matches
        <5>2. CASE ~first
          BY <2>5, <2>6, <3>1, <3>3, <4>2, <5>2 DEF GoesFrom, n
        <5> QED BY <5>1, <5>2
      <4>3. CASE r.how = "found" /\ ~r.over
        <5>1. FoundHere(r, s, n + 1, cwd, q.pattern)
          BY <2>2, <3>1, <4>3
        <5>2. /\ e = u.of /\ u.dir = cwd /\ e = r.fs.entries /\ r.fs.cachedID = cwd /\ e[2] = cwd
              /\ e = <<s.table, cwd>>
          <6>1. CASE first
            <7>1. r.fs.fresh /\ s.table = disc
              BY <2>3, <6>1 DEF SameTable, Begins
            <7> QED BY <1>0, <2>3, <2>5, <5>1, <6>1, <7>1 DEF FoundHere, FsGood, e
          <6>2. CASE ~first
            BY <2>5, <2>6, <3>1, <3>3, <5>1, <6>2 DEF FoundHere, GoesFrom, e
          <6> QED BY <6>1, <6>2
        <5>3. /\ u.listed = Append(q.listed, <<e, f>>) /\ ~u.over
          BY <2>5, <3>1, <3>3, <4>3, <5>2 DEF Certain, more, f
        <5>4. Len(Entries(e)) \in Nat
          BY <2>3, EntriesOf
        <5>5. /\ f \in n + 1 .. Len(Entries(e)) - 1 /\ Entries(e)[f + 1] \in q.pattern
              /\ \A j \in n + 1 .. f - 1 : Entries(e)[j + 1] \notin q.pattern
          BY <5>1 DEF FoundHere, e, f
        <5>6. n < f /\ f < Len(Entries(e)) /\ n \in Nat
          BY <1>0, <2>4, <5>4, <5>5 DEF n
        <5>7. OneMoreEntry(u, q, e, n, f)
          BY <1>0, <2>3, <2>4, <2>5, <4>1, <4>2, <5>2, <5>3, <5>5, <5>6 DEF OneMoreEntry
        <5>8. InOrder(u.listed, e) /\ Listed(u) = Matches(e, f, u.pattern)
          BY <5>7, OneMoreListed
        <5>9. r.fs.table = s.table
          BY <2>3 DEF SameTable
        <5>10. Ordered(u) /\ ListedAll(u) /\ StillGoing(u, r.fs, cwd)
          BY <5>2, <5>3, <5>6, <5>8, <5>9 DEF Ordered, ListedAll, StillGoing, f
        <5> QED BY <2>1, <2>3, <2>5, <5>10 DEF SearchGood, u
      <4>4. CASE r.over
        <5>1. NoneHere(r, s, n + 1, cwd, q.pattern)
          BY <2>2, <3>1, <4>4
        <5>2. e = u.of /\ e = <<s.table, cwd>>
          <6>1. CASE first
            BY <2>5, <5>1, <6>1 DEF NoneHere, Begins, e
          <6>2. CASE ~first
            BY <2>5, <2>6, <3>1, <3>3, <5>1, <6>2 DEF NoneHere, GoesFrom, e
          <6> QED BY <6>1, <6>2
        <5>3. /\ u.listed = q.listed /\ u.over /\ u.active = (r.how = "found")
              /\ u.pattern = q.pattern
          BY <2>5, <3>1, <4>4 DEF Certain
        <5> DEFINE m == Len(Entries(e))
        <5>4. m \in Nat /\ n \in Nat
          BY <1>0, <2>3, EntriesOf DEF n
        <5> HIDE DEF m
        <5>5. \A j \in n + 1 .. m - 1 : Entries(e)[j + 1] \notin q.pattern
          BY <5>1 DEF NoneHere, e, m
        <5>6. first => n = 0
          BY DEF Begins, n
        <5>7. n < m \/ (n = 0 /\ m = 0)
          <6>1. CASE first
            BY <5>4, <5>6, <6>1
          <6>2. CASE ~first
            BY <2>5, <2>6, <3>1, <3>3, <5>2, <6>2 DEF GoesFrom, n, m
          <6> QED BY <6>1, <6>2
        <5>8. Matches(e, m - 1, q.pattern) = Matches(e, n, q.pattern)
          <6>1. \A k \in 1 .. m - 1 : k \in 1 .. n \/ k \in n + 1 .. m - 1
            BY <5>4
          <6>2. \A k \in 1 .. n : k \in 1 .. m - 1
            BY <5>4, <5>7
          <6> QED BY <5>5, <6>1, <6>2 DEF Matches
        <5>9. Listed(u) = Matches(u.of, Len(Entries(u.of)) - 1, u.pattern)
          BY <4>2, <5>2, <5>3, <5>8 DEF Listed, m
        <5>10. u.active => Below[u.of[1]][u.of[2]] # {}
          <6>1. u.of[1] = s.table /\ u.of[2] = cwd
            BY <5>2
          <6>2. r.how = "found" => Below[s.table][cwd] # {}
            BY <5>1 DEF NoneHere
          <6> QED BY <5>3, <6>1, <6>2
        <5>11. Ordered(u) /\ ListedAll(u) /\ StillGoing(u, r.fs, cwd)
          BY <4>1, <5>3, <5>9, <5>10 DEF Ordered, ListedAll, StillGoing
        <5> QED BY <2>1, <2>3, <2>5, <5>11 DEF SearchGood, u
      <4>5. CASE r.how # "found" /\ ~r.over
        <5>1. u.listed = q.listed /\ ~u.active /\ ~u.over
          BY <2>3, <2>5, <3>1, <3>3, <4>5 DEF Certain
        <5>2. Ordered(u) /\ ListedAll(u) /\ StillGoing(u, r.fs, cwd)
          BY <4>1, <5>1 DEF Ordered, ListedAll, StillGoing
        <5> QED BY <2>1, <2>3, <2>5, <5>2 DEF SearchGood, u
      <4> QED BY <2>3, <4>3, <4>4, <4>5
    <3> QED BY <3>2, <3>3
  <2> QED BY <2>7, <2>8
<1> QED BY <1>1, <1>2

LEMMA DiscsInvInit == CdFilesInit => DiscsInv
<1> SUFFICES ASSUME CdFilesInit PROVE DiscsInv
  OBVIOUS
<1> USE DEF CdFilesInit
<1>1. disc \in Discs /\ gone \subseteq Discs /\ shellOpen \in BOOLEAN /\ cwd \in Dirs /\ lost \in BOOLEAN
  BY DiscsAssumption, Directories
<1>2. FsGood(cdFs, disc, gone)
  <2>1. cdFs \in FsRec
    BY <1>1 DEF FsRec, Hashes
  <2> QED BY <2>1 DEF FsGood, Known
<1>3. DOMAIN cdFiles = {}
  BY EmptySeq
<1>4. SearchGood(cdSearch, cdFs, cwd)
  BY IdleIsGood
<1> QED BY <1>1, <1>2, <1>3, <1>4 DEF DiscsInv

(* Reading no directory and changing none, a search is held up at most.    *)
LEMMA GoesOn ==
  ASSUME NEW q, NEW s, NEW w, SearchGood(q, s, w), NEW t,
         t.found = s.found, t.entries = s.entries,
         t.cachedID # 0 => t.cachedID = s.cachedID /\ t.table = s.table
  PROVE  SearchGood(q, t, w)
<1>1. q \in SearchRec /\ Ordered(q) /\ ListedAll(q) /\ StillGoing(q, s, w)
  BY DEF SearchGood
<1>2. StillGoing(q, t, w)
  BY <1>1 DEF StillGoing
<1> QED BY <1>1, <1>2 DEF SearchGood

(* What comes between takes a search's certainty, or finds it at its end.  *)
LEMMA DisturbedIsGood ==
  ASSUME NEW s, NEW w, SearchGood(cdSearch, s, w), NEW t, NEW v
  PROVE  SearchGood(Disturbed, t, v)
<1>1. cdSearch \in SearchRec /\ Ordered(cdSearch) /\ ListedAll(cdSearch)
  BY DEF SearchGood
<1>2. CASE cdSearch.active
  <2> DEFINE u == [cdSearch EXCEPT !.alone = FALSE, !.listed = <<>>]
  <2>1. <<>> \in Seq(CdPlaces)
    BY EmptySeq
  <2>2. u \in SearchRec /\ u.alone = FALSE
    BY <1>1, <2>1 DEF SearchRec
  <2>3. Disturbed = u
    BY <1>2 DEF Disturbed
  <2> HIDE DEF u
  <2> QED BY <2>2, <2>3, Uncertain DEF Certain
<1>3. CASE ~cdSearch.active
  BY <1>1, <1>3 DEF Disturbed, SearchGood, StillGoing
<1> QED BY <1>2, <1>3

(* The file that is opened is the one asked for, where the answer is       *)
(* certain (filesystem.c:233-263).                                         *)
LEMMA OpenedIsGood ==
  ASSUME disc \in Discs, NEW s, FsGood(s, disc, gone), NEW folder \in Dirs,
         NEW name \in NamesAsked, NEW r \in Found(s, 0, folder, {name}), r.how = "found"
  PROVE  FileGood(OpenedAt(r, folder, name), disc, gone)
<1> DEFINE x == OpenedAt(r, folder, name)
           clean == /\ r.sure
                    /\ \/ Below[r.fs.table][folder] = {}
                       \/ r.fs.fresh /\ \E i \in DOMAIN Listing[disc][folder] :
                                           Listing[disc][folder][i] = name
<1>1. /\ ResultGood(r, s)
      /\ (r.sure /\ ~r.over) => FoundHere(r, s, 0, folder, {name})
      /\ (r.sure /\ r.over) => NoneHere(r, s, 0, folder, {name})
  BY FoundIs
<1>2. FsGood(r.fs, disc, gone) /\ r.fs \in FsRec /\ SameTable(r.fs, s) /\ r.sure \in BOOLEAN
  BY <1>1 DEF ResultGood, FsGood
<1>3. /\ x.asked = <<folder, name>> /\ x.deviceId = r.fs.hash
      /\ x.at = <<r.fs.entries, r.fs.found>> /\ x.fresh = r.fs.fresh /\ x.clean = clean
  BY DEF OpenedAt
<1>4. x \in FileRec
  <2>1. clean \in BOOLEAN /\ r.fs.fresh \in BOOLEAN /\ 0 \in 0 .. FileLength
    BY <1>2, DiscsAssumption DEF FsRec
  <2>2. <<r.fs.entries, r.fs.found>> \in CdPlaces /\ r.fs.hash \in Hashes
    BY <1>2 DEF FsRec, CdPlaces
  <2>3. x = [asked |-> <<folder, name>>, deviceId |-> r.fs.hash,
             at |-> <<r.fs.entries, r.fs.found>>, offset |-> 0, fresh |-> r.fs.fresh,
             clean |-> clean]
    BY DEF OpenedAt
  <2> HIDE DEF clean, x
  <2> QED BY <2>1, <2>2, <2>3 DEF FileRec
<1>5. ASSUME clean
      PROVE  FoundHere(r, s, 0, folder, {name})
  <2>1. CASE r.over
    <3>1. NoneHere(r, s, 0, folder, {name})
      BY <1>1, <1>5, <2>1
    <3>2. Below[r.fs.table][folder] # {}
      BY <1>2, <3>1 DEF NoneHere, SameTable
    <3>3. PICK i \in DOMAIN Listing[disc][folder] : Listing[disc][folder][i] = name
      BY <1>5, <3>2
    <3>4. s.fresh
      BY <1>2, <1>5, <3>2 DEF SameTable
    <3>5. r.of = <<disc, folder>> /\ folder \in DOMAIN Listing[s.table] /\ s.table = disc
      BY <3>1, <3>4 DEF NoneHere, FsGood
    <3>6. Entries(r.of) = Listing[disc][folder] /\ Listing[disc][folder] \in Seq(STRING)
      BY <3>5, Directories DEF Entries
    <3>7. DOMAIN Listing[disc][folder] = 1 .. Len(Listing[disc][folder])
          /\ Len(Listing[disc][folder]) \in Nat
      BY <3>6, LenProperties
    <3>8. i - 1 \in 0 .. Len(Entries(r.of)) - 1 /\ (i - 1) + 1 = i
      BY <3>6, <3>7
    <3>9. Entries(r.of)[(i - 1) + 1] \notin {name}
      BY <3>1, <3>8 DEF NoneHere
    <3> QED BY <3>3, <3>6, <3>8, <3>9
  <2>2. CASE ~r.over
    BY <1>1, <1>5, <2>2
  <2> QED BY <2>1, <2>2
<1>6. ASSUME clean
      PROVE  /\ r.fs.entries[2] = folder /\ Entries(r.fs.entries)[r.fs.found + 1] = name
             /\ r.fs.fresh => r.fs.entries[1] = r.fs.hash[1]
  <2>1. FoundHere(r, s, 0, folder, {name})
    BY <1>5, <1>6
  <2>2. r.fs.cachedID = folder /\ folder # 0
    BY <2>1, Directories DEF FoundHere
  <2> QED BY <1>2, <2>1, <2>2 DEF FoundHere, FsGood
<1> HIDE DEF clean, x
<1>7. x.at[1] = r.fs.entries /\ x.at[2] = r.fs.found /\ x.asked[1] = folder /\ x.asked[2] = name
  BY <1>3
<1>8. NameAt(x.at) = Entries(r.fs.entries)[r.fs.found + 1]
  BY <1>7 DEF NameAt
<1>9. FileGood(x, disc, gone)
  BY <1>2, <1>3, <1>4, <1>6, <1>7, <1>8 DEF FileGood, FsGood
<1> QED BY <1>9 DEF x

LEMMA CdOpenKeeps ==
  ASSUME DiscsInv, NEW f \in CdSlots, NEW folder \in Dirs, NEW name \in NamesAsked,
         dev_cd_open(f, folder, name)
  PROVE  DiscsInv'
<1>1. /\ disc \in Discs /\ gone \subseteq Discs /\ shellOpen \in BOOLEAN /\ cwd \in Dirs
      /\ FsGood(cdFs, disc, gone) /\ SearchGood(cdSearch, cdFs, cwd) /\ lost \in BOOLEAN
      /\ DOMAIN cdFiles \subseteq CdSlots /\ \A g \in DOMAIN cdFiles : FileGood(cdFiles[g], disc, gone)
  BY DEF DiscsInv
<1>2. PICK t \in IF shellOpen THEN PathTableRead(cdFs) ELSE {[ok |-> TRUE, fs |-> cdFs]} :
        \/ ~t.ok /\ cdFs' = t.fs /\ UNCHANGED <<cdFiles, lost>>
        \/ /\ t.ok
           /\ \E r \in Found(t.fs, 0, folder, {name}) :
                /\ cdFs' = r.fs
                /\ lost' = (r.how = "lost")
                /\ cdFiles' = IF r.how = "found"
                              THEN [g \in DOMAIN cdFiles \cup {f} |->
                                      IF g = f THEN OpenedAt(r, folder, name) ELSE cdFiles[g]]
                              ELSE cdFiles
  BY DEF dev_cd_open
<1>3. UNCHANGED <<disc, gone, cwd>> /\ cdSearch' = Disturbed /\ shellOpen' = FALSE
  BY DEF dev_cd_open
<1>4. FsGood(t.fs, disc, gone)
  BY <1>1, <1>2, TableIsRead
<1>5. FsGood(cdFs', disc, gone) /\ DOMAIN cdFiles' \subseteq CdSlots /\ lost' \in BOOLEAN
      /\ \A g \in DOMAIN cdFiles' : FileGood(cdFiles'[g], disc, gone)
  <2>1. CASE UNCHANGED <<cdFiles, lost>> /\ cdFs' = t.fs
    BY <1>1, <1>4, <2>1
  <2>2. ASSUME NEW r \in Found(t.fs, 0, folder, {name}), cdFs' = r.fs, lost' = (r.how = "lost"),
               cdFiles' = IF r.how = "found"
                          THEN [g \in DOMAIN cdFiles \cup {f} |->
                                  IF g = f THEN OpenedAt(r, folder, name) ELSE cdFiles[g]]
                          ELSE cdFiles
        PROVE  /\ FsGood(cdFs', disc, gone) /\ DOMAIN cdFiles' \subseteq CdSlots /\ lost' \in BOOLEAN
               /\ \A g \in DOMAIN cdFiles' : FileGood(cdFiles'[g], disc, gone)
    <3> DEFINE x == OpenedAt(r, folder, name)
    <3>1. FsGood(r.fs, disc, gone)
      BY <1>1, <1>4, FoundIs DEF ResultGood
    <3>2. r.how = "found" => FileGood(x, disc, gone)
      BY <1>1, <1>4, OpenedIsGood
    <3>3. CASE r.how = "found"
      <4> HIDE DEF x
      <4> QED BY <1>1, <2>2, <3>1, <3>2, <3>3 DEF x
    <3>4. CASE r.how # "found"
      BY <1>1, <2>2, <3>1, <3>4
    <3> QED BY <3>3, <3>4
  <2> QED BY <1>2, <2>1, <2>2
<1>6. SearchGood(cdSearch', cdFs', cwd)
  BY <1>1, <1>3, DisturbedIsGood
<1> QED BY <1>1, <1>3, <1>5, <1>6 DEF DiscsInv

LEMMA CdCloseKeeps ==
  ASSUME DiscsInv, NEW f \in CdSlots, Close(f)
  PROVE  DiscsInv'
<1>1. /\ cdFiles' = [g \in DOMAIN cdFiles \ {f} |-> cdFiles[g]]
      /\ UNCHANGED <<disc, gone, shellOpen, cdFs, cwd, cdSearch, lost>>
  BY DEF Close, Restrict
<1>2. DOMAIN cdFiles' \subseteq DOMAIN cdFiles /\ \A g \in DOMAIN cdFiles' : cdFiles'[g] = cdFiles[g]
  BY <1>1
<1> QED BY <1>1, <1>2 DEF DiscsInv

(* A transfer is off the disc whose hash the file has, read whole in the   *)
(* same call while the lid was shut (filesystem.c:265-284).                *)
LEMMA CdReadKeeps ==
  ASSUME DiscsInv, NEW f \in CdSlots, NEW size \in 1 .. 2, dev_cd_read(f, size)
  PROVE  /\ DiscsInv' /\ DOMAIN cdFiles' = DOMAIN cdFiles
         /\ \A g \in DOMAIN cdFiles :
              \/ cdFiles'[g] = cdFiles[g]
              \/ cdFiles[g].deviceId = <<disc, "whole">> /\ cdFs'.table = disc /\ ~shellOpen
<1>0. /\ disc \in Discs /\ gone \subseteq Discs /\ FsGood(cdFs, disc, gone) /\ cwd \in Dirs
      /\ shellOpen \in BOOLEAN /\ lost \in BOOLEAN
      /\ SearchGood(cdSearch, cdFs, cwd) /\ f \in DOMAIN cdFiles
      /\ DOMAIN cdFiles \subseteq CdSlots /\ \A g \in DOMAIN cdFiles : FileGood(cdFiles[g], disc, gone)
      /\ UNCHANGED <<disc, gone, cwd, cdSearch, lost>>
  BY DEF DiscsInv, dev_cd_read
<1>1. CASE UNCHANGED <<cdFs, cdFiles>> /\ shellOpen' \in BOOLEAN
  BY <1>0, <1>1 DEF DiscsInv
<1>2. ASSUME NEW t \in PathTableRead(cdFs), cdFs' = t.fs, shellOpen' = FALSE
      PROVE  FsGood(cdFs', disc, gone) /\ SearchGood(cdSearch, cdFs', cwd)
  <2>1. /\ FsGood(t.fs, disc, gone)
        /\ t.fs.found = cdFs.found /\ t.fs.entries = cdFs.entries
        /\ t.fs.cachedID # 0 => t.fs.cachedID = cdFs.cachedID /\ t.fs.table = cdFs.table
    BY <1>0, TableIsRead
  <2> QED BY <1>0, <1>2, <2>1, GoesOn
<1>3. ASSUME NEW t \in PathTableRead(cdFs), cdFs' = t.fs, shellOpen' = FALSE, UNCHANGED cdFiles
      PROVE  DiscsInv'
  BY <1>0, <1>2, <1>3 DEF DiscsInv
<1>4. ASSUME NEW t \in PathTableRead(cdFs), cdFs' = t.fs, shellOpen' = FALSE, ~shellOpen,
             t.ok, t.fs.hash = cdFiles[f].deviceId, Deliver(f, size)
      PROVE  /\ DiscsInv' /\ DOMAIN cdFiles' = DOMAIN cdFiles
             /\ \A g \in DOMAIN cdFiles :
                  \/ cdFiles'[g] = cdFiles[g]
                  \/ cdFiles[g].deviceId = <<disc, "whole">> /\ cdFs'.table = disc /\ ~shellOpen
  <2> DEFINE x == cdFiles[f]
             past == x.offset + size
             n == IF FileLength < past THEN FileLength ELSE past
             y == [x EXCEPT !.offset = n]
  <2>1. t.fs.hash = <<disc, "whole">> /\ t.fs.table = disc
    BY <1>0, <1>4, TableIsRead
  <2>2. FileGood(x, disc, gone) /\ x \in FileRec
    BY <1>0 DEF FileGood
  <2>3. n \in 0 .. FileLength
    BY <2>2, DiscsAssumption DEF FileRec
  <2>4. cdFiles' = [cdFiles EXCEPT ![f] = y]
    BY <1>4 DEF Deliver
  <2>5. /\ y \in FileRec /\ y.asked = x.asked /\ y.deviceId = x.deviceId /\ y.at = x.at
        /\ y.fresh = x.fresh /\ y.clean = x.clean
    BY <2>2, <2>3 DEF FileRec
  <2> HIDE DEF n, y
  <2>6. FileGood(y, disc, gone)
    BY <2>2, <2>5 DEF FileGood
  <2>7. /\ DOMAIN cdFiles' = DOMAIN cdFiles
        /\ \A g \in DOMAIN cdFiles : cdFiles'[g] = IF g = f THEN y ELSE cdFiles[g]
    BY <1>0, <2>4
  <2>8. DiscsInv'
    BY <1>0, <1>2, <1>4, <2>6, <2>7 DEF DiscsInv
  <2> QED BY <1>4, <2>1, <2>7, <2>8
<1>5. \/ UNCHANGED <<cdFs, cdFiles>> /\ shellOpen' \in BOOLEAN
      \/ /\ shellOpen' = FALSE /\ ~shellOpen
         /\ \E t \in PathTableRead(cdFs) :
              /\ cdFs' = t.fs
              /\ \/ t.ok /\ t.fs.hash = cdFiles[f].deviceId /\ Deliver(f, size)
                 \/ UNCHANGED cdFiles
  BY <1>0 DEF dev_cd_read
<1> QED BY <1>1, <1>3, <1>4, <1>5

LEMMA CdFirstFileKeeps ==
  ASSUME DiscsInv, NEW p \in Patterns, dev_cd_firstFile(p)
  PROVE  DiscsInv'
<1>0. /\ disc \in Discs /\ gone \subseteq Discs /\ FsGood(cdFs, disc, gone) /\ cwd \in Dirs
      /\ shellOpen \in BOOLEAN /\ lost \in BOOLEAN
      /\ SearchGood(cdSearch, cdFs, cwd) /\ UNCHANGED <<disc, gone, cwd, cdFiles>>
  BY DEF DiscsInv, dev_cd_firstFile
<1> DEFINE q == [Idle EXCEPT !.pattern = p]
<1>1. q \in SearchRec /\ q.listed = <<>> /\ ~q.over
  BY EmptySeq, DiscsAssumption DEF Idle, SearchRec
<1> HIDE DEF q
<1>2. PICK t \in PathTableRead(cdFs) :
        \/ ~t.ok /\ cdFs' = t.fs /\ cdSearch' = Idle /\ UNCHANGED <<shellOpen, lost>>
        \/ /\ t.ok /\ shellOpen' = FALSE
           /\ LET s == [t.fs EXCEPT !.found = 0] IN
              \E u \in IF shellOpen THEN PathTableRead(s) ELSE {[ok |-> TRUE, fs |-> s]} :
                IF u.ok THEN Advance(u.fs, q, TRUE)
                        ELSE cdFs' = u.fs /\ cdSearch' = Idle /\ UNCHANGED lost
  BY DEF dev_cd_firstFile, q
<1>3. FsGood(t.fs, disc, gone) /\ (t.ok => t.fs.table = disc /\ t.fs.fresh)
  BY <1>0, TableIsRead
<1>4. CASE ~t.ok /\ cdFs' = t.fs /\ cdSearch' = Idle /\ UNCHANGED <<shellOpen, lost>>
  BY <1>0, <1>3, <1>4, IdleIsGood DEF DiscsInv
<1>5. CASE /\ t.ok /\ shellOpen' = FALSE
           /\ LET s == [t.fs EXCEPT !.found = 0] IN
              \E u \in IF shellOpen THEN PathTableRead(s) ELSE {[ok |-> TRUE, fs |-> s]} :
                IF u.ok THEN Advance(u.fs, q, TRUE)
                        ELSE cdFs' = u.fs /\ cdSearch' = Idle /\ UNCHANGED lost
  <2> DEFINE s == [t.fs EXCEPT !.found = 0]
  <2>1. FsGood(s, disc, gone) /\ SameTable(s, t.fs) /\ s.found = 0
    BY <1>3, FoundMoves
  <2>2. PICK u \in IF shellOpen THEN PathTableRead(s) ELSE {[ok |-> TRUE, fs |-> s]} :
          IF u.ok THEN Advance(u.fs, q, TRUE)
                  ELSE cdFs' = u.fs /\ cdSearch' = Idle /\ UNCHANGED lost
    BY <1>5
  <2> HIDE DEF s
  <2>3. /\ FsGood(u.fs, disc, gone) /\ u.fs.found = 0
        /\ u.ok => u.fs.table = disc /\ u.fs.fresh
    <3>1. CASE shellOpen
      BY <1>0, <2>1, <2>2, <3>1, TableIsRead
    <3>2. CASE ~shellOpen
      BY <1>3, <1>5, <2>1, <2>2, <3>2 DEF SameTable
    <3> QED BY <1>0, <3>1, <3>2
  <2>4. FsGood(cdFs', disc, gone) /\ SearchGood(cdSearch', cdFs', cwd) /\ lost' \in BOOLEAN
    <3>1. CASE u.ok
      <4>1. Advance(u.fs, q, TRUE)
        BY <2>2, <3>1
      <4>2. Begins(q, u.fs)
        BY <1>1, <2>3, <3>1 DEF Begins
      <4> QED BY <1>0, <1>1, <2>3, <4>1, <4>2, AdvanceKeeps
    <3>2. CASE ~u.ok
      BY <1>0, <2>2, <2>3, <3>2, IdleIsGood
    <3> QED BY <3>1, <3>2
  <2> QED BY <1>0, <1>5, <2>4 DEF DiscsInv
<1> QED BY <1>2, <1>4, <1>5

LEMMA CdNextFileKeeps ==
  ASSUME DiscsInv, dev_cd_nextFile
  PROVE  DiscsInv'
<1>0. /\ disc \in Discs /\ gone \subseteq Discs /\ FsGood(cdFs, disc, gone) /\ cwd \in Dirs
      /\ shellOpen \in BOOLEAN /\ lost \in BOOLEAN
      /\ SearchGood(cdSearch, cdFs, cwd) /\ cdSearch \in SearchRec
      /\ UNCHANGED <<disc, gone, cwd, cdFiles>> /\ cdSearch.active /\ shellOpen' = FALSE
  BY DEF DiscsInv, dev_cd_nextFile, SearchGood
<1>1. ASSUME NEW s, FsGood(s, disc, gone), SearchGood(cdSearch, s, cwd), Advance(s, cdSearch, FALSE)
      PROVE  FsGood(cdFs', disc, gone) /\ SearchGood(cdSearch', cdFs', cwd) /\ lost' \in BOOLEAN
  BY <1>0, <1>1, AdvanceKeeps
<1>2. FsGood(cdFs', disc, gone) /\ SearchGood(cdSearch', cdFs', cwd) /\ lost' \in BOOLEAN
  <2>1. CASE ~shellOpen
    BY <1>0, <1>1, <2>1 DEF dev_cd_nextFile
  <2>2. CASE shellOpen
    <3>1. PICK t \in PathTableRead(cdFs) :
            IF t.ok /\ t.fs.hash = cdFs.hash
            THEN Advance(t.fs, cdSearch, FALSE)
            ELSE /\ cdFs' = IF t.ok THEN [t.fs EXCEPT !.hash = cdFs.hash, !.fresh = FALSE]
                                    ELSE t.fs
                 /\ cdSearch' = Idle
                 /\ UNCHANGED lost
      BY <2>2 DEF dev_cd_nextFile
    <3>2. /\ FsGood(t.fs, disc, gone)
          /\ t.ok => t.fs.table = disc /\ t.fs.hash = <<disc, "whole">> /\ t.fs.cachedID = 0
          /\ t.fs.found = cdFs.found /\ t.fs.entries = cdFs.entries
          /\ t.fs.cachedID # 0 => t.fs.cachedID = cdFs.cachedID /\ t.fs.table = cdFs.table
      BY <1>0, TableIsRead
    <3>3. SearchGood(cdSearch, t.fs, cwd)
      BY <1>0, <3>2, GoesOn
    <3>4. CASE t.ok /\ t.fs.hash = cdFs.hash
      BY <1>1, <3>1, <3>2, <3>3, <3>4
    <3>5. CASE ~(t.ok /\ t.fs.hash = cdFs.hash)
      <4>1. SearchGood(cdSearch', cdFs', cwd) /\ lost' \in BOOLEAN
        BY <1>0, <3>1, <3>5, IdleIsGood
      <4>2. CASE ~t.ok
        BY <3>1, <3>2, <4>1, <4>2
      <4>3. CASE t.ok
        <5> DEFINE u == [t.fs EXCEPT !.hash = cdFs.hash, !.fresh = FALSE]
        <5>1. t.fs \in FsRec /\ cdFs.hash \in Hashes
          BY <1>0, <3>2 DEF FsGood, FsRec
        <5>2. /\ u \in FsRec /\ u.hash = cdFs.hash /\ u.table = t.fs.table /\ ~u.fresh
              /\ u.cachedID = 0 /\ u.entries = t.fs.entries /\ u.found = t.fs.found
          BY <3>2, <4>3, <5>1 DEF FsRec
        <5>3. cdFs' = u
          BY <3>1, <3>5, <4>3
        <5> HIDE DEF u
        <5>4. u.hash[2] = "whole" => u.hash[1] \in gone
          <6>1. cdFs.hash # <<disc, "whole">> /\ cdFs.hash[1] \in gone \cup {disc}
            BY <1>0, <3>2, <3>5, <4>3 DEF FsGood, Known
          <6> QED BY <5>1, <5>2, <6>1 DEF Hashes
        <5>5. FsGood(u, disc, gone)
          BY <1>0, <3>2, <5>2, <5>4 DEF FsGood
        <5> QED BY <4>1, <5>3, <5>5
      <4> QED BY <4>2, <4>3
    <3> QED BY <3>4, <3>5
  <2> QED BY <1>0, <2>1, <2>2
<1> QED BY <1>0, <1>2 DEF DiscsInv

LEMMA CdChdirKeeps ==
  ASSUME DiscsInv, NEW folder \in Dirs, dev_cd_chdir(folder)
  PROVE  DiscsInv'
<1>0. /\ disc \in Discs /\ FsGood(cdFs, disc, gone) /\ cwd' = folder
      /\ SearchGood(cdSearch, cdFs, cwd) /\ cdSearch' = Disturbed
      /\ UNCHANGED <<disc, gone, shellOpen, cdFiles, lost>>
  BY DEF DiscsInv, dev_cd_chdir
<1>1. PICK t \in PathTableRead(cdFs) : cdFs' = t.fs
  BY DEF dev_cd_chdir
<1>2. FsGood(cdFs', disc, gone)
  BY <1>0, <1>1, TableIsRead
<1>3. SearchGood(cdSearch', cdFs', folder)
  BY <1>0, DisturbedIsGood
<1> QED BY <1>0, <1>2, <1>3 DEF DiscsInv

(* Whatever disc comes in, one that was read is known to have gone.        *)
LEMMA SwapKeeps ==
  ASSUME DiscsInv, NEW d \in Discs, Swap(d)
  PROVE  DiscsInv'
<1>0. /\ disc \in Discs /\ gone \subseteq Discs /\ FsGood(cdFs, disc, gone)
      /\ SearchGood(cdSearch, cdFs, cwd) /\ cdFs \in FsRec
      /\ \A f \in DOMAIN cdFiles : FileGood(cdFiles[f], disc, gone)
      /\ disc' = d /\ gone' = (IF d = disc THEN gone ELSE gone \cup {disc})
      /\ cdFs' = [cdFs EXCEPT !.fresh = @ /\ d = disc]
      /\ shellOpen' = TRUE /\ UNCHANGED <<cwd, cdSearch, cdFiles, lost>>
  BY DEF DiscsInv, Swap, FsGood
<1> DEFINE b == cdFs.fresh /\ d = disc
           u == [cdFs EXCEPT !.fresh = b]
<1>1. /\ u \in FsRec /\ u.table = cdFs.table /\ u.hash = cdFs.hash /\ u.cachedID = cdFs.cachedID
      /\ u.entries = cdFs.entries /\ u.found = cdFs.found /\ u.fresh = b /\ cdFs' = u
  <2>1. b \in BOOLEAN
    BY <1>0 DEF FsRec
  <2>2. cdFs' = u
    BY <1>0
  <2> HIDE DEF b
  <2> QED BY <1>0, <2>1, <2>2 DEF FsRec
<1> HIDE DEF u
<1>2. SearchGood(cdSearch, u, cwd)
  BY <1>0, <1>1, GoesOn
<1>3. CASE d = disc
  BY <1>0, <1>1, <1>2, <1>3 DEF DiscsInv, FsGood
<1>4. CASE d # disc
  <2>1. gone' = Known(disc, gone) /\ Known(disc', gone') = Known(disc, gone) \cup {d}
    BY <1>0, <1>4 DEF Known
  <2>2. FsGood(u, d, gone')
    BY <1>0, <1>1, <1>4, <2>1 DEF FsGood
  <2>3. ASSUME NEW f \in DOMAIN cdFiles PROVE FileGood(cdFiles[f], d, gone')
    BY <1>0, <2>1 DEF FileGood, Known
  <2>4. gone' \subseteq Discs
    BY <1>0
  <2> QED BY <1>0, <1>1, <1>2, <2>2, <2>3, <2>4 DEF DiscsInv
<1> QED BY <1>3, <1>4

(* What a step does to the open files, beside what it keeps: it opens one, *)
(* closes one, moves on one of the disc in the drive, or none.             *)
LEMMA DiscsInvStep ==
  ASSUME DiscsInv, [CdFilesNext]_cdFileVars
  PROVE  /\ DiscsInv'
         /\ \A g \in DOMAIN cdFiles \cap DOMAIN cdFiles' :
              \/ cdFiles'[g] = cdFiles[g]
              \/ cdFiles[g].deviceId = <<disc, "whole">> /\ cdFs'.table = disc /\ ~shellOpen
<1>1. CASE \E f \in CdSlots, folder \in Dirs, n \in NamesAsked : dev_cd_open(f, folder, n)
  <2>1. PICK f \in CdSlots, folder \in Dirs, n \in NamesAsked : dev_cd_open(f, folder, n)
    BY <1>1
  <2>2. \A g \in DOMAIN cdFiles \cap DOMAIN cdFiles' : cdFiles'[g] = cdFiles[g]
    <3>1. \/ UNCHANGED cdFiles
          \/ \E x : cdFiles' = [g \in DOMAIN cdFiles \cup {f} |-> IF g = f THEN x ELSE cdFiles[g]]
      BY <2>1 DEF dev_cd_open
    <3>2. f \notin DOMAIN cdFiles
      BY <2>1 DEF dev_cd_open
    <3> QED BY <3>1, <3>2
  <2> QED BY <2>1, <2>2, CdOpenKeeps
<1>2. CASE \E f \in CdSlots : Close(f)
  <2>1. \A g \in DOMAIN cdFiles \cap DOMAIN cdFiles' : cdFiles'[g] = cdFiles[g]
    BY <1>2 DEF Close, Restrict
  <2> QED BY <1>2, <2>1, CdCloseKeeps
<1>3. CASE \E f \in CdSlots, size \in 1 .. 2 : dev_cd_read(f, size)
  BY <1>3, CdReadKeeps
<1>4. CASE \E p \in Patterns : dev_cd_firstFile(p)
  BY <1>4, CdFirstFileKeeps DEF dev_cd_firstFile
<1>5. CASE dev_cd_nextFile
  BY <1>5, CdNextFileKeeps DEF dev_cd_nextFile
<1>6. CASE \E folder \in Dirs : dev_cd_chdir(folder)
  BY <1>6, CdChdirKeeps DEF dev_cd_chdir
<1>7. CASE \E d \in Discs : Swap(d)
  BY <1>7, SwapKeeps DEF Swap
<1>8. CASE UNCHANGED cdFileVars
  BY <1>8 DEF cdFileVars, DiscsInv
<1> QED BY <1>1, <1>2, <1>3, <1>4, <1>5, <1>6, <1>7, <1>8 DEF CdFilesNext

LEMMA DiscsInvMeans == DiscsInv => DiscFilesAreFound
<1> SUFFICES ASSUME DiscsInv PROVE DiscFilesAreFound
  OBVIOUS
<1>1. /\ cdFs \in FsRec /\ cdSearch \in SearchRec /\ Ordered(cdSearch) /\ ListedAll(cdSearch)
      /\ \A f \in DOMAIN cdFiles : cdFiles[f] \in FileRec
  BY DEF DiscsInv, FsGood, SearchGood, FileGood
<1>2. CdFilesTypeOK
  <2>1. \A i \in DOMAIN cdSearch.listed : cdSearch.listed[i] \in CdPlaces
    BY <1>1, ElementOfSeq, LenProperties DEF SearchRec
  <2>2. \A f \in DOMAIN cdFiles :
          /\ cdFiles[f].deviceId \in Hashes /\ cdFiles[f].at \in CdPlaces
          /\ cdFiles[f].offset \in 0 .. FileLength
    BY <1>1 DEF FileRec
  <2> QED BY <1>1, <2>1, <2>2 DEF CdFilesTypeOK, DiscsInv, FsRec, SearchRec
<1>3. OpenFindsItsFile
  BY DEF OpenFindsItsFile, DiscsInv, FileGood
<1>4. DataIsTheFiles
  <2> SUFFICES ASSUME NEW f \in DOMAIN cdFiles, cdFiles[f].clean,
                      cdFiles[f].deviceId = <<disc, "whole">>
               PROVE  IF cdFiles[f].fresh
                      THEN /\ cdFiles[f].at[1] = <<disc, cdFiles[f].asked[1]>>
                           /\ NameAt(cdFiles[f].at) = cdFiles[f].asked[2]
                      ELSE disc \in gone
    BY DEF DataIsTheFiles
  <2> DEFINE x == cdFiles[f]
  <2>1. FileGood(x, disc, gone) /\ x.deviceId[1] = disc /\ x.deviceId[2] = "whole"
    BY DEF DiscsInv
  <2>2. x.at[1] = <<x.at[1][1], x.at[1][2]>>
    BY <2>1 DEF FileGood, FileRec, CdPlaces
  <2> HIDE DEF x
  <2>3. x.clean => /\ x.at[1][2] = x.asked[1] /\ NameAt(x.at) = x.asked[2]
                   /\ x.fresh => x.at[1][1] = x.deviceId[1]
    BY <2>1 DEF FileGood
  <2>4. ~x.fresh => disc \in gone
    BY <2>1 DEF FileGood
  <2> QED BY <2>1, <2>2, <2>3, <2>4 DEF x
<1>5. SearchInOrder
  BY <1>1 DEF SearchInOrder, Ordered, InOrder
<1>6. SearchListsAll
  BY <1>1 DEF SearchListsAll, ListedAll, Listed, Matches
<1> QED BY <1>2, <1>3, <1>4, <1>5, <1>6 DEF DiscFilesAreFound

(* Of any discs with any directories, exchanged and put back in any order, *)
(* whatever block fails and whatever lies behind a path, files opened and  *)
(* searches made with a certain answer are found, read and listed as asked.*)
THEOREM DiscFilesFound == CdFilesSpec => []DiscFilesAreFound
<1>1. CdFilesInit => DiscsInv
  BY DiscsInvInit
<1>2. DiscsInv /\ [CdFilesNext]_cdFileVars => DiscsInv'
  BY DiscsInvStep
<1>3. DiscsInv => DiscFilesAreFound
  BY DiscsInvMeans
<1> QED BY <1>1, <1>2, <1>3, PTL DEF CdFilesSpec

(* Whatever fails and whichever disc comes back: sectors are delivered     *)
(* only of a file that was found by the hash of the disc in the drive,     *)
(* the path table just read from it.                                       *)
THEOREM DiscChecked == CdFilesSpec => DiscIsChecked
<1> DEFINE Checked ==
      \A f \in DOMAIN cdFiles \cap DOMAIN cdFiles' : cdFiles'[f].offset > cdFiles[f].offset
        => /\ cdFiles[f].deviceId = <<disc, "whole">>
           /\ cdFs'.table = disc /\ ~shellOpen
<1>1. CdFilesInit => DiscsInv
  BY DiscsInvInit
<1>2. DiscsInv /\ [CdFilesNext]_cdFileVars => DiscsInv'
  BY DiscsInvStep
<1>3. DiscsInv /\ [CdFilesNext]_cdFileVars => [Checked]_cdFileVars
  <2> SUFFICES ASSUME DiscsInv, [CdFilesNext]_cdFileVars PROVE Checked
    OBVIOUS
  <2>1. \A f \in DOMAIN cdFiles : cdFiles[f].offset \in Nat
    BY DiscsAssumption DEF DiscsInv, FileGood, FileRec
  <2>2. ASSUME NEW f \in DOMAIN cdFiles \cap DOMAIN cdFiles',
               cdFiles'[f].offset > cdFiles[f].offset
        PROVE  cdFiles'[f] # cdFiles[f]
    BY <2>1, <2>2
  <2> QED BY <2>2, DiscsInvStep
<1> QED BY <1>1, <1>2, <1>3, PTL DEF CdFilesSpec, DiscIsChecked

-----------------------------------------------------------------------------
(* BackupUnit *)

(* A function may be defined by what each of its values makes of the last. *)
Iterated(f, A, a, g, N) ==
  f \in [0 .. N -> A] /\ f[0] = a /\ \A k \in 1 .. N : f[k] = g[k - 1][f[k - 1]]

LEMMA Iterates ==
  ASSUME NEW A, NEW a \in A, NEW g \in [Nat -> [A -> A]], NEW N \in Nat
  PROVE  \E f : Iterated(f, A, a, g, N)
<1> DEFINE Bad == {n \in Nat : \A f : ~Iterated(f, A, a, g, n)}
<1>1. Bad = {}
  <2> SUFFICES ASSUME Bad # {} PROVE FALSE
    OBVIOUS
  <2>1. PICK n \in Bad : \A m \in Bad : n =< m
    BY LeastExists
  <2>2. n \in Nat
    OBVIOUS
  <2>3. n # 0
    <3> DEFINE f == [i \in 0 .. 0 |-> a]
    <3>1. Iterated(f, A, a, g, 0)
      BY DEF Iterated
    <3> QED BY <2>1, <3>1
  <2>4. n - 1 \in Nat /\ ~(n =< n - 1)
    BY <2>2, <2>3
  <2>5. n - 1 \notin Bad
    <3> HIDE DEF Bad
    <3> QED BY <2>1, <2>4
  <2>6. PICK f : Iterated(f, A, a, g, n - 1)
    BY <2>4, <2>5
  <2> DEFINE h == [i \in 0 .. n |-> IF i = n THEN g[n - 1][f[n - 1]] ELSE f[i]]
  <2>7. f \in [0 .. n - 1 -> A] /\ f[0] = a /\ \A k \in 1 .. n - 1 : f[k] = g[k - 1][f[k - 1]]
    BY <2>6 DEF Iterated
  <2>8. g[n - 1][f[n - 1]] \in A
    BY <2>4, <2>7
  <2>9. h \in [0 .. n -> A] /\ h[0] = a
    BY <2>2, <2>3, <2>7, <2>8
  <2>10. ASSUME NEW k \in 1 .. n PROVE h[k] = g[k - 1][h[k - 1]]
    <3>1. k - 1 \in 0 .. n /\ k - 1 # n /\ (k # n => k \in 1 .. n - 1)
      BY <2>2
    <3>2. h[k - 1] = f[k - 1]
      BY <3>1
    <3>3. CASE k = n
      <4>1. h[n] = g[n - 1][f[n - 1]]
        BY <2>2
      <4> QED BY <3>2, <3>3, <4>1
    <3>4. CASE k # n
      BY <2>2, <2>7, <3>1, <3>2, <3>4
    <3> QED BY <3>3, <3>4
  <2>11. Iterated(h, A, a, g, n)
    <3> HIDE DEF h
    <3> QED BY <2>9, <2>10 DEF Iterated
  <2> QED BY <2>1, <2>11
<1> QED BY <1>1

LEMMA UnitFacts ==
  /\ BlockCount \in Nat /\ BlockCount >= 1
  /\ CardBlock \subseteq Nat /\ 0 \in CardBlock /\ NoBlock \notin CardBlock /\ NoBlock = -1
  /\ \A b : b \in CardBlock <=> b \in Nat /\ b < BlockCount
<1>1. BlockCount \in Nat /\ BlockCount >= 1
  BY BackupUnitAssumption DEF BackupUnitAssumption
<1>2. \A b : b \in CardBlock <=> b \in Nat /\ b < BlockCount
  BY <1>1 DEF CardBlock
<1>3. NoBlock = -1 /\ -1 \notin Nat
  BY DEF NoBlock
<1>4. 0 \in CardBlock /\ NoBlock \notin CardBlock /\ CardBlock \subseteq Nat
  BY <1>1, <1>2, <1>3
<1> QED BY <1>1, <1>2, <1>3, <1>4

(* The blocks behind b, in the order of their links.                       *)
Follows(e, b, f) ==
  /\ f \in [0 .. e[b].size -> CardBlock \cup {NoBlock}]
  /\ f[0] = b
  /\ \A k \in 1 .. e[b].size : f[k] = IF f[k - 1] = NoBlock THEN NoBlock ELSE e[f[k - 1]].next

LEMMA RestUnfolds ==
  ASSUME NEW e \in DirEntries, NEW b \in CardBlock
  PROVE  \E f : Follows(e, b, f) /\ Rest(e, b) = {f[k] : k \in 1 .. e[b].size - 1} \ {NoBlock}
<1> DEFINE A == CardBlock \cup {NoBlock}
           n == e[b].size
           g == [i \in Nat |-> [v \in A |-> IF v = NoBlock THEN NoBlock ELSE e[v].next]]
           F(f) == [k \in 0 .. n |->
                      IF k = 0 THEN b ELSE IF f[k - 1] = NoBlock THEN NoBlock ELSE e[f[k - 1]].next]
<1>1. n \in Nat
  <2>1. n \in 0 .. BlockCount
    BY DEF DirEntries, DirEntry
  <2> QED BY <2>1, UnitFacts
<1>2. g \in [Nat -> [A -> A]]
  <2>1. \A x \in CardBlock : e[x].next \in A
    BY DEF DirEntries, DirEntry
  <2> QED BY <2>1
<1>3. \A k \in Nat, v \in A : g[k][v] = IF v = NoBlock THEN NoBlock ELSE e[v].next
  OBVIOUS
<1> HIDE DEF g
<1>4. PICK h : Iterated(h, A, b, g, n)
  <2>1. b \in A
    OBVIOUS
  <2> HIDE DEF A, n, F
  <2> QED BY <1>1, <1>2, <2>1, Iterates
<1>41. h \in [0 .. n -> A] /\ h[0] = b /\ \A k \in 1 .. n : h[k] = g[k - 1][h[k - 1]]
  BY <1>4 DEF Iterated
<1>5. \A k \in 1 .. n : h[k] = IF h[k - 1] = NoBlock THEN NoBlock ELSE e[h[k - 1]].next
  <2> SUFFICES ASSUME NEW k \in 1 .. n
               PROVE  h[k] = IF h[k - 1] = NoBlock THEN NoBlock ELSE e[h[k - 1]].next
    OBVIOUS
  <2>1. k - 1 \in Nat /\ k - 1 \in 0 .. n
    BY <1>1
  <2>2. h[k - 1] \in A
    BY <1>41, <2>1
  <2> QED BY <1>3, <1>41, <2>1, <2>2
<1>6. h = F(h)
  <2>1. ASSUME NEW k \in 0 .. n
        PROVE  h[k] = IF k = 0 THEN b ELSE IF h[k - 1] = NoBlock THEN NoBlock ELSE e[h[k - 1]].next
    <3>1. CASE k = 0
      BY <1>41, <3>1
    <3>2. CASE k # 0
      <4>1. k \in 1 .. n
        BY <1>1, <3>2
      <4> QED BY <1>5, <3>2, <4>1
    <3> QED BY <3>1, <3>2
  <2>2. h = [k \in 0 .. n |-> h[k]]
    BY <1>41
  <2> QED BY <2>1, <2>2
<1> DEFINE f == CHOOSE x : x = F(x)
<1>7. f = F(f)
  <2> HIDE DEF F
  <2> QED BY <1>6
<1>8. Rest(e, b) = {f[k] : k \in 1 .. n - 1} \ {NoBlock}
  BY DEF Rest
<1> HIDE DEF f
<1>9. DOMAIN f = 0 .. n /\ f[0] = b
  BY <1>1, <1>7
<1>10. \A k \in 1 .. n : f[k] = IF f[k - 1] = NoBlock THEN NoBlock ELSE e[f[k - 1]].next
  BY <1>1, <1>7
<1>11. \A k \in 0 .. n : f[k] \in A
  <2> DEFINE Bad == {k \in 0 .. n : f[k] \notin A}
  <2> SUFFICES ASSUME Bad # {} PROVE FALSE
    OBVIOUS
  <2>1. PICK k \in Bad : \A j \in Bad : k =< j
    <3>1. Bad \subseteq Nat
      BY <1>1
    <3> HIDE DEF Bad
    <3> QED BY <3>1, LeastExists
  <2>2. k \in 1 .. n /\ k - 1 \in 0 .. n /\ k - 1 \notin Bad
    BY <1>1, <1>9, <2>1
  <2>3. f[k - 1] \in A
    BY <2>2
  <2>4. f[k] \in A
    BY <1>10, <2>2, <2>3 DEF DirEntries, DirEntry
  <2> QED BY <2>1, <2>4
<1>12. f \in [0 .. n -> A]
  <2>1. f = [k \in 0 .. n |-> f[k]]
    BY <1>7
  <2> QED BY <1>11, <2>1
<1>13. Follows(e, b, f)
  BY <1>9, <1>10, <1>12 DEF Follows
<1> QED BY <1>8, <1>13

LEMMA EntryFacts ==
  ASSUME NEW e \in DirEntries, NEW b \in CardBlock
  PROVE  /\ e[b] \in DirEntry /\ e[b].state \in AllocState /\ e[b].size \in Nat
         /\ e[b].next \in CardBlock \cup {NoBlock} /\ b \in Nat
<1>1. e[b] \in DirEntry
  BY DEF DirEntries
<1>2. e[b].size \in 0 .. BlockCount
  BY <1>1 DEF DirEntry
<1>3. e[b].size \in Nat /\ b \in Nat
  BY <1>2, UnitFacts
<1> QED BY <1>1, <1>3 DEF DirEntry

(* The chain behind b stays in every set that its links stay in.           *)
LEMMA RestWithin ==
  ASSUME NEW e \in DirEntries, NEW b \in CardBlock, NEW P,
         e[b].size >= 2 => e[b].next \in P \cup {NoBlock},
         \A y \in P : e[y].next \in P \cup {NoBlock}
  PROVE  Rest(e, b) \subseteq P
<1>1. PICK f : Follows(e, b, f) /\ Rest(e, b) = {f[k] : k \in 1 .. e[b].size - 1} \ {NoBlock}
  BY RestUnfolds
<1> DEFINE n == e[b].size
           Bad == {k \in 1 .. n - 1 : f[k] \notin P \cup {NoBlock}}
<1>2. n \in Nat
  BY EntryFacts
<1>3. f[0] = b /\ \A k \in 1 .. n : f[k] = IF f[k - 1] = NoBlock THEN NoBlock ELSE e[f[k - 1]].next
  BY <1>1 DEF Follows
<1>4. Bad = {}
  <2> SUFFICES ASSUME Bad # {} PROVE FALSE
    OBVIOUS
  <2>1. PICK k \in Bad : \A j \in Bad : k =< j
    <3>1. Bad \subseteq Nat
      BY <1>2
    <3> HIDE DEF Bad
    <3> QED BY <3>1, LeastExists
  <2>2. k \in 1 .. n /\ k \in 1 .. n - 1 /\ n >= 2 /\ k \in Int
    BY <1>2
  <2>3. f[k] = IF f[k - 1] = NoBlock THEN NoBlock ELSE e[f[k - 1]].next
    BY <1>3, <2>2
  <2>4. CASE k = 1
    <3>1. f[k] = e[b].next
      BY <1>3, <2>3, <2>4, UnitFacts
    <3>2. f[k] \in P \cup {NoBlock}
      BY <2>2, <3>1
    <3> QED BY <3>2
  <2>5. CASE k # 1
    <3>1. k - 1 \in 1 .. n - 1 /\ ~(k =< k - 1)
      BY <1>2, <2>2, <2>5
    <3>2. k - 1 \notin Bad
      <4> HIDE DEF Bad
      <4> QED BY <2>1, <3>1
    <3>3. f[k - 1] \in P \cup {NoBlock}
      BY <3>1, <3>2
    <3>4. f[k] \in P \cup {NoBlock}
      BY <2>3, <3>3
    <3> QED BY <3>4
  <2> QED BY <2>4, <2>5
<1>5. \A k \in 1 .. n - 1 : f[k] \in P \cup {NoBlock}
  BY <1>4
<1> QED BY <1>1, <1>5

LEMMA RestFacts ==
  ASSUME NEW e \in DirEntries, NEW b \in CardBlock
  PROVE  /\ \A r \in Rest(e, b) : r \in CardBlock /\ \E y \in {b} \cup Rest(e, b) : e[y].next = r
         /\ e[b].size < 2 => Rest(e, b) = {}
         /\ e[b].size >= 2 /\ e[b].next # NoBlock => e[b].next \in Rest(e, b)
<1>1. PICK f : Follows(e, b, f) /\ Rest(e, b) = {f[k] : k \in 1 .. e[b].size - 1} \ {NoBlock}
  BY RestUnfolds
<1> DEFINE n == e[b].size
<1>2. n \in Nat
  BY EntryFacts
<1>3. /\ f \in [0 .. n -> CardBlock \cup {NoBlock}] /\ f[0] = b
      /\ \A k \in 1 .. n : f[k] = IF f[k - 1] = NoBlock THEN NoBlock ELSE e[f[k - 1]].next
  BY <1>1 DEF Follows
<1> HIDE DEF n
<1>4. ASSUME NEW r \in Rest(e, b)
      PROVE  r \in CardBlock /\ \E y \in {b} \cup Rest(e, b) : e[y].next = r
  <2>1. PICK k \in 1 .. n - 1 : r = f[k] /\ r # NoBlock
    BY <1>1 DEF n
  <2>2. k \in 0 .. n /\ k \in 1 .. n /\ k - 1 \in 0 .. n /\ (k # 1 => k - 1 \in 1 .. n - 1)
    BY <1>2
  <2>3. r \in CardBlock
    BY <1>3, <2>1, <2>2
  <2>4. f[k - 1] # NoBlock /\ e[f[k - 1]].next = r
    BY <1>3, <2>1, <2>2
  <2>5. k # 1 => f[k - 1] \in Rest(e, b)
    BY <1>1, <2>2, <2>4 DEF n
  <2>6. k = 1 => f[k - 1] = b
    BY <1>3
  <2> QED BY <2>3, <2>4, <2>5, <2>6
<1>5. n < 2 => Rest(e, b) = {}
  <2>1. n < 2 => 1 .. n - 1 = {}
    BY <1>2
  <2> QED BY <1>1, <2>1 DEF n
<1>6. ASSUME n >= 2, e[b].next # NoBlock PROVE e[b].next \in Rest(e, b)
  <2>1. 1 \in 1 .. n - 1 /\ 1 \in 1 .. n /\ 1 - 1 = 0
    BY <1>2, <1>6
  <2>2. f[1] = e[b].next
    BY <1>3, <2>1, UnitFacts
  <2> QED BY <1>1, <1>6, <2>1, <2>2 DEF n
<1> QED BY <1>4, <1>5, <1>6 DEF n

-----------------------------------------------------------------------------
Beginnings(e) == {b \in CardBlock : e[b].state = "51"}
Singles(e) == {b \in Beginnings(e) : e[b].size = 1}
Linked(e) == {b \in CardBlock : e[b].state \in {"52", "53"} \/ b \in Beginnings(e) \ Singles(e)}

WellFormed(e) ==
  \A b \in CardBlock :
    /\ e[b].state \in {"51", "52", "53"} => e[b].next = NoBlock \/ e[b].next > b
    /\ e[b].state = "51" => /\ e[b].size >= 1
                            /\ e[b].size > 1 => e[b].next # NoBlock
                            /\ e[b].size = 1 /\ e[b].next # NoBlock => b = 0
    /\ e[b].state = "a0" => e[b] = FreeEntry

LinksLead(e) ==
  /\ \A b \in Linked(e) : e[b].next # NoBlock => e[e[b].next].state \in {"52", "53"}
  /\ \A b, c \in Linked(e) : b # c /\ e[b].next = e[c].next => e[b].next = NoBlock

Grown(e, b) == b = 0 /\ e[b].state = "51" /\ e[b].size = 1
Unlinked(e, T) ==
  \A b \in T : \A c \in CardBlock : c # b /\ e[c].next = b => Grown(e, c)
Distinct(e, T) == \A b, c \in T : e[b].name = e[c].name => b = c

-----------------------------------------------------------------------------
(* No block follows two beginnings.                                        *)
LEMMA ChainsApart ==
  ASSUME NEW e \in DirEntries, LinksLead(e),
         NEW b \in CardBlock, e[b].state = "51"
  PROVE  /\ \A r \in Rest(e, b) : e[r].state \in {"52", "53"}
         /\ \A c \in CardBlock \ {b} :
              e[c].state = "51" => Rest(e, b) \cap ({c} \cup Rest(e, c)) = {}
<1> DEFINE Later == {r \in CardBlock : e[r].state \in {"52", "53"}}
<1>1. \A y \in Later : y \in Linked(e)
  BY DEF Linked
<1>2. \A c \in CardBlock : e[c].state = "51" /\ e[c].size >= 2 => c \in Linked(e)
  BY EntryFacts DEF Linked, Beginnings, Singles
<1>3. \A y \in Linked(e) : y \in CardBlock /\ e[y].next \in Later \cup {NoBlock}
  BY EntryFacts DEF LinksLead, Linked, Beginnings
<1>4. Rest(e, b) \subseteq Later
  <2>1. e[b].size >= 2 => e[b].next \in Later \cup {NoBlock}
    BY <1>2, <1>3
  <2>2. \A y \in Later : e[y].next \in Later \cup {NoBlock}
    BY <1>1, <1>3
  <2> HIDE DEF Later
  <2> QED BY <2>1, <2>2, RestWithin
<1>5. ASSUME NEW c \in CardBlock, c # b, e[c].state = "51"
      PROVE  Rest(e, b) \cap ({c} \cup Rest(e, c)) = {}
  <2> DEFINE P == Later \ Rest(e, b)
  <2>1. ASSUME NEW y \in Linked(e), e[y].next \in Rest(e, b)
        PROVE  y \in {b} \cup Rest(e, b)
    <3>1. PICK z \in {b} \cup Rest(e, b) : e[z].next = e[y].next
      BY <2>1, RestFacts
    <3>2. e[y].next # NoBlock
      BY <2>1, RestFacts, UnitFacts
    <3>3. e[b].size >= 2
      BY <2>1, RestFacts, EntryFacts
    <3>4. z \in Linked(e)
      BY <1>1, <1>2, <1>4, <3>1, <3>3
    <3>5. z = y
      BY <3>1, <3>2, <3>4 DEF LinksLead
    <3> QED BY <3>1, <3>5
  <2>2. c \notin {b} \cup Rest(e, b)
    BY <1>4, <1>5
  <2>3. e[c].size >= 2 => e[c].next \in P \cup {NoBlock}
    BY <1>2, <1>3, <1>5, <2>1, <2>2
  <2>4. \A y \in P : e[y].next \in P \cup {NoBlock}
    BY <1>1, <1>3, <2>1
  <2>5. Rest(e, c) \subseteq P
    <3> HIDE DEF P
    <3> QED BY <2>3, <2>4, RestWithin
  <2> QED BY <2>2, <2>5
<1> QED BY <1>4, <1>5

(* What becomes of the entries e as the first k blocks are looked at:      *)
(* nothing is made but free entries, no file of several blocks is left     *)
(* among them, and the files of one block nothing leads to stay.           *)
Corrected(e, g, k) ==
  /\ g \in DirEntries
  /\ \A b \in CardBlock : g[b] = e[b] \/ g[b] = FreeEntry
  /\ \A b \in CardBlock : b < k /\ g[b].state = "51" => e[b].size = 1
  /\ \A b \in Singles(e) : Unlinked(e, {b}) => g[b] = e[b]

NoneZero(e) == \A b \in CardBlock : e[b].state # "zero"

LEMMA FreeEntryIs ==
  /\ FreeEntry \in DirEntry /\ FreeEntry.state = "a0" /\ FreeEntry.size = 0
  /\ FreeEntry.next = NoBlock /\ FreeEntry.name = NoName
BY UnitFacts DEF FreeEntry, DirEntry, AllocState

LEMMA FreedIs ==
  ASSUME NEW e \in DirEntries, NEW T
  PROVE  /\ FreedBlocks(e, T) \in DirEntries
         /\ \A b \in CardBlock : FreedBlocks(e, T)[b] = IF b \in T THEN FreeEntry ELSE e[b]
BY FreeEntryIs DEF FreedBlocks, DirEntries

LEMMA ValidateKeepsType ==
  ASSUME NEW e \in DirEntries, NEW b \in CardBlock
  PROVE  buValidateEntryAndCorrect(e, b) \in DirEntries
BY FreedIs DEF buValidateEntryAndCorrect

(* Nothing leads to block 0, and only what is used leads anywhere.         *)
LEMMA LinksAscend ==
  ASSUME NEW e \in DirEntries, WellFormed(e), NoneZero(e), NEW g \in DirEntries,
         \A x \in CardBlock : g[x] = e[x] \/ g[x] = FreeEntry,
         NEW y \in CardBlock, NEW b \in CardBlock, g[y].next = b
  PROVE  g[y] = e[y] /\ e[y].next = b /\ b > y
<1>1. b # NoBlock /\ b \in Nat /\ y \in Nat
  BY UnitFacts
<1>2. g[y] = e[y]
  BY <1>1, FreeEntryIs
<1>3. e[y].state \in {"51", "52", "53"}
  <2>1. e[y].state \in AllocState /\ e[y] # FreeEntry
    BY <1>1, <1>2, FreeEntryIs, EntryFacts
  <2> QED BY <2>1 DEF AllocState, WellFormed, NoneZero
<1> QED BY <1>1, <1>2, <1>3 DEF WellFormed

LEMMA ValidateCorrects ==
  ASSUME NEW e \in DirEntries, WellFormed(e), NoneZero(e),
         NEW g, NEW k \in CardBlock, Corrected(e, g, k)
  PROVE  Corrected(e, buValidateEntryAndCorrect(g, k), k + 1)
<1> DEFINE h == buValidateEntryAndCorrect(g, k)
           T == {k} \cup Rest(g, k)
<1>1. g \in DirEntries /\ \A b \in CardBlock : g[b] = e[b] \/ g[b] = FreeEntry
  BY DEF Corrected
<1>2. h \in DirEntries
  BY <1>1, ValidateKeepsType
<1>3. h = IF g[k].state = "51" /\ Rest(g, k) # {} THEN FreedBlocks(g, T) ELSE g
  BY DEF buValidateEntryAndCorrect
<1>4. \A b \in CardBlock : h[b] = g[b] \/ h[b] = FreeEntry
  BY <1>1, <1>3, FreedIs
<1>5. \A b \in CardBlock : h[b] = e[b] \/ h[b] = FreeEntry
  BY <1>1, <1>4
<1>6. ASSUME NEW b \in CardBlock, b < k + 1, h[b].state = "51" PROVE e[b].size = 1
  <2>1. h[b] = g[b]
    BY <1>4, <1>6, FreeEntryIs
  <2>2. g[b] = e[b]
    BY <1>1, <1>6, <2>1, FreeEntryIs
  <2>3. CASE b < k
    BY <1>6, <2>1, <2>3 DEF Corrected
  <2>4. CASE b = k
    <3>1. Rest(g, k) = {}
      <4> SUFFICES ASSUME Rest(g, k) # {} PROVE FALSE
        OBVIOUS
      <4>1. h[k] = FreeEntry
        BY <1>1, <1>3, <1>6, <2>1, <2>4, FreedIs
      <4> QED BY <1>6, <2>4, <4>1, FreeEntryIs
    <3>2. ~(g[k].size >= 2 /\ g[k].next # NoBlock)
      BY <1>1, <3>1, RestFacts
    <3>3. e[k].size >= 1 /\ (e[k].size > 1 => e[k].next # NoBlock) /\ e[k].size \in Nat
      BY <1>6, <2>1, <2>2, <2>4, EntryFacts DEF WellFormed
    <3> QED BY <2>2, <2>4, <3>2, <3>3
  <2>5. b \in Nat /\ k \in Nat
    BY UnitFacts
  <2> QED BY <1>6, <2>3, <2>4, <2>5
<1>7. ASSUME NEW b \in Singles(e), Unlinked(e, {b}) PROVE h[b] = e[b]
  <2>1. g[b] = e[b] /\ b \in CardBlock /\ e[b].size = 1
    BY <1>7 DEF Corrected, Singles, Beginnings
  <2>2. CASE g[k].state = "51" /\ Rest(g, k) # {}
    <3>1. b # k
      BY <1>1, <2>1, <2>2, RestFacts
    <3>2. b \notin Rest(g, k)
      <4> SUFFICES ASSUME b \in Rest(g, k) PROVE FALSE
        OBVIOUS
      <4>1. PICK y \in {k} \cup Rest(g, k) : g[y].next = b
        BY <1>1, RestFacts
      <4>2. y \in CardBlock
        BY <1>1, <4>1, RestFacts
      <4>3. g[y] = e[y] /\ e[y].next = b /\ b > y
        BY <1>1, <2>1, <4>1, <4>2, LinksAscend
      <4>4. y # b
        BY <4>2, <4>3, UnitFacts
      <4>5. y = 0 /\ e[y].size = 1
        BY <1>7, <4>2, <4>3, <4>4 DEF Unlinked, Grown
      <4>6. y # k
        BY <1>1, <2>2, <4>3, <4>5, RestFacts
      <4>7. PICK z \in {k} \cup Rest(g, k) : g[z].next = y
        BY <1>1, <4>1, <4>6, RestFacts
      <4>8. z \in CardBlock
        BY <1>1, <4>7, RestFacts
      <4>9. y > z
        BY <1>1, <4>2, <4>7, <4>8, LinksAscend
      <4> QED BY <4>5, <4>8, <4>9, UnitFacts
    <3> QED BY <1>1, <1>3, <2>1, <2>2, <3>1, <3>2, FreedIs
  <2> QED BY <1>3, <2>1, <2>2
<1> QED BY <1>2, <1>5, <1>6, <1>7 DEF Corrected

LEMMA ReadUnfolds ==
  ASSUME NEW e \in DirEntries
  PROVE  \E f : /\ f[0] = e
                /\ \A k \in 1 .. BlockCount : f[k] = buValidateEntryAndCorrect(f[k - 1], k - 1)
                /\ Read(e) = FreedBlocks(f[BlockCount], CardBlock \ OfFiles(f[BlockCount]))
<1> DEFINE n == BlockCount
           g == [i \in Nat |-> [v \in DirEntries |->
                  IF i \in CardBlock THEN buValidateEntryAndCorrect(v, i) ELSE v]]
           F(f) == [k \in 0 .. BlockCount |->
                      IF k = 0 THEN e ELSE buValidateEntryAndCorrect(f[k - 1], k - 1)]
<1>1. n \in Nat
  BY UnitFacts
<1>2. g \in [Nat -> [DirEntries -> DirEntries]]
  BY ValidateKeepsType
<1>3. \A k \in CardBlock, v \in DirEntries : g[k][v] = buValidateEntryAndCorrect(v, k)
  BY UnitFacts
<1> HIDE DEF g
<1>4. PICK h : Iterated(h, DirEntries, e, g, n)
  <2> HIDE DEF n, F
  <2> QED BY <1>1, <1>2, Iterates
<1>5. h \in [0 .. n -> DirEntries] /\ h[0] = e /\ \A k \in 1 .. n : h[k] = g[k - 1][h[k - 1]]
  BY <1>4 DEF Iterated
<1>6. h = F(h)
  <2>1. ASSUME NEW k \in 0 .. n
        PROVE  h[k] = IF k = 0 THEN e ELSE buValidateEntryAndCorrect(h[k - 1], k - 1)
    <3>1. CASE k = 0
      BY <1>5, <3>1
    <3>2. CASE k # 0
      <4>1. k \in 1 .. n /\ k - 1 \in 0 .. n /\ k - 1 \in CardBlock
        BY <1>1, <3>2, UnitFacts
      <4>2. h[k - 1] \in DirEntries
        BY <1>5, <4>1
      <4> QED BY <1>3, <1>5, <3>2, <4>1, <4>2
    <3> QED BY <3>1, <3>2
  <2>2. h = [k \in 0 .. n |-> h[k]]
    BY <1>5
  <2> QED BY <2>1, <2>2
<1> DEFINE f == CHOOSE x : x = F(x)
<1>7. f = F(f)
  <2> HIDE DEF F
  <2> QED BY <1>6
<1>8. Read(e) = FreedBlocks(f[BlockCount], CardBlock \ OfFiles(f[BlockCount]))
  BY DEF Read
<1> HIDE DEF f
<1>9. f[0] = e
  BY <1>1, <1>7
<1>10. \A k \in 1 .. n : f[k] = buValidateEntryAndCorrect(f[k - 1], k - 1)
  BY <1>1, <1>7
<1> QED BY <1>8, <1>9, <1>10

(* buInit makes of a card its files of one block, and keeps those to which *)
(* nothing leads.                                                          *)
LEMMA ReadIs ==
  ASSUME NEW e \in DirEntries, WellFormed(e), NoneZero(e)
  PROVE  /\ Read(e) \in DirEntries
         /\ \A b \in CardBlock : \/ Read(e)[b] = FreeEntry
                                 \/ Read(e)[b] = e[b] /\ b \in Singles(e)
         /\ \A b \in Singles(e) : Unlinked(e, {b}) => Read(e)[b] = e[b]
<1>1. PICK f : /\ f[0] = e
               /\ \A k \in 1 .. BlockCount : f[k] = buValidateEntryAndCorrect(f[k - 1], k - 1)
               /\ Read(e) = FreedBlocks(f[BlockCount], CardBlock \ OfFiles(f[BlockCount]))
  BY ReadUnfolds
<1> DEFINE Bad == {k \in 0 .. BlockCount : ~Corrected(e, f[k], k)}
<1>2. Bad = {}
  <2> SUFFICES ASSUME Bad # {} PROVE FALSE
    OBVIOUS
  <2>1. PICK k \in Bad : \A j \in Bad : k =< j
    <3>1. Bad \subseteq Nat
      BY UnitFacts
    <3> HIDE DEF Bad
    <3> QED BY <3>1, LeastExists
  <2>2. CASE k = 0
    <3>1. Corrected(e, e, 0)
      BY UnitFacts DEF Corrected, Unlinked
    <3> QED BY <1>1, <2>2, <3>1
  <2>3. CASE k # 0
    <3>1. k \in 1 .. BlockCount /\ k - 1 \in 0 .. BlockCount /\ k - 1 \in CardBlock
          /\ k - 1 + 1 = k /\ ~(k =< k - 1)
      BY <2>3, UnitFacts
    <3>2. k - 1 \notin Bad
      <4> HIDE DEF Bad
      <4> QED BY <2>1, <3>1
    <3>3. Corrected(e, f[k - 1], k - 1)
      BY <3>1, <3>2
    <3>4. Corrected(e, buValidateEntryAndCorrect(f[k - 1], k - 1), k - 1 + 1)
      BY <3>1, <3>3, ValidateCorrects
    <3> QED BY <1>1, <3>1, <3>4
  <2> QED BY <2>2, <2>3
<1> DEFINE g == f[BlockCount]
<1>3. Corrected(e, g, BlockCount)
  <2>1. BlockCount \in 0 .. BlockCount
    BY UnitFacts
  <2> QED BY <1>2, <2>1
<1> HIDE DEF g
<1>4. g \in DirEntries /\ \A b \in CardBlock : g[b] = e[b] \/ g[b] = FreeEntry
  BY <1>3 DEF Corrected
<1>5. \A b \in CardBlock : g[b].state = "51" => g[b] = e[b] /\ b \in Singles(e)
  <2> SUFFICES ASSUME NEW b \in CardBlock, g[b].state = "51"
               PROVE  g[b] = e[b] /\ b \in Singles(e)
    OBVIOUS
  <2>1. g[b] = e[b]
    BY <1>4, FreeEntryIs
  <2>2. e[b].size = 1
    BY <1>3, UnitFacts DEF Corrected
  <2> QED BY <2>1, <2>2 DEF Singles, Beginnings
<1>6. \A b \in CardBlock : g[b].state = "51" => Rest(g, b) = {}
  BY <1>4, <1>5, RestFacts DEF Singles
<1>7. OfFiles(g) = {b \in CardBlock : g[b].state = "51"}
  BY <1>6 DEF OfFiles
<1>8. Read(e) = FreedBlocks(g, CardBlock \ OfFiles(g))
  BY <1>1 DEF g
<1>9. /\ Read(e) \in DirEntries
      /\ \A b \in CardBlock : Read(e)[b] = IF g[b].state = "51" THEN g[b] ELSE FreeEntry
  BY <1>4, <1>7, <1>8, FreedIs
<1>10. \A b \in Singles(e) : Unlinked(e, {b}) => g[b] = e[b] /\ e[b].state = "51" /\ b \in CardBlock
  BY <1>3 DEF Corrected, Singles, Beginnings
<1> QED BY <1>5, <1>9, <1>10

(* The free blocks that follow block v.                                    *)
FreeAfter(v) == {b \in FreeBlocks : b > v}

(* h[1] to h[k] are the first k free blocks, in order.                     *)
FirstOnes(h, k) ==
  /\ h[k] \in CardBlock \cup {NoBlock}
  /\ k # 0 => h[k] \in FreeBlocks
  /\ \A j \in 0 .. k - 1 : h[j] < h[k]
  /\ \A b \in FreeBlocks : b > h[k] \/ \E j \in 1 .. k : b = h[j]
  /\ Cardinality(FreeAfter(h[k])) = Cardinality(FreeBlocks) - k

LEMMA FreeFacts ==
  /\ FreeBlocks \subseteq CardBlock /\ IsFiniteSet(FreeBlocks)
  /\ Cardinality(FreeBlocks) \in Nat
  /\ \A v \in CardBlock \cup {NoBlock} : IsFiniteSet(FreeAfter(v)) /\ FreeAfter(v) \subseteq Nat
<1>1. FreeBlocks \subseteq CardBlock /\ IsFiniteSet(CardBlock)
  <2>1. 0 \in Int /\ BlockCount - 1 \in Int
    BY UnitFacts
  <2> QED BY <2>1, FS_Interval DEF FreeBlocks, CardBlock
<1>2. IsFiniteSet(FreeBlocks)
  BY <1>1, FS_Subset
<1>3. \A v : FreeAfter(v) \subseteq FreeBlocks
  BY DEF FreeAfter
<1>4. \A v : IsFiniteSet(FreeAfter(v))
  BY <1>2, <1>3, FS_Subset
<1> QED BY <1>1, <1>2, <1>3, <1>4, FS_CardinalityType, UnitFacts

LEMMA NextFree ==
  ASSUME NEW h, NEW k \in Nat, FirstOnes(h, k), k < Cardinality(FreeBlocks),
         \A j \in 0 .. k : h[j] \in CardBlock \cup {NoBlock},
         h[k + 1] = Min(FreeAfter(h[k]))
  PROVE  FreeAfter(h[k]) # {} /\ FirstOnes(h, k + 1)
<1> DEFINE T == FreeAfter(h[k])
           m == Min(T)
<1>1. IsFiniteSet(T) /\ T \subseteq Nat /\ h[k] \in CardBlock \cup {NoBlock} /\ h[k] \in Int
  BY FreeFacts, UnitFacts DEF FirstOnes
<1>2. Cardinality(T) = Cardinality(FreeBlocks) - k
  BY DEF FirstOnes
<1>3. T # {}
  <2> SUFFICES ASSUME T = {} PROVE FALSE
    OBVIOUS
  <2>1. Cardinality(T) = 0
    BY FS_EmptySet
  <2> QED BY <1>2, <2>1, FreeFacts
<1>4. m \in T /\ \A y \in T : m =< y
  <2> HIDE DEF T
  <2> QED BY <1>1, <1>3, MinIsLeast
<1>5. m \in FreeBlocks /\ m > h[k] /\ m \in CardBlock /\ m \in Nat
  BY <1>4, FreeFacts, UnitFacts DEF FreeAfter
<1>6. FreeAfter(m) = T \ {m}
  <2>1. ASSUME NEW y \in FreeBlocks PROVE y > m <=> y > h[k] /\ y # m
    <3>1. y \in Nat
      BY FreeFacts, UnitFacts
    <3>2. y > h[k] => m =< y
      BY <1>4 DEF FreeAfter
    <3> QED BY <1>1, <1>5, <3>1, <3>2
  <2> QED BY <2>1 DEF FreeAfter
<1>7. Cardinality(FreeAfter(m)) = Cardinality(FreeBlocks) - (k + 1)
  <2>1. Cardinality(T \ {m}) = Cardinality(T) - 1
    BY <1>1, <1>4, FS_RemoveElement
  <2> QED BY <1>2, <1>6, <2>1, FreeFacts
<1>8. \A j \in 0 .. k + 1 - 1 : h[j] < m
  <2> SUFFICES ASSUME NEW j \in 0 .. k PROVE h[j] < m
    OBVIOUS
  <2>1. h[j] \in Int
    BY UnitFacts
  <2>2. j = k \/ j \in 0 .. k - 1
    OBVIOUS
  <2>3. j # k => h[j] < h[k]
    BY <2>2 DEF FirstOnes
  <2> QED BY <1>1, <1>5, <2>1, <2>3
<1>9. ASSUME NEW b \in FreeBlocks PROVE b > m \/ \E j \in 1 .. k + 1 : b = h[j]
  <2>1. CASE b > h[k]
    <3>1. b = m \/ b \in FreeAfter(m)
      BY <1>6, <2>1 DEF FreeAfter
    <3>2. k + 1 \in 1 .. k + 1
      OBVIOUS
    <3> QED BY <3>1, <3>2 DEF FreeAfter
  <2>2. CASE \E j \in 1 .. k : b = h[j]
    BY <2>2
  <2> QED BY <2>1, <2>2 DEF FirstOnes
<1>10. k + 1 # 0
  OBVIOUS
<1> HIDE DEF m
<1>11. h[k + 1] = m
  BY DEF m
<1> QED BY <1>3, <1>5, <1>7, <1>8, <1>9, <1>11 DEF FirstOnes

LEMMA FirstFreeIs ==
  ASSUME NEW n \in Nat, n =< Cardinality(FreeBlocks)
  PROVE  LET B == FirstFree(n) IN
         /\ B \in Seq(CardBlock) /\ Len(B) = n
         /\ \A i \in 1 .. n : B[i] \in FreeBlocks
         /\ \A i, j \in 1 .. n : i < j => B[i] < B[j]
         /\ n > 0 => \A b \in FreeBlocks : b > B[n] \/ \E i \in 1 .. n : b = B[i]
<1> DEFINE A == CardBlock \cup {NoBlock}
           g == [i \in Nat |-> [v \in A |-> IF FreeAfter(v) = {} THEN v ELSE Min(FreeAfter(v))]]
           F(f) == [i \in 0 .. n |->
                      IF i = 0 THEN NoBlock ELSE Min({b \in FreeBlocks : b > f[i - 1]})]
<1>1. g \in [Nat -> [A -> A]]
  <2>1. ASSUME NEW v \in A, FreeAfter(v) # {} PROVE Min(FreeAfter(v)) \in A
    <3>1. Min(FreeAfter(v)) \in FreeAfter(v)
      BY <2>1, FreeFacts, MinIsLeast
    <3> QED BY <3>1, FreeFacts DEF FreeAfter
  <2> QED BY <2>1
<1>2. \A k \in Nat, v \in A : g[k][v] = IF FreeAfter(v) = {} THEN v ELSE Min(FreeAfter(v))
  OBVIOUS
<1> HIDE DEF g
<1>3. PICK h : Iterated(h, A, NoBlock, g, n)
  <2>1. NoBlock \in A
    OBVIOUS
  <2> HIDE DEF A, F
  <2> QED BY <1>1, <2>1, Iterates
<1>4. h \in [0 .. n -> A] /\ h[0] = NoBlock /\ \A k \in 1 .. n : h[k] = g[k - 1][h[k - 1]]
  BY <1>3 DEF Iterated
<1> DEFINE Bad == {k \in 0 .. n : ~FirstOnes(h, k)}
<1>5. ASSUME NEW k \in 0 .. n - 1, FirstOnes(h, k)
      PROVE  FirstOnes(h, k + 1) /\ FreeAfter(h[k]) # {}
  <2>1. k \in Nat /\ k + 1 \in 1 .. n /\ k + 1 - 1 = k /\ k \in 0 .. n /\ k < Cardinality(FreeBlocks)
    BY FreeFacts
  <2>2. h[k] \in A /\ \A j \in 0 .. k : h[j] \in A
    BY <1>4, <2>1
  <2>3. h[k + 1] = IF FreeAfter(h[k]) = {} THEN h[k] ELSE Min(FreeAfter(h[k]))
    BY <1>2, <1>4, <2>1, <2>2
  <2>4. FreeAfter(h[k]) # {}
    <3> SUFFICES ASSUME FreeAfter(h[k]) = {} PROVE FALSE
      OBVIOUS
    <3>1. Cardinality(FreeAfter(h[k])) = 0
      BY FS_EmptySet
    <3> QED BY <1>5, <2>1, <3>1, FreeFacts DEF FirstOnes
  <2> QED BY <1>5, <2>1, <2>2, <2>3, <2>4, NextFree
<1>6. FirstOnes(h, 0)
  <2>2. ASSUME NEW b \in FreeBlocks PROVE b > NoBlock
    <3>1. b \in Nat /\ NoBlock = -1
      BY FreeFacts, UnitFacts
    <3> QED BY <3>1
  <2>1. FreeAfter(NoBlock) = FreeBlocks
    BY <2>2 DEF FreeAfter
  <2>3. 0 .. 0 - 1 = {}
    OBVIOUS
  <2> QED BY <1>4, <2>1, <2>2, <2>3, FreeFacts DEF FirstOnes
<1>7. Bad = {}
  <2> SUFFICES ASSUME Bad # {} PROVE FALSE
    OBVIOUS
  <2>1. PICK k \in Bad : \A j \in Bad : k =< j
    <3>1. Bad \subseteq Nat
      OBVIOUS
    <3> HIDE DEF Bad
    <3> QED BY <3>1, LeastExists
  <2>2. k # 0
    BY <1>6, <2>1
  <2>3. k - 1 \in 0 .. n - 1 /\ k - 1 \in 0 .. n /\ k - 1 + 1 = k /\ ~(k =< k - 1)
    BY <2>2
  <2>4. k - 1 \notin Bad
    <3> HIDE DEF Bad
    <3> QED BY <2>1, <2>3
  <2> QED BY <1>5, <2>1, <2>3, <2>4
<1>8. \A k \in 0 .. n : FirstOnes(h, k)
  BY <1>7
<1>9. \A k \in 1 .. n : h[k] = Min({b \in FreeBlocks : b > h[k - 1]})
  <2> SUFFICES ASSUME NEW k \in 1 .. n PROVE h[k] = Min(FreeAfter(h[k - 1]))
    BY DEF FreeAfter
  <2>1. k - 1 \in 0 .. n - 1 /\ k - 1 \in 0 .. n /\ k - 1 \in Nat
    OBVIOUS
  <2>2. h[k - 1] \in A /\ FreeAfter(h[k - 1]) # {}
    BY <1>4, <1>5, <1>8, <2>1
  <2> QED BY <1>2, <1>4, <2>1, <2>2
<1>10. h = F(h)
  <2>1. ASSUME NEW k \in 0 .. n
        PROVE  h[k] = IF k = 0 THEN NoBlock ELSE Min({b \in FreeBlocks : b > h[k - 1]})
    <3>1. k = 0 \/ k \in 1 .. n
      OBVIOUS
    <3> QED BY <1>4, <1>9, <3>1
  <2>2. h = [k \in 0 .. n |-> h[k]]
    BY <1>4
  <2> QED BY <2>1, <2>2
<1> DEFINE f == CHOOSE x : x = F(x)
<1>11. f = F(f)
  <2> HIDE DEF F
  <2> QED BY <1>10
<1>12. FirstFree(n) = [i \in 1 .. n |-> f[i]]
  BY DEF FirstFree
<1> HIDE DEF f
<1>13. f[0] = NoBlock /\ \A k \in 1 .. n : f[k] = Min({b \in FreeBlocks : b > f[k - 1]})
  <2>1. 0 \in 0 .. n
    OBVIOUS
  <2>2. f[0] = NoBlock
    BY <1>11, <2>1
  <2>3. ASSUME NEW k \in 1 .. n PROVE f[k] = Min({b \in FreeBlocks : b > f[k - 1]})
    <3>1. k \in 0 .. n /\ k # 0
      OBVIOUS
    <3>2. f[k] = F(f)[k]
      BY <1>11
    <3> QED BY <3>1, <3>2
  <2> QED BY <2>2, <2>3
<1> DEFINE Off == {k \in 0 .. n : f[k] # h[k]}
<1>14. Off = {}
  <2> SUFFICES ASSUME Off # {} PROVE FALSE
    OBVIOUS
  <2>1. PICK k \in Off : \A j \in Off : k =< j
    <3>1. Off \subseteq Nat
      OBVIOUS
    <3> HIDE DEF Off
    <3> QED BY <3>1, LeastExists
  <2>2. k # 0
    BY <1>4, <1>13, <2>1
  <2>3. k - 1 \in 0 .. n /\ k \in 1 .. n /\ ~(k =< k - 1)
    BY <2>2
  <2>4. k - 1 \notin Off
    <3> HIDE DEF Off
    <3> QED BY <2>1, <2>3
  <2>5. f[k - 1] = h[k - 1]
    BY <2>3, <2>4
  <2> QED BY <1>9, <1>13, <2>1, <2>3, <2>5
<1>15. FirstFree(n) = [i \in 1 .. n |-> h[i]]
  <2>1. \A i \in 1 .. n : f[i] = h[i]
    BY <1>14
  <2> QED BY <1>12, <2>1
<1> DEFINE B == [i \in 1 .. n |-> h[i]]
<1>16. \A i \in 1 .. n : h[i] \in FreeBlocks /\ h[i] \in CardBlock
  BY <1>8, FreeFacts DEF FirstOnes
<1>17. B \in Seq(CardBlock) /\ Len(B) = n
  BY <1>16
<1>18. \A i, j \in 1 .. n : i < j => B[i] < B[j]
  <2> SUFFICES ASSUME NEW i \in 1 .. n, NEW j \in 1 .. n, i < j PROVE h[i] < h[j]
    OBVIOUS
  <2>1. j \in 0 .. n /\ i \in 0 .. j - 1
    OBVIOUS
  <2> QED BY <1>8, <2>1 DEF FirstOnes
<1>19. n > 0 => \A b \in FreeBlocks : b > B[n] \/ \E i \in 1 .. n : b = B[i]
  <2>1. n \in 0 .. n
    OBVIOUS
  <2> QED BY <1>8, <2>1 DEF FirstOnes
<1> QED BY <1>15, <1>16, <1>17, <1>18, <1>19

(* The blocks of the files that are kept: those of T, and unless l every   *)
(* file of one block.                                                      *)
KeptOf(e, T, l) == T \cup (IF l THEN {} ELSE Singles(e))

(* What is on a card of whose files those of T are saved.                  *)
CardHolds(e, T, l) ==
  /\ WellFormed(e) /\ NoneZero(e)
  /\ Unlinked(e, KeptOf(e, T, l))
  /\ ~l => Distinct(e, Singles(e))

Agree(d, e, K) == \A b \in K : b \in Singles(d) /\ d[b].name = e[b].name

(* A file whose blocks begin with a is made in the directory d, and those  *)
(* of W are yet to be written to the card e.                               *)
Making(d, e, W, a) ==
  /\ a \in CardBlock /\ d[a].state = "51"
  /\ \A w \in W : w \in CardBlock /\ a =< w /\ (w = a \/ d[w].state \in {"52", "53"})
  /\ \A b \in CardBlock : d[b].state = "a0" => b > a
  /\ \A b \in CardBlock : d[b].state # "a0" => b \in W \/ d[b] = e[b]

LEMMA SinglesIs ==
  ASSUME NEW e
  PROVE  \A b : b \in Singles(e) <=> b \in CardBlock /\ e[b].state = "51" /\ e[b].size = 1
BY DEF Singles, Beginnings

(* What leads anywhere on a card leads ahead.                              *)
LEMMA CardAscends ==
  ASSUME NEW e \in DirEntries, WellFormed(e), NoneZero(e),
         NEW c \in CardBlock, NEW b \in CardBlock, e[c].next = b
  PROVE  b > c
BY LinksAscend

(* Nothing leads to the file of one block that is made.                    *)
LEMMA FirstUnlinked ==
  ASSUME NEW d \in DirEntries, NEW e \in DirEntries, NEW W, NEW a, Making(d, e, W, a),
         WellFormed(d), LinksLead(d), WellFormed(e), NoneZero(e), d[a].size = 1
  PROVE  Unlinked(e, {a})
<1> SUFFICES ASSUME NEW c \in CardBlock, c # a, e[c].next = a PROVE Grown(e, c)
  BY DEF Unlinked
<1>1. a \in CardBlock /\ d[a].state = "51" /\ a > c
  BY CardAscends DEF Making
<1>2. a \in Nat /\ c \in Nat
  BY <1>1, UnitFacts
<1>3. d[c].state # "a0" /\ c \notin W /\ d[c] = e[c]
  BY <1>1, <1>2 DEF Making
<1>4. d[c].state \in {"51", "52", "53"}
  <2>1. d[c].state \in AllocState /\ d[c].state # "zero"
    BY <1>3, EntryFacts DEF NoneZero
  <2> QED BY <1>3, <2>1 DEF AllocState
<1>5. c \notin Linked(d)
  BY <1>1, <1>3, UnitFacts DEF LinksLead
<1>6. c \in Singles(d)
  BY <1>4, <1>5 DEF Linked, Beginnings
<1>7. c = 0
  BY <1>1, <1>3, <1>6, SinglesIs, UnitFacts DEF WellFormed
<1> QED BY <1>3, <1>6, <1>7, SinglesIs DEF Grown

OneWritten(e2, e, d, h) == \A b \in CardBlock : e2[b] = IF b = h THEN d[h] ELSE e[b]

(* A sector of a file that is made is written.                             *)
LEMMA SectorWritten ==
  ASSUME NEW d \in DirEntries, NEW e \in DirEntries, NEW W, NEW a, Making(d, e, W, a),
         WellFormed(d), LinksLead(d), NoneZero(d), NEW l \in BOOLEAN,
         ~l => Distinct(d, Beginnings(d)),
         NEW T, T \subseteq Singles(e), CardHolds(e, T, l), Agree(d, e, KeptOf(e, T, l)),
         NEW h \in W, h \notin T, NEW e2 \in DirEntries,
         OneWritten(e2, e, d, h)
  PROVE  /\ CardHolds(e2, T, l) /\ T \subseteq Singles(e2) /\ Making(d, e2, W \ {h}, a)
         /\ Making(d, e2, W, a)
         /\ Agree(d, e2, KeptOf(e2, T, l))
<1> USE DEF OneWritten
<1>1. a \in CardBlock /\ h \in CardBlock /\ (h = a \/ d[h].state \in {"52", "53"}) /\ d[a].state = "51"
  BY DEF Making
<1>2. Making(d, e2, W \ {h}, a)
  BY DEF Making
<1>3. Making(d, e2, W, a)
  BY DEF Making
<1>4. WellFormed(e) /\ NoneZero(e) /\ Unlinked(e, KeptOf(e, T, l))
      /\ (~l => Distinct(e, Singles(e)))
  BY DEF CardHolds
<1>5. WellFormed(e2)
  <2> SUFFICES ASSUME NEW b \in CardBlock
               PROVE  /\ e2[b].state \in {"51", "52", "53"} => e2[b].next = NoBlock \/ e2[b].next > b
                      /\ e2[b].state = "51" => /\ e2[b].size >= 1
                                               /\ e2[b].size > 1 => e2[b].next # NoBlock
                                               /\ e2[b].size = 1 /\ e2[b].next # NoBlock => b = 0
                      /\ e2[b].state = "a0" => e2[b] = FreeEntry
    BY DEF WellFormed
  <2>1. e2[b] = d[b] \/ e2[b] = e[b]
    OBVIOUS
  <2> QED BY <1>4, <2>1 DEF WellFormed
<1>6. NoneZero(e2)
  BY <1>1, <1>4 DEF NoneZero
<1>7. T \subseteq Singles(e2)
  BY SinglesIs
<1>8. \A b \in Singles(e2) : b # h => b \in Singles(e)
  BY SinglesIs
<1>9. h \in Singles(e2) => h = a /\ d[a].size = 1
  BY <1>1, SinglesIs
<1>10. \A b \in KeptOf(e2, T, l) : b \in KeptOf(e, T, l) \/ (b = h /\ h = a /\ d[a].size = 1)
  BY <1>8, <1>9 DEF KeptOf
<1>11. \A b \in KeptOf(e, T, l) : b \in CardBlock
  BY SinglesIs DEF KeptOf
<1>12. Unlinked(e2, KeptOf(e2, T, l))
  <2> SUFFICES ASSUME NEW b \in KeptOf(e2, T, l), NEW c \in CardBlock, c # b, e2[c].next = b
               PROVE  Grown(e2, c)
    BY DEF Unlinked
  <2>1. CASE b = a /\ d[a].size = 1
    BY <1>3, <1>5, <1>6, <2>1, FirstUnlinked DEF Unlinked
  <2>2. CASE b \in KeptOf(e, T, l) /\ c # h
    <3>1. e2[c] = e[c]
      BY <2>2
    <3>2. Grown(e, c)
      BY <1>4, <2>2, <3>1 DEF Unlinked
    <3> QED BY <3>1, <3>2 DEF Grown
  <2>3. CASE b \in KeptOf(e, T, l) /\ c = h
    <3>1. e2[h] = d[h] /\ d[h].next = b /\ b # NoBlock
      BY <1>1, <1>11, <2>3, UnitFacts
    <3>2. d[b].state = "51"
      BY <2>3, SinglesIs DEF Agree
    <3>3. h \notin Linked(d)
      BY <3>1, <3>2 DEF LinksLead
    <3>4. h \in Singles(d)
      BY <1>1, <3>3 DEF Linked, Beginnings
    <3>5. h = 0
      BY <1>1, <3>1, <3>4, SinglesIs DEF WellFormed
    <3> QED BY <2>3, <3>1, <3>4, <3>5, SinglesIs DEF Grown
  <2> QED BY <1>10, <2>1, <2>2, <2>3
<1>13. Agree(d, e2, KeptOf(e2, T, l))
  <2> SUFFICES ASSUME NEW b \in KeptOf(e2, T, l) PROVE b \in Singles(d) /\ d[b].name = e2[b].name
    BY DEF Agree
  <2>1. CASE b \in KeptOf(e, T, l)
    BY <1>11, <2>1 DEF Agree
  <2>2. CASE b = h /\ h = a /\ d[a].size = 1
    BY <1>1, <2>2, SinglesIs
  <2> QED BY <1>10, <2>1, <2>2
<1>14. ASSUME ~l PROVE Distinct(e2, Singles(e2))
  <2> SUFFICES ASSUME NEW x \in Singles(e2), NEW y \in Singles(e2), e2[x].name = e2[y].name
               PROVE  x = y
    BY DEF Distinct
  <2>1. x \in KeptOf(e2, T, l) /\ y \in KeptOf(e2, T, l)
    BY <1>14 DEF KeptOf
  <2>2. x \in Singles(d) /\ y \in Singles(d) /\ d[x].name = d[y].name
    BY <1>13, <2>1 DEF Agree
  <2> QED BY <1>14, <2>2 DEF Distinct, Singles
<1> QED BY <1>2, <1>3, <1>5, <1>6, <1>7, <1>12, <1>13, <1>14 DEF CardHolds

SavedAt(c) == {x.block : x \in saved[c]}
DirOf(c) == cards[c].entries
UnitJobs == [what : {"none", "create", "format", "hung"}, name : FileNames \cup {NoName},
             size : 0 .. BlockCount, blocks : Seq(CardBlock)]
CardStates == [entries : DirEntries, new : BOOLEAN]
SavedSets == [Cards -> SUBSET [block : CardBlock, name : FileNames]]

UnitTyped ==
  /\ cards \in [Cards -> CardStates] /\ slot \in Cards
  /\ dir \in DirEntries
  /\ job \in UnitJobs
  /\ todo \in Seq(CardBlock \cup {INFO})
  /\ saved \in SavedSets
  /\ lame \in BOOLEAN

CardsInv == \A c \in Cards : CardHolds(DirOf(c), SavedAt(c), lame)

DirInv ==
  /\ ~lame => Distinct(dir, Beginnings(dir))
  /\ job.what # "format" =>
       WellFormed(dir) /\ LinksLead(dir) /\ (dir = ZeroedCard \/ NoneZero(dir))

(* The blocks of the file that is made are before all free ones, none is   *)
(* that of a saved file, and what is not to be written is on the card.     *)
CreateInv ==
  job.what = "create" =>
    LET B == job.blocks IN
    /\ B # <<>> /\ todo # <<>>
    /\ dir[B[1]].state = "51" /\ dir[B[1]].size = job.size /\ dir[B[1]].name = job.name
    /\ job.name \in FileNames
    /\ \A i \in 1 .. Len(B) : B[1] =< B[i] /\ (i = 1 \/ dir[B[i]].state \in {"52", "53"})
    /\ \A i \in 1 .. Len(B) : \A b \in FreeBlocks : b > B[i]
    /\ Range(todo) \subseteq Range(B) \cup {INFO}
    /\ ~cards[slot].new =>
         /\ Range(B) \cap SavedAt(slot) = {}
         /\ \A b \in CardBlock : b \in FreeBlocks \cup Range(todo) \/ dir[b] = DirOf(slot)[b]

(* The directory in memory has the files that are kept on the card in the  *)
(* slot, and where there is place for another all that is on it.           *)
KnownInv ==
  ~cards[slot].new /\ dir # ZeroedCard =>
    /\ job.what \in {"none", "create"} =>
         Agree(dir, DirOf(slot), KeptOf(DirOf(slot), SavedAt(slot), lame))
    /\ job.what = "none" /\ FreeBlocks # {} =>
         \A b \in CardBlock : b \in FreeBlocks \/ dir[b] = DirOf(slot)[b]

FormatInv ==
  job.what = "format" =>
    LET done == BlockCount - Len(todo) IN
    /\ Len(todo) \in 1 .. BlockCount
    /\ \A i \in 1 .. Len(todo) : todo[i] = done + i - 1
    /\ \A b \in CardBlock : b < done => dir[b] = FreeEntry
    /\ ~cards[slot].new =>
         /\ saved[slot] = {}
         /\ ~lame => \A b \in CardBlock : b < done => DirOf(slot)[b] = FreeEntry

UnitInv ==
  /\ UnitTyped /\ SavedFilesStay /\ SavedFilesFound
  /\ CardsInv /\ DirInv /\ CreateInv /\ KnownInv /\ FormatInv

-----------------------------------------------------------------------------
LEMMA TodoParts ==
  ASSUME NEW X, NEW s \in Seq(X), s # <<>>
  PROVE  /\ Head(s) \in X /\ Tail(s) \in Seq(X) /\ Len(s) \in Nat /\ Len(s) >= 1
         /\ Len(Tail(s)) = Len(s) - 1
         /\ Range(s) = {Head(s)} \cup Range(Tail(s)) /\ Range(s) \subseteq X
         /\ Len(s) = 1 <=> Tail(s) = <<>>
<1>1. /\ Head(s) \in X /\ Tail(s) \in Seq(X) /\ Len(s) \in Nat /\ Len(s) >= 1
      /\ Len(Tail(s)) = Len(s) - 1 /\ Head(s) = s[1]
      /\ \A i \in 1 .. Len(s) - 1 : Tail(s)[i] = s[i + 1]
  OBVIOUS
<1>2. Range(s) = {s[i] : i \in 1 .. Len(s)}
      /\ Range(Tail(s)) = {Tail(s)[i] : i \in 1 .. Len(s) - 1}
  <2>1. DOMAIN s = 1 .. Len(s) /\ DOMAIN Tail(s) = 1 .. Len(s) - 1
    BY <1>1
  <2> QED BY <2>1 DEF Range
<1>3. Range(s) \subseteq X
  BY <1>2
<1>4. \A i \in 1 .. Len(s) : i = 1 \/ (i - 1 \in 1 .. Len(s) - 1 /\ s[i] = Tail(s)[i - 1])
  <2> SUFFICES ASSUME NEW i \in 1 .. Len(s), i # 1
               PROVE  i - 1 \in 1 .. Len(s) - 1 /\ s[i] = Tail(s)[i - 1]
    OBVIOUS
  <2>1. i - 1 \in 1 .. Len(s) - 1 /\ i - 1 + 1 = i
    BY <1>1
  <2> QED BY <1>1, <2>1
<1>5. \A i \in 1 .. Len(s) - 1 : i + 1 \in 1 .. Len(s)
  BY <1>1
<1>6. 1 \in 1 .. Len(s)
  BY <1>1
<1>7. Range(s) = {Head(s)} \cup Range(Tail(s))
  <2>1. ASSUME NEW x \in Range(s) PROVE x \in {Head(s)} \cup Range(Tail(s))
    <3>1. PICK i \in 1 .. Len(s) : x = s[i]
      BY <1>2
    <3> QED BY <1>1, <1>2, <1>4, <3>1
  <2>2. ASSUME NEW x \in Range(Tail(s)) PROVE x \in Range(s)
    <3>1. PICK i \in 1 .. Len(s) - 1 : x = Tail(s)[i]
      BY <1>2
    <3> QED BY <1>1, <1>2, <1>5, <3>1
  <2>3. Head(s) \in Range(s)
    BY <1>1, <1>2, <1>6
  <2> QED BY <2>1, <2>2, <2>3
<1>8. Len(s) = 1 <=> Tail(s) = <<>>
  <2>1. Len(s) - 1 = 0 <=> Len(s) = 1
    BY <1>1
  <2> QED BY <1>1, <2>1, EmptySeq
<1> QED BY <1>1, <1>3, <1>7, <1>8

LEMMA EmptyIs ==
  /\ EmptyCard \in DirEntries /\ \A b \in CardBlock : EmptyCard[b] = FreeEntry
  /\ ZeroedCard \in DirEntries
  /\ \A b \in CardBlock : ZeroedCard[b].state = "zero"
<1>1. EmptyCard \in DirEntries /\ \A b \in CardBlock : EmptyCard[b] = FreeEntry
  BY FreeEntryIs DEF EmptyCard, DirEntries
<1> DEFINE z == [state |-> "zero", size |-> 0, next |-> 0, name |-> NoName]
<1>2. z \in DirEntry /\ z.state = "zero"
  BY UnitFacts DEF AllocState, DirEntry
<1>3. ZeroedCard = [b \in CardBlock |-> z]
  BY DEF ZeroedCard
<1> HIDE DEF z
<1> QED BY <1>1, <1>2, <1>3 DEF DirEntries

LEMMA EmptyHolds ==
  ASSUME NEW e \in DirEntries, \A b \in CardBlock : e[b] = FreeEntry, NEW l \in BOOLEAN
  PROVE  /\ CardHolds(e, {}, l) /\ WellFormed(e) /\ LinksLead(e) /\ NoneZero(e)
         /\ Singles(e) = {} /\ Beginnings(e) = {} /\ Linked(e) = {}
<1>1. Singles(e) = {} /\ Beginnings(e) = {} /\ Linked(e) = {}
  BY FreeEntryIs DEF Singles, Beginnings, Linked
<1>2. WellFormed(e) /\ NoneZero(e)
  BY FreeEntryIs DEF WellFormed, NoneZero
<1>3. LinksLead(e)
  BY <1>1 DEF LinksLead
<1>4. KeptOf(e, {}, l) = {}
  BY <1>1 DEF KeptOf
<1> QED BY <1>1, <1>2, <1>3, <1>4 DEF CardHolds, Unlinked, Distinct

LEMMA ZeroedHolds ==
  WellFormed(ZeroedCard) /\ LinksLead(ZeroedCard) /\ Beginnings(ZeroedCard) = {}
<1>1. Beginnings(ZeroedCard) = {} /\ Linked(ZeroedCard) = {}
  BY EmptyIs DEF Beginnings, Linked, Singles
<1> QED BY <1>1, EmptyIs DEF WellFormed, LinksLead

LEMMA NoJobIs == NoJob \in UnitJobs /\ NoJob.what = "none"
<1>1. <<>> \in Seq(CardBlock)
  OBVIOUS
<1>2. 0 \in 0 .. BlockCount
  BY UnitFacts
<1> QED BY <1>1, <1>2 DEF NoJob, UnitJobs

LEMMA SavedBlocks ==
  ASSUME UnitTyped, NEW c \in Cards
  PROVE  /\ SavedFilesStay => SavedAt(c) \subseteq Singles(DirOf(c))
         /\ \A x \in saved[c] : x.block \in SavedAt(c) /\ x.block \in CardBlock /\ x.name \in FileNames
<1>1. \A x \in saved[c] : x.block \in SavedAt(c) /\ x.block \in CardBlock /\ x.name \in FileNames
  BY DEF UnitTyped, SavedSets, SavedAt
<1>2. SavedFilesStay => SavedAt(c) \subseteq Singles(DirOf(c))
  BY <1>1, SinglesIs DEF SavedAt, SavedFilesStay, DirOf
<1> QED BY <1>1, <1>2

LEMMA CardIs ==
  ASSUME UnitTyped, NEW c \in Cards
  PROVE  cards[c] \in CardStates /\ DirOf(c) \in DirEntries /\ cards[c].new \in BOOLEAN
BY DEF UnitTyped, CardStates, DirOf

LEMMA UnitInvInit == UnitInit => UnitInv
<1> SUFFICES ASSUME UnitInit PROVE UnitInv
  OBVIOUS
<1>1. \A c \in Cards : DirOf(c) = EmptyCard /\ saved[c] = {} /\ SavedAt(c) = {}
  BY DEF UnitInit, DirOf, SavedAt
<1>2. UnitTyped
  <2>1. cards \in [Cards -> CardStates]
    BY EmptyIs DEF UnitInit, CardStates
  <2>2. todo \in Seq(CardBlock \cup {INFO})
    BY DEF UnitInit
  <2>3. saved \in SavedSets
    BY DEF UnitInit, SavedSets
  <2> QED BY <2>1, <2>2, <2>3, EmptyIs, NoJobIs DEF UnitInit, UnitTyped
<1>3. dir = EmptyCard /\ job.what = "none" /\ lame \in BOOLEAN /\ slot \in Cards /\ lame = FALSE
  BY NoJobIs DEF UnitInit
<1>4. SavedFilesStay /\ SavedFilesFound
  BY <1>1, <1>3 DEF SavedFilesStay, SavedFilesFound
<1>5. CardsInv
  BY <1>1, <1>3, EmptyIs, EmptyHolds DEF CardsInv
<1>6. DirInv
  BY <1>3, EmptyIs, EmptyHolds DEF DirInv, Distinct
<1>7. KnownInv
  <2>1. KeptOf(EmptyCard, {}, lame) = {}
    BY EmptyIs, EmptyHolds, <1>3 DEF KeptOf
  <2> QED BY <1>1, <1>3, <2>1 DEF KnownInv, Agree
<1> QED BY <1>2, <1>3, <1>4, <1>5, <1>6, <1>7 DEF UnitInv, CreateInv, FormatInv

LEMMA FlagIs ==
  ASSUME UnitTyped, NEW c \in Cards, NEW new \in BOOLEAN
  PROVE  /\ FlagOf(c, new) \in [Cards -> CardStates]
         /\ FlagOf(c, new)[c].new = new
         /\ \A x \in Cards : FlagOf(c, new)[x].entries = cards[x].entries
         /\ \A x \in Cards : x # c => FlagOf(c, new)[x].new = cards[x].new
<1>1. cards \in [Cards -> CardStates] /\ cards[c] \in CardStates
  BY DEF UnitTyped
<1> DEFINE y == [cards[c] EXCEPT !.new = new]
<1>2. y \in CardStates /\ y.new = new /\ y.entries = cards[c].entries
  BY <1>1 DEF CardStates
<1>3. FlagOf(c, new) = [cards EXCEPT ![c] = y]
  BY DEF FlagOf
<1> HIDE DEF y
<1> QED BY <1>1, <1>2, <1>3

(* What is said of the cards stays when no entry of theirs changes.        *)
LEMMA CardsStay ==
  ASSUME UnitInv, \A c \in Cards : DirOf(c)' = DirOf(c), UNCHANGED <<saved, lame>>
  PROVE  CardsInv' /\ SavedFilesStay' /\ \A c \in Cards : SavedAt(c)' = SavedAt(c)
<1>1. \A c \in Cards : SavedAt(c)' = SavedAt(c)
  BY DEF SavedAt
<1>2. CardsInv'
  BY <1>1 DEF CardsInv, UnitInv
<1>3. SavedFilesStay'
  <2>1. SavedFilesStay
    BY DEF UnitInv
  <2> QED BY <2>1 DEF SavedFilesStay, DirOf
<1> QED BY <1>1, <1>2, <1>3

(* buInit leaves in memory the files of one block of a card it can read.   *)
LEMMA ReadOfCard ==
  ASSUME UnitTyped, NEW e \in DirEntries, NEW T, NEW l \in BOOLEAN, CardHolds(e, T, l),
         T \subseteq Singles(e)
  PROVE  /\ Read(e) \in DirEntries
         /\ WellFormed(Read(e)) /\ LinksLead(Read(e)) /\ NoneZero(Read(e))
         /\ \A b \in CardBlock : Read(e)[b].state # "a0" => Read(e)[b] = e[b] /\ b \in Singles(e)
         /\ Agree(Read(e), e, KeptOf(e, T, l))
         /\ ~l => Distinct(Read(e), Beginnings(Read(e)))
<1> DEFINE d == Read(e)
<1>1. WellFormed(e) /\ NoneZero(e) /\ Unlinked(e, KeptOf(e, T, l)) /\ (~l => Distinct(e, Singles(e)))
  BY DEF CardHolds
<1>2. /\ d \in DirEntries
      /\ \A b \in CardBlock : d[b] = FreeEntry \/ (d[b] = e[b] /\ b \in Singles(e))
      /\ \A b \in Singles(e) : Unlinked(e, {b}) => d[b] = e[b]
  BY <1>1, ReadIs
<1> HIDE DEF d
<1>3. \A b \in CardBlock : d[b].state # "a0" => d[b] = e[b] /\ b \in Singles(e)
  BY <1>2, FreeEntryIs
<1>4. WellFormed(d) /\ NoneZero(d)
  <2>1. NoneZero(d)
    BY <1>1, <1>2, FreeEntryIs DEF NoneZero
  <2>2. WellFormed(d)
    BY <1>1, <1>2, FreeEntryIs DEF WellFormed
  <2> QED BY <2>1, <2>2
<1>5. Linked(d) = {}
  <2>1. \A b \in CardBlock : b \notin Linked(d)
    BY <1>2, SinglesIs, FreeEntryIs DEF Linked, Beginnings
  <2> QED BY <2>1 DEF Linked, Beginnings
<1>6. LinksLead(d)
  BY <1>5 DEF LinksLead
<1>7. KeptOf(e, T, l) \subseteq Singles(e)
  BY DEF KeptOf
<1>8. ASSUME NEW b \in KeptOf(e, T, l) PROVE b \in Singles(d) /\ d[b].name = e[b].name
  <2>1. Unlinked(e, {b})
    BY <1>1 DEF Unlinked
  <2>2. d[b] = e[b] /\ b \in Singles(e)
    BY <1>2, <1>7, <2>1
  <2> QED BY <2>2, SinglesIs
<1>9. ASSUME ~l PROVE Distinct(d, Beginnings(d))
  <2>1. \A b \in Beginnings(d) : d[b] = e[b] /\ b \in Singles(e)
    BY <1>3 DEF Beginnings
  <2> QED BY <1>1, <1>9, <2>1 DEF Distinct
<1> QED BY <1>2, <1>3, <1>4, <1>6, <1>8, <1>9 DEF Agree, d

LEMMA InitKeeps ==
  ASSUME UnitInv, buInit, UNCHANGED <<slot, saved, lame>>,
         job' \in UnitJobs, job'.what = "none", todo' \in Seq(CardBlock \cup {INFO})
  PROVE  UnitInv'
<1> DEFINE e == DirOf(slot)
<1>1. UnitTyped /\ SavedFilesStay /\ CardsInv /\ slot \in Cards /\ lame \in BOOLEAN
  BY DEF UnitInv, UnitTyped
<1>2. e \in DirEntries /\ cards[slot].new \in BOOLEAN
  BY <1>1, CardIs
<1>3. PICK new \in BOOLEAN : cards' = FlagOf(slot, new)
  BY <1>2 DEF buInit
<1>4. cards' \in [Cards -> CardStates] /\ \A c \in Cards : DirOf(c)' = DirOf(c)
  BY <1>1, <1>3, FlagIs DEF DirOf
<1>5. CardsInv' /\ SavedFilesStay' /\ \A c \in Cards : SavedAt(c)' = SavedAt(c)
  BY <1>4, CardsStay
<1>6. DirOf(slot)' = e /\ SavedAt(slot)' = SavedAt(slot)
  <2>1. DirOf(slot)' = cards'[slot].entries
    BY DEF DirOf
  <2>2. SavedAt(slot)' = SavedAt(slot)
    BY DEF SavedAt
  <2> QED BY <1>1, <1>3, <2>1, <2>2, FlagIs DEF DirOf
<1>7. dir' = Read(e) \/ dir' = ZeroedCard
  BY DEF buInit, DirOf
<1>8. CardHolds(e, SavedAt(slot), lame) /\ SavedAt(slot) \subseteq Singles(e)
  BY <1>1, SavedBlocks DEF CardsInv
<1>9. dir' \in DirEntries
  BY <1>1, <1>2, <1>7, <1>8, ReadOfCard, EmptyIs
<1>10. UnitTyped'
  BY <1>1, <1>4, <1>9 DEF UnitTyped
<1>11. DirInv'
  <2>1. CASE dir' = Read(e)
    BY <1>1, <1>2, <1>8, <2>1, ReadOfCard DEF DirInv
  <2>2. CASE dir' = ZeroedCard
    BY <2>2, ZeroedHolds DEF DirInv, Distinct
  <2> QED BY <1>7, <2>1, <2>2
<1>12. ASSUME dir' # ZeroedCard
       PROVE  /\ Agree(dir', e, KeptOf(e, SavedAt(slot), lame))
              /\ \A b \in CardBlock : dir'[b].state # "a0" => dir'[b] = e[b]
  BY <1>1, <1>2, <1>7, <1>8, <1>12, ReadOfCard
<1>13. KnownInv'
  BY <1>6, <1>12 DEF KnownInv, FreeBlocks
<1>14. SavedFilesFound'
  <2> SUFFICES ASSUME dir' # ZeroedCard, NEW x \in saved[slot]
               PROVE  x.block \in FoundAt(x.name)'
    BY DEF SavedFilesFound
  <2>1. x.block \in SavedAt(slot) /\ x.block \in CardBlock /\ e[x.block].name = x.name
    BY <1>1, SavedBlocks DEF SavedFilesStay, DirOf
  <2>2. x.block \in Singles(dir') /\ dir'[x.block].name = e[x.block].name
    BY <1>12, <2>1 DEF Agree, KeptOf
  <2> QED BY <2>1, <2>2, SinglesIs DEF FoundAt
<1> QED BY <1>5, <1>10, <1>11, <1>13, <1>14 DEF UnitInv, CreateInv, FormatInv

LEMMA DevInitKeeps == UnitInv /\ buDevInit => UnitInv'
<1> SUFFICES ASSUME UnitInv, buDevInit PROVE UnitInv'
  OBVIOUS
<1>1. job' = NoJob /\ todo' = todo /\ buInit /\ UNCHANGED <<slot, saved, lame>>
  BY DEF buDevInit
<1>2. todo \in Seq(CardBlock \cup {INFO})
  BY DEF UnitInv, UnitTyped
<1> QED BY <1>1, <1>2, NoJobIs, InitKeeps

LEMMA PowerKeeps == UnitInv /\ PowerCycle => UnitInv'
<1> SUFFICES ASSUME UnitInv, PowerCycle PROVE UnitInv'
  OBVIOUS
<1>1. job' = NoJob /\ todo' = <<>> /\ buInit /\ UNCHANGED <<slot, saved, lame>>
  BY DEF PowerCycle
<1>2. <<>> \in Seq(CardBlock \cup {INFO})
  OBVIOUS
<1> QED BY <1>1, <1>2, NoJobIs, InitKeeps

LEMMA ExchangeKeeps == UnitInv /\ ExchangeCard => UnitInv'
<1> SUFFICES ASSUME UnitInv, ExchangeCard PROVE UnitInv'
  OBVIOUS
<1>1. slot' \in Cards /\ cards' = FlagOf(slot', TRUE) /\ UNCHANGED <<dir, job, todo, saved, lame>>
  BY DEF ExchangeCard
<1>2. UnitTyped
  BY DEF UnitInv
<1>3. /\ cards' \in [Cards -> CardStates] /\ \A c \in Cards : DirOf(c)' = DirOf(c)
      /\ cards'[slot'].new
  BY <1>1, <1>2, FlagIs DEF DirOf
<1>4. CardsInv' /\ SavedFilesStay'
  BY <1>1, <1>3, CardsStay
<1>5. UnitTyped'
  BY <1>1, <1>2, <1>3 DEF UnitTyped
<1>6. DirInv' /\ SavedFilesFound' /\ KnownInv'
  BY <1>1, <1>3 DEF UnitInv, DirInv, SavedFilesFound, KnownInv
<1>7. CreateInv'
  BY <1>1, <1>3 DEF UnitInv, CreateInv, FreeBlocks
<1>8. FormatInv'
  BY <1>1, <1>3 DEF UnitInv, FormatInv
<1> QED BY <1>4, <1>5, <1>6, <1>7, <1>8 DEF UnitInv

(* The directory d with a file made of the free blocks B in that of o.     *)
Made(d, o, B, name) ==
  LET n == Len(B) IN
  /\ d \in DirEntries
  /\ \A b \in CardBlock : b \notin Range(B) => d[b] = o[b]
  /\ d[B[1]].state = "51" /\ d[B[1]].size = n /\ d[B[1]].name = name
  /\ \A i \in 1 .. n : i # 1 => d[B[i]].state \in {"52", "53"}
  /\ \A i \in 1 .. n : d[B[i]].next = IF i = n THEN NoBlock ELSE B[i + 1]

LEMMA EntryMade ==
  ASSUME NEW st \in AllocState, NEW sz \in 0 .. BlockCount, NEW nx \in CardBlock \cup {NoBlock},
         NEW nm \in FileNames \cup {NoName}
  PROVE  LET x == [state |-> st, size |-> sz, next |-> nx, name |-> nm]
         IN  x \in DirEntry /\ x.state = st /\ x.size = sz /\ x.next = nx /\ x.name = nm
BY DEF DirEntry

LEMMA ClaimedIs ==
  ASSUME dir \in DirEntries, NEW B \in Seq(CardBlock), Len(B) \in 1 .. BlockCount,
         \A i, j \in 1 .. Len(B) : i < j => B[i] < B[j],
         NEW name \in FileNames
  PROVE  Made(Claimed(B, name), dir, B, name)
<1> DEFINE n == Len(B)
           At(b) == CHOOSE j \in 1 .. n : B[j] = b
           d == Claimed(B, name)
           E(b) == [state |-> IF At(b) = 1 THEN "51" ELSE IF At(b) = n THEN "53" ELSE "52",
                    size |-> IF At(b) = 1 THEN n ELSE dir[b].size,
                    next |-> IF At(b) = n THEN NoBlock ELSE B[At(b) + 1],
                    name |-> IF At(b) = 1 THEN name ELSE dir[b].name]
<1>1. n \in Nat /\ n >= 1 /\ n \in 0 .. BlockCount /\ \A i \in 1 .. n : B[i] \in CardBlock
  BY UnitFacts
<1>2. Range(B) = {B[i] : i \in 1 .. n}
  <2>1. DOMAIN B = 1 .. n
    OBVIOUS
  <2> QED BY <2>1 DEF Range
<1>3. d = [b \in CardBlock |-> IF ~Contains(B, b) THEN dir[b] ELSE E(b)]
  BY DEF Claimed
<1>4. \A b : Contains(B, b) <=> b \in Range(B)
  BY <1>2 DEF Contains
<1>5. ASSUME NEW i \in 1 .. n PROVE At(B[i]) = i
  <2>1. At(B[i]) \in 1 .. n /\ B[At(B[i])] = B[i]
    OBVIOUS
  <2> HIDE DEF At
  <2>2. B[i] \in Nat /\ B[At(B[i])] \in Nat
    BY <1>1, <2>1, UnitFacts
  <2>3. ~(i < At(B[i])) /\ ~(At(B[i]) < i)
    BY <2>1, <2>2
  <2> QED BY <2>1, <2>3
<1>6. \A b \in CardBlock : b \notin Range(B) => d[b] = dir[b]
  BY <1>3, <1>4
<1>7. ASSUME NEW i \in 1 .. n
      PROVE  /\ d[B[i]] \in DirEntry
             /\ d[B[i]].state = IF i = 1 THEN "51" ELSE IF i = n THEN "53" ELSE "52"
             /\ i = 1 => d[B[i]].size = n /\ d[B[i]].name = name
             /\ d[B[i]].next = IF i = n THEN NoBlock ELSE B[i + 1]
  <2>1. d[B[i]] = E(B[i])
    <3>1. B[i] \in CardBlock /\ Contains(B, B[i])
      BY <1>1, <1>2, <1>4
    <3> HIDE DEF E
    <3> QED BY <1>3, <3>1
  <2>2. PICK st, sz, nx, nm : /\ st = IF i = 1 THEN "51" ELSE IF i = n THEN "53" ELSE "52"
                              /\ sz = IF i = 1 THEN n ELSE dir[B[i]].size
                              /\ nx = IF i = n THEN NoBlock ELSE B[i + 1]
                              /\ nm = IF i = 1 THEN name ELSE dir[B[i]].name
    OBVIOUS
  <2> HIDE DEF d, At, n
  <2>3. d[B[i]] = [state |-> st, size |-> sz, next |-> nx, name |-> nm]
    BY <1>5, <2>1, <2>2
  <2>4. dir[B[i]] \in DirEntry
    BY <1>1, EntryFacts
  <2>5. dir[B[i]].size \in 0 .. BlockCount /\ dir[B[i]].name \in FileNames \cup {NoName}
    BY <2>4 DEF DirEntry
  <2>6. i # n => i + 1 \in 1 .. n
    BY <1>1
  <2>7. nx \in CardBlock \cup {NoBlock}
    BY <1>1, <2>2, <2>6
  <2>8. sz \in 0 .. BlockCount
    BY <1>1, <2>2, <2>5
  <2>9. st \in AllocState /\ nm \in FileNames \cup {NoName}
    BY <2>2, <2>5 DEF AllocState
  <2>10. /\ d[B[i]] \in DirEntry /\ d[B[i]].state = st /\ d[B[i]].size = sz
         /\ d[B[i]].next = nx /\ d[B[i]].name = nm
    BY <2>3, <2>7, <2>8, <2>9, EntryMade
  <2> QED BY <2>2, <2>10
<1>9. d \in DirEntries
  <2>1. \A b \in CardBlock : d[b] \in DirEntry
    <3> HIDE DEF d
    <3> QED BY <1>2, <1>6, <1>7, EntryFacts
  <2>2. d = [b \in CardBlock |-> d[b]]
    BY <1>3
  <2> HIDE DEF d
  <2> QED BY <2>1, <2>2 DEF DirEntries
<1>10. 1 \in 1 .. n
  BY <1>1
<1> HIDE DEF d, E, At
<1>11. d[B[1]].state = "51" /\ d[B[1]].size = n /\ d[B[1]].name = name
  BY <1>7, <1>10
<1>12. \A i \in 1 .. n : i # 1 => d[B[i]].state \in {"52", "53"}
  BY <1>7
<1>13. \A i \in 1 .. n : d[B[i]].next = IF i = n THEN NoBlock ELSE B[i + 1]
  BY <1>7
<1>14. Made(d, dir, B, name)
  BY <1>6, <1>9, <1>11, <1>12, <1>13 DEF Made
<1> QED BY <1>14 DEF d

(* A directory stays one when a file is made in its free blocks.           *)
LEMMA MadeHolds ==
  ASSUME NEW o \in DirEntries, WellFormed(o), LinksLead(o), NoneZero(o),
         NEW B \in Seq(CardBlock), Len(B) >= 1,
         \A i, j \in 1 .. Len(B) : i < j => B[i] < B[j],
         \A i \in 1 .. Len(B) : o[B[i]].state = "a0",
         NEW name, NEW d, Made(d, o, B, name)
  PROVE  WellFormed(d) /\ LinksLead(d) /\ NoneZero(d)
<1> DEFINE n == Len(B)
<1>1. n \in Nat /\ n >= 1 /\ 1 \in 1 .. n /\ \A i \in 1 .. n : B[i] \in CardBlock /\ B[i] \in Nat
  BY UnitFacts
<1>2. Range(B) = {B[i] : i \in 1 .. n}
  <2>1. DOMAIN B = 1 .. n
    OBVIOUS
  <2> QED BY <2>1 DEF Range
<1>3. /\ d \in DirEntries
      /\ \A b \in CardBlock : b \notin Range(B) => d[b] = o[b]
      /\ d[B[1]].state = "51" /\ d[B[1]].size = n /\ d[B[1]].name = name
      /\ \A i \in 1 .. n : i # 1 => d[B[i]].state \in {"52", "53"}
      /\ \A i \in 1 .. n : d[B[i]].next = IF i = n THEN NoBlock ELSE B[i + 1]
  BY DEF Made
<1>4. \A b \in CardBlock : b \in Range(B) => o[b].state = "a0"
  BY <1>2
<1> HIDE DEF n
<1>5. \A i \in 1 .. n : i # n => i + 1 \in 1 .. n /\ B[i + 1] > B[i] /\ B[i + 1] # NoBlock
  <2> SUFFICES ASSUME NEW i \in 1 .. n, i # n
               PROVE  i + 1 \in 1 .. n /\ B[i + 1] > B[i] /\ B[i + 1] # NoBlock
    OBVIOUS
  <2>1. i + 1 \in 1 .. n /\ i < i + 1
    BY <1>1
  <2>2. B[i] < B[i + 1]
    BY <2>1 DEF n
  <2> QED BY <1>1, <2>1, <2>2, UnitFacts
<1>6. NoneZero(d)
  BY <1>2, <1>3 DEF NoneZero
<1>7. WellFormed(d)
  <2> SUFFICES ASSUME NEW b \in CardBlock
               PROVE  /\ d[b].state \in {"51", "52", "53"} => d[b].next = NoBlock \/ d[b].next > b
                      /\ d[b].state = "51" => /\ d[b].size >= 1
                                              /\ d[b].size > 1 => d[b].next # NoBlock
                                              /\ d[b].size = 1 /\ d[b].next # NoBlock => b = 0
                      /\ d[b].state = "a0" => d[b] = FreeEntry
    BY DEF WellFormed
  <2>1. CASE b \notin Range(B)
    BY <1>3, <2>1 DEF WellFormed
  <2>2. CASE b \in Range(B)
    <3>1. PICK i \in 1 .. n : b = B[i]
      BY <1>2, <2>2
    <3>2. d[b].next = NoBlock \/ d[b].next > b
      BY <1>3, <1>5, <3>1
    <3>3. CASE i = 1
      <4>1. d[b].next = IF n = 1 THEN NoBlock ELSE B[1 + 1]
        BY <1>1, <1>3, <3>1, <3>3
      <4>2. n # 1 => d[b].next # NoBlock
        BY <1>1, <1>5, <3>3, <4>1
      <4>3. d[b].state = "51" /\ d[b].size = n
        BY <1>3, <3>1, <3>3
      <4> QED BY <1>1, <3>2, <4>1, <4>2, <4>3
    <3>4. CASE i # 1
      BY <1>3, <3>1, <3>2, <3>4
    <3> QED BY <3>3, <3>4
  <2> QED BY <2>1, <2>2
<1>8. ASSUME NEW b \in Linked(d), d[b].next # NoBlock
      PROVE  \/ /\ b \in Linked(o) /\ d[b] = o[b] /\ d[b].next \notin Range(B)
                /\ d[d[b].next].state \in {"52", "53"}
             \/ \E i \in 1 .. n : /\ i # n /\ b = B[i] /\ d[b].next = B[i + 1]
                                  /\ d[d[b].next].state \in {"52", "53"}
  <2>1. b \in CardBlock
    BY DEF Linked, Beginnings
  <2>2. CASE b \notin Range(B)
    <3>1. d[b] = o[b] /\ b \in Linked(o)
      BY <1>3, <2>1, <2>2 DEF Linked, Beginnings, Singles
    <3>2. o[b].next # NoBlock /\ o[o[b].next].state \in {"52", "53"} /\ o[b].next \in CardBlock
      BY <1>8, <2>1, <3>1, EntryFacts DEF LinksLead
    <3> QED BY <1>3, <1>4, <3>1, <3>2
  <2>3. CASE b \in Range(B)
    <3>1. PICK i \in 1 .. n : b = B[i]
      BY <1>2, <2>3
    <3>2. i # n /\ d[b].next = B[i + 1]
      BY <1>3, <1>8, <3>1
    <3>3. i + 1 \in 1 .. n /\ i + 1 # 1
      BY <1>5, <3>2
    <3> QED BY <1>3, <3>1, <3>2, <3>3
  <2> QED BY <2>2, <2>3
<1>9. \A i, j \in 1 .. n : B[i] = B[j] => i = j
  <2> SUFFICES ASSUME NEW i \in 1 .. n, NEW j \in 1 .. n, B[i] = B[j] PROVE i = j
    OBVIOUS
  <2>1. ~(i < j) /\ ~(j < i)
    BY <1>1 DEF n
  <2> QED BY <2>1
<1>10. ASSUME NEW b \in Linked(d), NEW c \in Linked(d), b # c, d[b].next = d[c].next,
              d[b].next # NoBlock
       PROVE  FALSE
  <2>1. CASE d[b].next \notin Range(B)
    <3>1. \A i \in 1 .. n : i # n => B[i + 1] \in Range(B)
      BY <1>2, <1>5
    <3>2. b \in Linked(o) /\ d[b] = o[b] /\ c \in Linked(o) /\ d[c] = o[c]
      BY <1>8, <1>10, <2>1, <3>1
    <3> QED BY <1>10, <3>2 DEF LinksLead
  <2>2. CASE d[b].next \in Range(B)
    <3>1. PICK i \in 1 .. n : i # n /\ b = B[i] /\ d[b].next = B[i + 1]
      BY <1>8, <1>10, <2>2
    <3>2. PICK j \in 1 .. n : j # n /\ c = B[j] /\ d[c].next = B[j + 1]
      BY <1>8, <1>10, <2>2
    <3>3. i + 1 = j + 1
      BY <1>5, <1>9, <1>10, <3>1, <3>2
    <3>4. i = j
      BY <3>3
    <3> QED BY <1>10, <3>1, <3>2, <3>4
  <2> QED BY <2>1, <2>2
<1>11. LinksLead(d)
  BY <1>8, <1>10 DEF LinksLead
<1> QED BY <1>6, <1>7, <1>11

LEMMA TocIs ==
  ASSUME NEW B \in Seq(CardBlock), B # <<>>
  PROVE  /\ buWriteTOC(B) \in Seq(CardBlock \cup {INFO}) /\ buWriteTOC(B) # <<>>
         /\ Range(buWriteTOC(B)) = Range(B) \cup {INFO}
<1> DEFINE X == CardBlock \cup {INFO}
           u == <<INFO, B[1], INFO>>
           t == Tail(B) \o u
           m == Len(B) - 1
<1>1. /\ Tail(B) \in Seq(CardBlock) /\ Len(Tail(B)) = m /\ m \in Nat /\ Head(B) = B[1]
      /\ B[1] \in CardBlock /\ Range(B) = {B[1]} \cup Range(Tail(B)) /\ Range(B) \subseteq CardBlock
  BY TodoParts
<1>2. Tail(B) \in Seq(X)
  BY <1>1
<1>3. u \in Seq(X) /\ Len(u) = 3 /\ u[1] = INFO /\ u[2] = B[1] /\ u[3] = INFO
  BY <1>1
<1> HIDE DEF X, u
<1>4. /\ t \in Seq(X) /\ Len(t) = m + 3
      /\ \A i \in 1 .. m : t[i] = Tail(B)[i]
      /\ \A i \in m + 1 .. m + 3 : t[i] = u[i - m]
  <2>1. m = Len(Tail(B)) /\ m + 3 = m + Len(u)
    BY <1>1, <1>3
  <2> DEFINE v == Tail(B)
  <2> HIDE DEF v
  <2>2. v \in Seq(X) /\ Len(v) = m /\ t = v \o u
    BY <1>1, <1>2 DEF v, t
  <2> HIDE DEF m, t
  <2>3. /\ v \o u \in Seq(X) /\ Len(v \o u) = Len(v) + Len(u)
        /\ \A i \in 1 .. Len(v) + Len(u) : (v \o u)[i] = IF i <= Len(v) THEN v[i] ELSE u[i - Len(v)]
    BY <1>3, <2>2, ConcatProperties
  <2>4. /\ t \in Seq(X) /\ Len(t) = m + 3
        /\ \A i \in 1 .. m + 3 : t[i] = IF i <= m THEN v[i] ELSE u[i - m]
    BY <1>3, <2>2, <2>3
  <2>5. \A i \in 1 .. m : i \in 1 .. m + 3 /\ i <= m
    BY <1>1
  <2>6. \A i \in m + 1 .. m + 3 : i \in 1 .. m + 3 /\ ~(i <= m)
    BY <1>1
  <2>7. \A i \in 1 .. m : t[i] = v[i]
    BY <2>4, <2>5
  <2>8. \A i \in m + 1 .. m + 3 : t[i] = u[i - m]
    BY <2>4, <2>6
  <2> QED BY <2>4, <2>7, <2>8 DEF v
<1> HIDE DEF t
<1>5. Range(t) = {t[i] : i \in 1 .. m + 3} /\ Range(Tail(B)) = {Tail(B)[i] : i \in 1 .. m}
  <2>1. DOMAIN t = 1 .. m + 3 /\ DOMAIN Tail(B) = 1 .. m
    BY <1>1, <1>4
  <2> QED BY <2>1 DEF Range
<1> HIDE DEF m
<1>6. m + 1 \in m + 1 .. m + 3 /\ m + 2 \in m + 1 .. m + 3 /\ m + 3 \in m + 1 .. m + 3
      /\ m + 1 - m = 1 /\ m + 2 - m = 2 /\ m + 3 - m = 3 /\ m + 1 .. m + 3 \subseteq 1 .. m + 3
      /\ 1 .. m \subseteq 1 .. m + 3
  BY <1>1
<1>7. t[m + 1] = INFO /\ t[m + 2] = B[1] /\ t[m + 3] = INFO
  <2>1. t[m + 1] = u[1] /\ t[m + 2] = u[2] /\ t[m + 3] = u[3]
    <3>1. ASSUME NEW i \in m + 1 .. m + 3
          PROVE  /\ i = m + 1 => t[i] = u[1]
                 /\ i = m + 2 => t[i] = u[2]
                 /\ i = m + 3 => t[i] = u[3]
      <4>1. t[i] = u[i - m]
        BY <1>4
      <4>2. (i = m + 1 => i - m = 1) /\ (i = m + 2 => i - m = 2) /\ (i = m + 3 => i - m = 3)
        BY <1>1
      <4> QED BY <4>1, <4>2
    <3> QED BY <1>6, <3>1
  <2> QED BY <1>3, <2>1
<1>8. ASSUME NEW x \in Range(t) PROVE x \in Range(B) \cup {INFO}
  <2>1. PICK i \in 1 .. m + 3 : x = t[i]
    BY <1>5
  <2>2. i \in 1 .. m \/ i = m + 1 \/ i = m + 2 \/ i = m + 3
    BY <1>1
  <2> QED BY <1>1, <1>4, <1>5, <1>7, <2>1, <2>2
<1>9. ASSUME NEW x \in Range(B) \cup {INFO} PROVE x \in Range(t)
  <2>1. CASE x = INFO
    BY <1>5, <1>6, <1>7, <2>1
  <2>2. CASE x = B[1]
    BY <1>5, <1>6, <1>7, <2>2
  <2>3. CASE x \in Range(Tail(B))
    <3>1. PICK i \in 1 .. m : x = Tail(B)[i]
      BY <1>5, <2>3
    <3>2. i \in 1 .. m + 3 /\ t[i] = x
      BY <1>4, <1>6, <3>1
    <3> QED BY <1>5, <3>2
  <2> QED BY <1>1, <2>1, <2>2, <2>3
<1>10. t # <<>>
  BY <1>1, <1>4
<1> QED BY <1>4, <1>8, <1>9, <1>10 DEF buWriteTOC, t, u, X

LEMMA CreateKeeps ==
  ASSUME UnitInv, NEW name \in FileNames, NEW n \in 1 .. BlockCount, Create(name, n)
  PROVE  UnitInv'
<1> DEFINE B == FirstFree(n)
<1>1. /\ job = NoJob /\ FoundAt(name) = {} /\ n =< Cardinality(FreeBlocks)
      /\ dir' = Claimed(B, name)
      /\ job' = [what |-> "create", name |-> name, size |-> n, blocks |-> B]
      /\ todo' = buWriteTOC(B)
      /\ UNCHANGED <<cards, slot, saved, lame>>
  BY DEF Create
<1>2. n \in Nat /\ n >= 1 /\ n \in 0 .. BlockCount
  BY UnitFacts
<1>3. /\ B \in Seq(CardBlock) /\ Len(B) = n
      /\ \A i \in 1 .. n : B[i] \in FreeBlocks
      /\ \A i, j \in 1 .. n : i < j => B[i] < B[j]
      /\ \A b \in FreeBlocks : b > B[n] \/ \E i \in 1 .. n : b = B[i]
  BY <1>1, <1>2, FirstFreeIs
<1> HIDE DEF B
<1>4. /\ UnitTyped /\ SavedFilesStay /\ CardsInv /\ slot \in Cards /\ lame \in BOOLEAN
      /\ dir \in DirEntries /\ job.what = "none"
  BY <1>1, NoJobIs DEF UnitInv, UnitTyped
<1>5. 1 \in 1 .. n /\ n \in 1 .. n
  BY <1>2
<1>6. Range(B) = {B[i] : i \in 1 .. n} /\ Range(B) \subseteq FreeBlocks /\ FreeBlocks \subseteq CardBlock
  <2>1. DOMAIN B = 1 .. n
    BY <1>3
  <2> QED BY <1>3, <2>1, FreeFacts DEF Range
<1>7. \A b : b \in FreeBlocks <=> b \in CardBlock /\ dir[b].state = "a0"
  BY DEF FreeBlocks
<1>8. FreeBlocks # {} /\ dir # ZeroedCard
  <2>1. B[1] \in FreeBlocks
    BY <1>3, <1>5
  <2> QED BY <1>7, <2>1, EmptyIs
<1>9. WellFormed(dir) /\ LinksLead(dir) /\ NoneZero(dir) /\ (~lame => Distinct(dir, Beginnings(dir)))
  BY <1>4, <1>8 DEF UnitInv, DirInv
<1>10. Made(dir', dir, B, name)
  BY <1>1, <1>3, <1>4, ClaimedIs
<1>11. /\ dir' \in DirEntries
       /\ \A b \in CardBlock : b \notin Range(B) => dir'[b] = dir[b]
       /\ dir'[B[1]].state = "51" /\ dir'[B[1]].size = n /\ dir'[B[1]].name = name
       /\ \A i \in 1 .. n : i # 1 => dir'[B[i]].state \in {"52", "53"}
  BY <1>3, <1>10 DEF Made
<1>12. WellFormed(dir') /\ LinksLead(dir') /\ NoneZero(dir')
  <2>1. \A i \in 1 .. Len(B) : dir[B[i]].state = "a0"
    BY <1>3, <1>7
  <2> QED BY <1>2, <1>3, <1>4, <1>9, <1>10, <2>1, MadeHolds
<1>13. job' \in UnitJobs /\ job'.what = "create" /\ job'.blocks = B /\ job'.size = n /\ job'.name = name
  BY <1>1, <1>2, <1>3 DEF UnitJobs
<1>14. B # <<>>
  BY <1>2, <1>3
<1>15. todo' \in Seq(CardBlock \cup {INFO}) /\ todo' # <<>> /\ Range(todo') = Range(B) \cup {INFO}
  BY <1>1, <1>3, <1>14, TocIs
<1>16. UnitTyped'
  BY <1>1, <1>4, <1>11, <1>13, <1>15 DEF UnitTyped
<1>17. CardsInv' /\ SavedFilesStay' /\ \A c \in Cards : DirOf(c)' = DirOf(c) /\ SavedAt(c)' = SavedAt(c)
  BY <1>1, CardsStay DEF DirOf
<1>18. DirOf(slot)' = DirOf(slot) /\ SavedAt(slot)' = SavedAt(slot)
  BY <1>1 DEF DirOf, SavedAt
<1>19. \A b \in Beginnings(dir') : b = B[1] \/ (b \in Beginnings(dir) /\ dir'[b] = dir[b])
  <2> SUFFICES ASSUME NEW b \in CardBlock, dir'[b].state = "51", b # B[1]
               PROVE  dir[b].state = "51" /\ dir'[b] = dir[b]
    BY DEF Beginnings
  <2>1. b \notin Range(B)
    BY <1>6, <1>11
  <2> QED BY <1>11, <2>1
<1>20. ~lame => Distinct(dir', Beginnings(dir'))
  <2>1. \A b \in Beginnings(dir) : dir[b].name # name
    BY <1>1 DEF FoundAt, Beginnings
  <2> QED BY <1>9, <1>11, <1>19, <2>1 DEF Distinct
<1>21. DirInv'
  BY <1>1, <1>12, <1>20 DEF DirInv
<1>22. \A b \in CardBlock : b \in Singles(dir) => b \in Singles(dir') /\ dir'[b] = dir[b]
  <2> SUFFICES ASSUME NEW b \in Singles(dir) PROVE b \in Singles(dir') /\ dir'[b] = dir[b]
    OBVIOUS
  <2>1. b \in CardBlock /\ b \notin Range(B)
    BY <1>6, <1>7, SinglesIs
  <2> QED BY <1>11, <2>1, SinglesIs
<1>23. SavedFilesFound'
  <2> SUFFICES ASSUME ~cards[slot].new, NEW x \in saved[slot] PROVE x.block \in FoundAt(x.name)'
    BY <1>1 DEF SavedFilesFound
  <2>1. x.block \in FoundAt(x.name)
    BY <1>4, <1>8 DEF UnitInv, SavedFilesFound
  <2>2. x.block \in CardBlock /\ dir[x.block].state = "51" /\ dir[x.block].name = x.name
    BY <2>1 DEF FoundAt
  <2>3. dir'[x.block] = dir[x.block]
    BY <1>6, <1>7, <1>11, <2>2
  <2> QED BY <2>2, <2>3 DEF FoundAt
<1>24. ASSUME ~cards[slot].new PROVE Range(B) \cap SavedAt(slot) = {}
  <2>1. \A x \in saved[slot] : x.block \in FoundAt(x.name)
    BY <1>4, <1>8, <1>24 DEF UnitInv, SavedFilesFound
  <2>2. \A x \in saved[slot] : dir[x.block].state = "51"
    BY <2>1 DEF FoundAt
  <2> QED BY <1>6, <1>7, <2>2 DEF SavedAt
<1>25. ASSUME ~cards[slot].new
       PROVE  /\ Agree(dir, DirOf(slot), KeptOf(DirOf(slot), SavedAt(slot), lame))
              /\ \A b \in CardBlock : b \in FreeBlocks \/ dir[b] = DirOf(slot)[b]
  BY <1>4, <1>8, <1>25 DEF UnitInv, KnownInv
<1>26. KnownInv'
  <2> SUFFICES ASSUME ~cards[slot].new
               PROVE  Agree(dir', DirOf(slot), KeptOf(DirOf(slot), SavedAt(slot), lame))
    BY <1>1, <1>13, <1>18 DEF KnownInv
  <2> QED BY <1>22, <1>25, SinglesIs DEF Agree
<1>27. \A b : b \in FreeBlocks' <=> b \in FreeBlocks /\ b \notin Range(B)
  <2>1. \A b : b \in FreeBlocks' <=> b \in CardBlock /\ dir'[b].state = "a0"
    BY DEF FreeBlocks
  <2>2. \A b \in Range(B) : dir'[b].state # "a0"
    BY <1>6, <1>11
  <2> QED BY <1>6, <1>7, <1>11, <2>1, <2>2
<1>28. \A i \in 1 .. n : \A b \in FreeBlocks' : b > B[i]
  <2> SUFFICES ASSUME NEW i \in 1 .. n, NEW b \in FreeBlocks' PROVE b > B[i]
    OBVIOUS
  <2>1. b \in FreeBlocks /\ b \notin Range(B)
    BY <1>27
  <2>2. b > B[n]
    BY <1>3, <1>6, <2>1
  <2>3. b \in Nat /\ B[i] \in Nat /\ B[n] \in Nat
    BY <1>3, <1>5, <1>6, <2>1, UnitFacts
  <2>4. i = n \/ B[i] < B[n]
    BY <1>2, <1>3, <1>5
  <2> QED BY <2>2, <2>3, <2>4
<1>29. \A i \in 1 .. n : B[1] =< B[i]
  <2> SUFFICES ASSUME NEW i \in 1 .. n PROVE B[1] =< B[i]
    OBVIOUS
  <2>1. B[1] \in Nat /\ B[i] \in Nat
    BY <1>3, <1>5, <1>6, UnitFacts
  <2>2. i = 1 \/ B[1] < B[i]
    BY <1>3, <1>5
  <2> QED BY <2>1, <2>2
<1>30. \A b \in CardBlock : b \in FreeBlocks' \cup Range(todo') \/ (~cards[slot].new => dir'[b] = DirOf(slot)[b])
  BY <1>11, <1>15, <1>25, <1>27
<1>31. CreateInv'
  <2>1. job'.blocks = B /\ Len(B) = n
    BY <1>3, <1>13
  <2>2. ~cards'[slot'].new => ~cards[slot].new
    BY <1>1
  <2>3. ~cards'[slot'].new =>
         /\ Range(B) \cap SavedAt(slot)' = {}
         /\ \A b \in CardBlock : b \in FreeBlocks' \cup Range(todo') \/ dir'[b] = DirOf(slot)'[b]
    BY <1>18, <1>24, <1>30, <2>2
  <2>4. \A i \in 1 .. n : B[1] =< B[i] /\ (i = 1 \/ dir'[B[i]].state \in {"52", "53"})
    BY <1>11, <1>29
  <2>5. Range(todo') \subseteq Range(B) \cup {INFO}
    BY <1>15
  <2> QED BY <1>11, <1>13, <1>14, <1>15, <1>28, <2>1, <2>3, <2>4, <2>5 DEF CreateInv
<1>32. FormatInv'
  BY <1>13 DEF FormatInv
<1> QED BY <1>16, <1>17, <1>21, <1>23, <1>26, <1>31, <1>32 DEF UnitInv

LEMMA WrittenIs ==
  ASSUME UnitTyped, NEW h \in CardBlock, NEW v \in DirEntry
  PROVE  LET C == [cards EXCEPT ![slot].entries[h] = v]
         IN  /\ C \in [Cards -> CardStates]
             /\ \A c \in Cards : C[c].new = cards[c].new
             /\ \A c \in Cards : c # slot => C[c] = cards[c]
             /\ \A b \in CardBlock : C[slot].entries[b] = IF b = h THEN v ELSE DirOf(slot)[b]
<1> DEFINE C == [cards EXCEPT ![slot].entries[h] = v]
<1>1. cards \in [Cards -> CardStates] /\ slot \in Cards /\ cards[slot] \in CardStates
  BY DEF UnitTyped
<1>2. PICK r : r = cards[slot]
  OBVIOUS
<1> DEFINE y == [r EXCEPT !.entries[h] = v]
<1>3. r.entries \in [CardBlock -> DirEntry] /\ r.new \in BOOLEAN
  BY <1>1, <1>2 DEF CardStates, DirEntries
<1>4. y \in CardStates /\ y.new = r.new
      /\ \A b \in CardBlock : y.entries[b] = IF b = h THEN v ELSE r.entries[b]
  BY <1>1, <1>2, <1>3 DEF CardStates, DirEntries
<1>5. C = [cards EXCEPT ![slot] = y]
  BY <1>2
<1> HIDE DEF y
<1> QED BY <1>1, <1>2, <1>4, <1>5 DEF DirOf

LEMMA FreeWritten ==
  ASSUME UnitTyped, NEW h \in CardBlock
  PROVE  LET C == [cards EXCEPT ![slot].entries[h] = FreeEntry]
         IN  /\ C \in [Cards -> CardStates]
             /\ \A c \in Cards : C[c].new = cards[c].new
             /\ \A c \in Cards : c # slot => C[c] = cards[c]
             /\ \A b \in CardBlock : C[slot].entries[b] = IF b = h THEN FreeEntry ELSE DirOf(slot)[b]
<1>1. PICK v \in DirEntry : v = FreeEntry
  BY FreeEntryIs
<1> QED BY <1>1, WrittenIs

LEMMA FormatKeepsCards == UnitInv /\ Format => UnitInv'
<1> SUFFICES ASSUME UnitInv, Format PROVE UnitInv'
  OBVIOUS
<1>1. UnitTyped /\ SavedFilesStay /\ CardsInv /\ slot \in Cards /\ cards[slot].new \in BOOLEAN
  <2>1. UnitTyped
    BY DEF UnitInv
  <2>2. slot \in Cards
    BY <2>1 DEF UnitTyped
  <2> QED BY <2>1, <2>2, CardIs DEF UnitInv
<1>2. PICK new \in BOOLEAN : cards' = FlagOf(slot, new)
  BY <1>1 DEF Format
<1>3. /\ saved' = [saved EXCEPT ![slot] = {}]
      /\ job' = [NoJob EXCEPT !.what = "format"]
      /\ todo' = [i \in 1 .. BlockCount |-> i - 1]
      /\ UNCHANGED <<slot, dir, lame>>
  BY DEF Format
<1>4. cards' \in [Cards -> CardStates] /\ \A c \in Cards : DirOf(c)' = DirOf(c)
  BY <1>1, <1>2, FlagIs DEF DirOf
<1>5. saved' \in SavedSets /\ saved'[slot] = {} /\ \A c \in Cards : saved'[c] \subseteq saved[c]
  BY <1>1, <1>3 DEF UnitTyped, SavedSets
<1>6. \A c \in Cards : SavedAt(c)' \subseteq SavedAt(c)
  BY <1>5 DEF SavedAt
<1>7. CardsInv'
  <2> SUFFICES ASSUME NEW c \in Cards PROVE CardHolds(DirOf(c)', SavedAt(c)', lame')
    BY DEF CardsInv
  <2>1. CardHolds(DirOf(c), SavedAt(c), lame)
    BY <1>1 DEF CardsInv
  <2> QED BY <1>3, <1>4, <1>6, <2>1 DEF CardHolds, KeptOf, Unlinked
<1>8. SavedFilesStay'
  <2> SUFFICES ASSUME NEW c \in Cards, NEW x \in saved'[c]
               PROVE  /\ DirOf(c)'[x.block].state = "51" /\ DirOf(c)'[x.block].name = x.name
                      /\ DirOf(c)'[x.block].size = 1
    BY DEF SavedFilesStay, DirOf
  <2>1. x \in saved[c]
    BY <1>5
  <2> QED BY <1>1, <1>4, <2>1 DEF SavedFilesStay, DirOf
<1>9. job' \in UnitJobs /\ job'.what = "format"
  <2>1. PICK j : j = NoJob
    OBVIOUS
  <2>2. j \in UnitJobs /\ job' = [j EXCEPT !.what = "format"]
    BY <1>3, <2>1, NoJobIs
  <2> QED BY <2>2 DEF UnitJobs
<1>10. /\ todo' \in Seq(CardBlock \cup {INFO}) /\ Len(todo') = BlockCount
       /\ \A i \in 1 .. BlockCount : todo'[i] = i - 1
  <2>1. \A i \in 1 .. BlockCount : i - 1 \in CardBlock
    BY UnitFacts
  <2>2. BlockCount \in Nat
    BY UnitFacts
  <2> QED BY <1>3, <2>1, <2>2
<1>11. UnitTyped'
  BY <1>1, <1>3, <1>4, <1>5, <1>9, <1>10 DEF UnitTyped
<1>12. DirInv'
  BY <1>3, <1>9 DEF DirInv, UnitInv
<1>13. FormatInv'
  <2>1. BlockCount - Len(todo') = 0 /\ Len(todo') \in 1 .. BlockCount
    BY <1>10, UnitFacts
  <2>2. \A i \in 1 .. Len(todo') : todo'[i] = 0 + i - 1
    BY <1>10
  <2>3. \A b \in CardBlock : ~(b < 0)
    BY UnitFacts
  <2> QED BY <1>3, <1>5, <2>1, <2>2, <2>3 DEF FormatInv
<1> QED BY <1>7, <1>8, <1>9, <1>11, <1>12, <1>13
        DEF UnitInv, SavedFilesFound, CreateInv, KnownInv

LEMMA FormatWritesKeeps == UnitInv /\ FormatWrites => UnitInv'
<1> SUFFICES ASSUME UnitInv, FormatWrites PROVE UnitInv'
  OBVIOUS
<1> DEFINE done == BlockCount - Len(todo)
           h == Head(todo)
           e == DirOf(slot)
<1>1. /\ UnitTyped /\ SavedFilesStay /\ CardsInv /\ slot \in Cards /\ dir \in DirEntries
      /\ todo \in Seq(CardBlock \cup {INFO}) /\ lame \in BOOLEAN /\ job \in UnitJobs
  BY DEF UnitInv, UnitTyped
<1>2. job.what = "format"
  BY DEF FormatWrites
<1>3. /\ Len(todo) \in 1 .. BlockCount
      /\ \A i \in 1 .. Len(todo) : todo[i] = done + i - 1
      /\ \A b \in CardBlock : b < done => dir[b] = FreeEntry
      /\ ~cards[slot].new => saved[slot] = {}
      /\ ~cards[slot].new /\ ~lame => \A b \in CardBlock : b < done => e[b] = FreeEntry
  BY <1>2 DEF UnitInv, FormatInv
<1>4. todo # <<>>
  BY <1>3
<1>5. /\ Tail(todo) \in Seq(CardBlock \cup {INFO}) /\ Len(Tail(todo)) = Len(todo) - 1 /\ h = todo[1]
      /\ Len(todo) \in Nat /\ Len(todo) >= 1
      /\ \A i \in 1 .. Len(todo) - 1 : Tail(todo)[i] = todo[i + 1]
  BY <1>1, <1>4
<1> HIDE DEF h
<1>6. done \in Nat /\ done < BlockCount /\ h = done /\ h \in CardBlock /\ done = BlockCount - Len(todo)
  <2>1. done \in Nat /\ done < BlockCount /\ done = BlockCount - Len(todo)
    BY <1>3, UnitFacts
  <2>2. todo[1] = done + 1 - 1
    BY <1>3, <1>5
  <2> QED BY <1>5, <2>1, <2>2, UnitFacts
<1> HIDE DEF done, e
<1>7. /\ dir' = [dir EXCEPT ![h] = FreeEntry]
      /\ \/ ~cards[slot].new /\ lame' = lame /\ cards' = [cards EXCEPT ![slot].entries[h] = FreeEntry]
         \/ lame' = TRUE /\ cards' = cards
      /\ todo' = Tail(todo)
      /\ job' = IF Len(todo) = 1 THEN NoJob ELSE job
      /\ slot' = slot /\ saved' = saved
  BY DEF FormatWrites, h
<1>8. dir' \in DirEntries /\ \A b \in CardBlock : dir'[b] = IF b = h THEN FreeEntry ELSE dir[b]
  BY <1>1, <1>6, <1>7, FreeEntryIs DEF DirEntries
<1>9. \A b \in CardBlock : b < done + 1 => dir'[b] = FreeEntry
  <2> SUFFICES ASSUME NEW b \in CardBlock, b < done + 1 PROVE dir'[b] = FreeEntry
    OBVIOUS
  <2>1. b = h \/ b < done
    BY <1>6, UnitFacts
  <2> QED BY <1>3, <1>8, <2>1
<1>10. /\ cards' \in [Cards -> CardStates]
       /\ \A c \in Cards : cards'[c].new = cards[c].new
       /\ \A c \in Cards : c # slot => cards'[c] = cards[c]
       /\ \A b \in CardBlock : cards'[slot].entries[b] = e[b] \/ cards'[slot].entries[b] = FreeEntry
       /\ cards' # cards =>
            /\ ~cards[slot].new
            /\ \A b \in CardBlock : cards'[slot].entries[b] = IF b = h THEN FreeEntry ELSE e[b]
  <2>1. CASE cards' = cards
    BY <1>1, <2>1 DEF UnitTyped, DirOf, e
  <2>2. CASE ~cards[slot].new /\ cards' = [cards EXCEPT ![slot].entries[h] = FreeEntry]
    <3> DEFINE C == [cards EXCEPT ![slot].entries[h] = FreeEntry]
    <3>1. /\ C \in [Cards -> CardStates]
          /\ \A c \in Cards : C[c].new = cards[c].new
          /\ \A c \in Cards : c # slot => C[c] = cards[c]
          /\ \A b \in CardBlock : C[slot].entries[b] = IF b = h THEN FreeEntry ELSE DirOf(slot)[b]
      BY <1>1, <1>6, FreeEntryIs, WrittenIs
    <3>2. cards' = C
      BY <2>2
    <3> HIDE DEF C
    <3> QED BY <2>2, <3>1, <3>2 DEF e
  <2> QED BY <1>7, <2>1, <2>2
<1>11. (SavedAt(slot) = {} /\ saved[slot] = {}) \/ cards' = cards
  BY <1>3, <1>10 DEF SavedAt
<1>12. \A c \in Cards : SavedAt(c)' = SavedAt(c)
  BY <1>7 DEF SavedAt
<1>13. CardsInv'
  <2> SUFFICES ASSUME NEW c \in Cards PROVE CardHolds(DirOf(c)', SavedAt(c), lame')
    BY <1>12 DEF CardsInv
  <2>1. CardHolds(DirOf(c), SavedAt(c), lame)
    BY <1>1 DEF CardsInv
  <2>2. CASE DirOf(c)' = DirOf(c)
    <3>1. lame' = lame \/ lame' = TRUE
      BY <1>7
    <3> QED BY <1>1, <2>1, <2>2, <3>1 DEF CardHolds, KeptOf, Unlinked
  <2>3. CASE c = slot /\ cards' # cards
    <3> DEFINE o == DirOf(slot)'
    <3>1. lame' = lame /\ SavedAt(c) = {}
      BY <1>7, <1>11, <2>3
    <3>2. \A b \in CardBlock : o[b] = IF b = h THEN FreeEntry ELSE e[b]
      BY <1>7, <1>10, <2>3 DEF DirOf
    <3> HIDE DEF o
    <3>3. WellFormed(e) /\ NoneZero(e) /\ Unlinked(e, KeptOf(e, {}, lame))
          /\ (~lame => Distinct(e, Singles(e)))
      BY <2>1, <2>3, <3>1 DEF CardHolds, e
    <3>4. WellFormed(o) /\ NoneZero(o)
      BY <3>2, <3>3, FreeEntryIs DEF WellFormed, NoneZero
    <3>5. \A b \in Singles(o) : b \in Singles(e) /\ o[b] = e[b]
      BY <3>2, FreeEntryIs, SinglesIs
    <3>6. ~lame => Distinct(o, Singles(o))
      BY <3>3, <3>5 DEF Distinct
    <3>7. Unlinked(o, KeptOf(o, {}, lame))
      <4> SUFFICES ASSUME NEW b \in Singles(o), ~lame, NEW y \in CardBlock, y # b, o[y].next = b
                   PROVE  Grown(o, y)
        BY DEF Unlinked, KeptOf
      <4>1. b \in CardBlock /\ b # NoBlock
        BY SinglesIs, UnitFacts
      <4>2. y # h /\ o[y] = e[y]
        BY <3>2, <4>1, FreeEntryIs
      <4>3. Grown(e, y)
        BY <3>3, <3>5, <4>2 DEF Unlinked, KeptOf
      <4> QED BY <4>2, <4>3 DEF Grown
    <3>8. CardHolds(o, {}, lame)
      BY <3>4, <3>6, <3>7 DEF CardHolds
    <3>9. DirOf(c)' = o
      BY <1>7, <2>3 DEF o, DirOf
    <3> QED BY <3>1, <3>8, <3>9
  <2>4. DirOf(c)' = DirOf(c) \/ (c = slot /\ cards' # cards)
    BY <1>10 DEF DirOf
  <2> QED BY <2>2, <2>3, <2>4
<1>14. SavedFilesStay'
  <2> SUFFICES ASSUME NEW c \in Cards, NEW x \in saved[c]
               PROVE  /\ cards'[c].entries[x.block].state = "51"
                      /\ cards'[c].entries[x.block].name = x.name
                      /\ cards'[c].entries[x.block].size = 1
    BY <1>7 DEF SavedFilesStay
  <2>1. cards'[c] = cards[c]
    BY <1>10, <1>11
  <2> QED BY <1>1, <2>1 DEF SavedFilesStay
<1>15. job' \in UnitJobs /\ lame' \in BOOLEAN
  BY <1>1, <1>7, NoJobIs
<1>16. UnitTyped'
  BY <1>1, <1>5, <1>7, <1>8, <1>10, <1>15 DEF UnitTyped
<1>17. ~lame' => Distinct(dir', Beginnings(dir'))
  <2>1. \A b \in Beginnings(dir') : b \in Beginnings(dir) /\ dir'[b] = dir[b]
    BY <1>8, FreeEntryIs DEF Beginnings
  <2> QED BY <1>7, <2>1 DEF UnitInv, DirInv, Distinct
<1>18. ~cards'[slot'].new => ~cards[slot].new /\ saved'[slot'] = {} /\ SavedAt(slot)' = {}
  BY <1>1, <1>3, <1>7, <1>10 DEF SavedAt
<1>19. ASSUME ~cards[slot].new, ~lame', NEW b \in CardBlock, b < done + 1
       PROVE  DirOf(slot)'[b] = FreeEntry
  <2>1. lame' = lame /\ \A y \in CardBlock : cards'[slot].entries[y] = IF y = h THEN FreeEntry ELSE e[y]
    <3>1. ~cards[slot].new /\ lame' = lame /\ cards' = [cards EXCEPT ![slot].entries[h] = FreeEntry]
      BY <1>7, <1>19
    <3> DEFINE C == [cards EXCEPT ![slot].entries[h] = FreeEntry]
    <3>2. UnitTyped /\ h \in CardBlock
      BY <1>1, <1>6
    <3>22. \A y \in CardBlock : C[slot].entries[y] = IF y = h THEN FreeEntry ELSE DirOf(slot)[y]
      <4> HIDE DEF h
      <4> QED BY <3>2, FreeWritten
    <3>3. cards' = C
      BY <3>1
    <3> HIDE DEF C
    <3> QED BY <3>1, <3>22, <3>3 DEF e
  <2>2. b = h \/ b < done
    BY <1>6, <1>19, UnitFacts
  <2> QED BY <1>3, <1>7, <1>19, <2>1, <2>2 DEF DirOf
<1>20. CASE Len(todo) = 1
  <2>1. job' = NoJob /\ job'.what = "none" /\ done + 1 = BlockCount
    BY <1>5, <1>6, <1>7, <1>20, NoJobIs, UnitFacts
  <2>2. \A b \in CardBlock : b < done + 1
    BY <2>1, UnitFacts
  <2>3. \A b \in CardBlock : dir'[b] = FreeEntry
    BY <1>9, <2>2
  <2>4. WellFormed(dir') /\ LinksLead(dir') /\ NoneZero(dir')
    BY <1>8, <1>15, <2>3, EmptyHolds
  <2>5. DirInv'
    BY <1>17, <2>4 DEF DirInv
  <2>6. \A b \in CardBlock : b \in FreeBlocks'
    BY <2>3, FreeEntryIs DEF FreeBlocks
  <2>7. ASSUME ~cards'[slot'].new PROVE KeptOf(DirOf(slot)', SavedAt(slot)', lame') = {}
    <3>1. CASE lame'
      BY <1>18, <2>7, <3>1 DEF KeptOf
    <3>2. CASE ~lame'
      <4>1. \A b \in CardBlock : DirOf(slot)'[b] = FreeEntry
        BY <1>18, <1>19, <2>2, <2>7, <3>2
      <4>2. Singles(DirOf(slot)') = {}
        BY <4>1, SinglesIs, FreeEntryIs
      <4> QED BY <1>18, <2>7, <4>2 DEF KeptOf
    <3> QED BY <1>15, <3>1, <3>2
  <2>9. KnownInv'
    BY <1>7, <2>6, <2>7 DEF KnownInv, Agree
  <2>10. SavedFilesFound'
    BY <1>18 DEF SavedFilesFound
  <2> QED BY <1>13, <1>14, <1>16, <2>1, <2>5, <2>9, <2>10 DEF UnitInv, CreateInv, FormatInv
<1>21. CASE Len(todo) # 1
  <2>1. job' = job /\ job'.what = "format"
    BY <1>2, <1>7, <1>21
  <2>2. Len(todo') \in 1 .. BlockCount /\ BlockCount - Len(todo') = done + 1
    BY <1>3, <1>5, <1>6, <1>7, <1>21, UnitFacts
  <2>3. \A i \in 1 .. Len(todo') : todo'[i] = done + 1 + i - 1
    <3> SUFFICES ASSUME NEW i \in 1 .. Len(todo) - 1 PROVE Tail(todo)[i] = done + 1 + i - 1
      BY <1>5, <1>7
    <3>1. i + 1 \in 1 .. Len(todo)
      BY <1>5
    <3>2. todo[i + 1] = done + (i + 1) - 1
      BY <1>3, <3>1 DEF done
    <3> QED BY <1>5, <1>6, <3>2
  <2>4. FormatInv'
    <3>1. ~cards'[slot'].new =>
            /\ saved'[slot'] = {}
            /\ ~lame' => \A b \in CardBlock : b < done + 1 => DirOf(slot)'[b] = FreeEntry
      BY <1>18, <1>19
    <3> QED BY <1>9, <2>2, <2>3, <3>1 DEF FormatInv
  <2>5. DirInv'
    BY <1>17, <2>1 DEF DirInv
  <2> QED BY <1>13, <1>14, <1>16, <2>1, <2>4, <2>5
          DEF UnitInv, SavedFilesFound, CreateInv, KnownInv
<1> QED BY <1>20, <1>21

LEMMA MakingFacts ==
  ASSUME UnitInv, job.what = "create"
  PROVE  LET B == job.blocks
             W == Range(todo) \ {INFO}
         IN  /\ B \in Seq(CardBlock) /\ Len(B) \in Nat /\ Len(B) >= 1
             /\ Range(B) = {B[i] : i \in 1 .. Len(B)}
             /\ \A i \in 1 .. Len(B) : B[i] \in CardBlock /\ B[1] =< B[i]
             /\ \A b \in Range(B) : dir[b].state \in {"51", "52", "53"}
                                    /\ (b = B[1] \/ dir[b].state \in {"52", "53"})
             /\ B[1] \in Range(B) /\ Range(B) \subseteq CardBlock
             /\ WellFormed(dir) /\ LinksLead(dir) /\ NoneZero(dir) /\ dir # ZeroedCard
             /\ dir \in DirEntries /\ (~lame => Distinct(dir, Beginnings(dir)))
             /\ W \subseteq Range(B)
             /\ ~cards[slot].new =>
                  /\ Making(dir, DirOf(slot), W, B[1])
                  /\ Agree(dir, DirOf(slot), KeptOf(DirOf(slot), SavedAt(slot), lame))
                  /\ Range(B) \cap SavedAt(slot) = {}
<1> DEFINE B == job.blocks
           W == Range(todo) \ {INFO}
<1>1. UnitTyped /\ dir \in DirEntries /\ B \in Seq(CardBlock) /\ todo \in Seq(CardBlock \cup {INFO})
  BY DEF UnitInv, UnitTyped, UnitJobs
<1> HIDE DEF B
<1>2. /\ B # <<>> /\ todo # <<>>
      /\ dir[B[1]].state = "51" /\ dir[B[1]].size = job.size /\ dir[B[1]].name = job.name
      /\ \A i \in 1 .. Len(B) : B[1] =< B[i] /\ (i = 1 \/ dir[B[i]].state \in {"52", "53"})
      /\ \A i \in 1 .. Len(B) : \A b \in FreeBlocks : b > B[i]
      /\ Range(todo) \subseteq Range(B) \cup {INFO}
      /\ ~cards[slot].new =>
           /\ Range(B) \cap SavedAt(slot) = {}
           /\ \A b \in CardBlock : b \in FreeBlocks \cup Range(todo) \/ dir[b] = DirOf(slot)[b]
  BY DEF UnitInv, CreateInv, B
<1>3. Len(B) \in Nat /\ Len(B) >= 1 /\ 1 \in 1 .. Len(B) /\ \A i \in 1 .. Len(B) : B[i] \in CardBlock
  BY <1>1, <1>2
<1>4. Range(B) = {B[i] : i \in 1 .. Len(B)}
  <2>1. DOMAIN B = 1 .. Len(B)
    BY <1>1
  <2> QED BY <2>1 DEF Range
<1>5. B[1] \in Range(B) /\ Range(B) \subseteq CardBlock
  BY <1>3, <1>4
<1>6. \A b \in Range(B) : dir[b].state \in {"51", "52", "53"}
                          /\ (b = B[1] \/ dir[b].state \in {"52", "53"})
  BY <1>2, <1>4
<1>7. dir # ZeroedCard
  BY <1>2, <1>5, EmptyIs
<1>8. WellFormed(dir) /\ LinksLead(dir) /\ NoneZero(dir) /\ (~lame => Distinct(dir, Beginnings(dir)))
  BY <1>7 DEF UnitInv, DirInv
<1>9. W \subseteq Range(B)
  BY <1>2
<1>10. ASSUME ~cards[slot].new
       PROVE  /\ Making(dir, DirOf(slot), W, B[1])
              /\ Agree(dir, DirOf(slot), KeptOf(DirOf(slot), SavedAt(slot), lame))
              /\ Range(B) \cap SavedAt(slot) = {}
  <2>1. Agree(dir, DirOf(slot), KeptOf(DirOf(slot), SavedAt(slot), lame))
    BY <1>7, <1>10 DEF UnitInv, KnownInv
  <2>2. \A w \in W : w \in CardBlock /\ B[1] =< w /\ (w = B[1] \/ dir[w].state \in {"52", "53"})
    BY <1>2, <1>4, <1>5, <1>6, <1>9
  <2>3. \A b \in CardBlock : dir[b].state = "a0" => b > B[1]
    BY <1>2, <1>3 DEF FreeBlocks
  <2>4. INFO \notin CardBlock
    BY UnitFacts DEF INFO
  <2>5. \A b \in CardBlock : dir[b].state # "a0" => b \in W \/ dir[b] = DirOf(slot)[b]
    BY <1>2, <1>10, <2>4 DEF FreeBlocks
  <2>6. Making(dir, DirOf(slot), W, B[1])
    BY <1>2, <1>5, <2>2, <2>3, <2>5 DEF Making
  <2> QED BY <1>2, <1>10, <2>1, <2>6
<1>11. \A i \in 1 .. Len(B) : B[i] \in CardBlock /\ B[1] =< B[i]
  BY <1>2, <1>3
<1> QED BY <1>1, <1>3, <1>4, <1>5, <1>6, <1>7, <1>8, <1>9, <1>10, <1>11 DEF B

(* A sector of the file that is made is written: the cards hold what they  *)
(* held, and the directory in memory still has the files that are kept.    *)
LEMMA WriteStep ==
  ASSUME UnitInv, job.what = "create", todo # <<>>, ~cards[slot].new, Head(todo) # INFO
  PROVE  LET C == Written
             h == Head(todo)
             e == C[slot].entries
         IN  /\ h \in Range(job.blocks)
             /\ C \in [Cards -> CardStates]
             /\ \A c \in Cards : C[c].new = cards[c].new
             /\ \A c \in Cards : CardHolds(C[c].entries, SavedAt(c), lame)
             /\ \A c \in Cards : \A x \in saved[c] :
                  LET y == C[c].entries[x.block] IN y.state = "51" /\ y.name = x.name /\ y.size = 1
             /\ \A b \in CardBlock : e[b] = IF b = h THEN dir[h] ELSE DirOf(slot)[b]
             /\ Making(dir, e, (Range(todo) \ {INFO}) \ {h}, job.blocks[1])
             /\ Agree(dir, e, KeptOf(e, SavedAt(slot), lame))
<1> DEFINE C == Written
           h == Head(todo)
           W == Range(todo) \ {INFO}
           a == job.blocks[1]
           T == SavedAt(slot)
           o == DirOf(slot)
           e == C[slot].entries
<1>1. /\ UnitTyped /\ SavedFilesStay /\ CardsInv /\ slot \in Cards /\ lame \in BOOLEAN
      /\ todo \in Seq(CardBlock \cup {INFO})
  BY DEF UnitInv, UnitTyped
<1>2. h \in Range(todo) /\ h \in W
  BY <1>1, TodoParts
<1>3. /\ W \subseteq Range(job.blocks) /\ Range(job.blocks) \subseteq CardBlock
      /\ WellFormed(dir) /\ LinksLead(dir) /\ NoneZero(dir) /\ dir \in DirEntries
      /\ (~lame => Distinct(dir, Beginnings(dir)))
      /\ Making(dir, o, W, a) /\ Agree(dir, o, KeptOf(o, T, lame))
      /\ Range(job.blocks) \cap T = {}
  BY MakingFacts
<1>4. h \in CardBlock /\ h \notin T /\ dir[h] \in DirEntry
  BY <1>2, <1>3, EntryFacts
<1>5. /\ C \in [Cards -> CardStates]
      /\ \A c \in Cards : C[c].new = cards[c].new
      /\ \A c \in Cards : c # slot => C[c] = cards[c]
      /\ \A b \in CardBlock : e[b] = IF b = h THEN dir[h] ELSE o[b]
  <2>1. C = [cards EXCEPT ![slot].entries[h] = dir[h]]
    BY DEF Written
  <2>2. UnitTyped /\ h \in CardBlock /\ dir[h] \in DirEntry
    BY <1>1, <1>4
  <2> HIDE DEF C, h, W, a, T, o
  <2>3. LET D == [cards EXCEPT ![slot].entries[h] = dir[h]]
        IN  /\ D \in [Cards -> CardStates]
            /\ \A c \in Cards : D[c].new = cards[c].new
            /\ \A c \in Cards : c # slot => D[c] = cards[c]
            /\ \A b \in CardBlock : D[slot].entries[b] = IF b = h THEN dir[h] ELSE DirOf(slot)[b]
    BY <2>2, WrittenIs
  <2> QED BY <2>1, <2>3 DEF o
<1>6. o \in DirEntries /\ e \in DirEntries
  BY <1>1, <1>5, CardIs DEF CardStates
<1>7. T \subseteq Singles(o) /\ CardHolds(o, T, lame)
  BY <1>1, SavedBlocks DEF CardsInv
<1> HIDE DEF C, h, W, a, T, o, e
<1>8. /\ CardHolds(e, T, lame) /\ T \subseteq Singles(e) /\ Making(dir, e, W \ {h}, a)
      /\ Agree(dir, e, KeptOf(e, T, lame))
  <2>1. OneWritten(e, o, dir, h)
    BY <1>5 DEF OneWritten
  <2> QED BY <1>1, <1>2, <1>3, <1>4, <1>6, <1>7, <2>1, SectorWritten
<1>9. ASSUME NEW c \in Cards PROVE CardHolds(C[c].entries, SavedAt(c), lame)
  <2>1. CASE c = slot
    BY <1>8, <2>1 DEF e, T
  <2>2. CASE c # slot
    BY <1>1, <1>5, <2>2 DEF CardsInv, DirOf
  <2> QED BY <2>1, <2>2
<1>10. ASSUME NEW c \in Cards, NEW x \in saved[c]
       PROVE  LET y == C[c].entries[x.block] IN y.state = "51" /\ y.name = x.name /\ y.size = 1
  <2>1. C[c].entries[x.block] = cards[c].entries[x.block]
    <3>1. CASE c = slot
      <4>1. x.block \in T /\ x.block \in CardBlock
        BY <1>1, <3>1, SavedBlocks DEF T
      <4> QED BY <1>4, <1>5, <3>1, <4>1 DEF e, o, DirOf
    <3>2. CASE c # slot
      BY <1>5, <3>2
    <3> QED BY <3>1, <3>2
  <2> QED BY <1>1, <2>1 DEF SavedFilesStay
<1> QED BY <1>2, <1>3, <1>5, <1>8, <1>9, <1>10 DEF C, h, W, a, T, o, e

(* What an answer to a write leaves, whether it was of a sector.           *)
LEMMA Answered ==
  ASSUME UnitInv, WriteAnswered, NEW C, C = IF Head(todo) = INFO THEN cards ELSE Written
  PROVE  LET e == C[slot].entries
         IN  /\ C \in [Cards -> CardStates] /\ e \in DirEntries
             /\ \A c \in Cards : C[c].new = cards[c].new
             /\ \A c \in Cards : CardHolds(C[c].entries, SavedAt(c), lame)
             /\ \A c \in Cards : \A x \in saved[c] :
                  LET y == C[c].entries[x.block] IN y.state = "51" /\ y.name = x.name /\ y.size = 1
             /\ Making(dir, e, Range(Tail(todo)) \ {INFO}, job.blocks[1])
             /\ Agree(dir, e, KeptOf(e, SavedAt(slot), lame))
<1> DEFINE e == C[slot].entries
           h == Head(todo)
           W == Range(todo) \ {INFO}
           U == Range(Tail(todo)) \ {INFO}
           a == job.blocks[1]
<1>1. job.what = "create" /\ todo # <<>> /\ ~cards[slot].new
  BY DEF WriteAnswered
<1>2. /\ UnitTyped /\ SavedFilesStay /\ CardsInv /\ slot \in Cards
      /\ todo \in Seq(CardBlock \cup {INFO}) /\ cards \in [Cards -> CardStates]
  BY DEF UnitInv, UnitTyped
<1>3. Making(dir, DirOf(slot), W, a) /\ Agree(dir, DirOf(slot), KeptOf(DirOf(slot), SavedAt(slot), lame))
  BY <1>1, MakingFacts
<1>4. Range(todo) = {h} \cup Range(Tail(todo))
  BY <1>1, <1>2, TodoParts
<1>5. CASE h = INFO
  <2>1. C = cards /\ e = DirOf(slot)
    BY <1>5 DEF DirOf
  <2>2. U = W
    BY <1>4, <1>5
  <2>3. \A c \in Cards : CardHolds(C[c].entries, SavedAt(c), lame)
    BY <1>2, <2>1 DEF CardsInv, DirOf
  <2>4. \A c \in Cards : \A x \in saved[c] :
          LET y == C[c].entries[x.block] IN y.state = "51" /\ y.name = x.name /\ y.size = 1
    BY <1>2, <2>1 DEF SavedFilesStay
  <2> QED BY <1>2, <1>3, <2>1, <2>2, <2>3, <2>4, CardIs
<1>6. CASE h # INFO
  <2>1. C = Written
    BY <1>6
  <2>2. /\ C \in [Cards -> CardStates]
        /\ \A c \in Cards : C[c].new = cards[c].new
        /\ \A c \in Cards : CardHolds(C[c].entries, SavedAt(c), lame)
        /\ \A c \in Cards : \A x \in saved[c] :
             LET y == C[c].entries[x.block] IN y.state = "51" /\ y.name = x.name /\ y.size = 1
        /\ Making(dir, e, W \ {h}, a)
        /\ Agree(dir, e, KeptOf(e, SavedAt(slot), lame))
    BY <1>1, <1>6, <2>1, WriteStep
  <2>3. Making(dir, e, U, a)
    BY <1>3, <1>4, <2>2 DEF Making
  <2>4. e \in DirEntries
    BY <1>2, <2>2 DEF CardStates
  <2> QED BY <2>2, <2>3, <2>4
<1> QED BY <1>5, <1>6

(* A file of one block whose sectors are all written is kept.              *)
LEMMA Completed ==
  ASSUME NEW d \in DirEntries, NEW e \in DirEntries, NEW a, NEW T, NEW l \in BOOLEAN,
         Making(d, e, {}, a), WellFormed(d), LinksLead(d), d[a].size = 1,
         CardHolds(e, T, l), Agree(d, e, KeptOf(e, T, l))
  PROVE  /\ CardHolds(e, T \cup {a}, l) /\ Agree(d, e, KeptOf(e, T \cup {a}, l))
         /\ a \in CardBlock /\ e[a] = d[a] /\ d[a].state = "51"
<1>1. a \in CardBlock /\ d[a].state = "51" /\ e[a] = d[a]
  BY DEF Making
<1>2. WellFormed(e) /\ NoneZero(e) /\ Unlinked(e, KeptOf(e, T, l)) /\ (~l => Distinct(e, Singles(e)))
  BY DEF CardHolds
<1>3. Unlinked(e, {a})
  BY <1>2, FirstUnlinked
<1>4. KeptOf(e, T \cup {a}, l) = KeptOf(e, T, l) \cup {a}
  BY DEF KeptOf
<1>5. Unlinked(e, KeptOf(e, T \cup {a}, l))
  BY <1>2, <1>3, <1>4 DEF Unlinked
<1>6. Agree(d, e, KeptOf(e, T \cup {a}, l))
  BY <1>1, <1>4, SinglesIs DEF Agree
<1> QED BY <1>1, <1>2, <1>5, <1>6 DEF CardHolds

LEMMA CreateWritesKeeps == UnitInv /\ CreateWrites => UnitInv'
<1> SUFFICES ASSUME UnitInv, CreateWrites PROVE UnitInv'
  OBVIOUS
<1> DEFINE e == DirOf(slot)'
           B == job.blocks
           a == B[1]
           new == [block |-> a, name |-> job.name]
<1>1. /\ WriteAnswered /\ job.what = "create" /\ todo # <<>> /\ ~cards[slot].new
      /\ cards' = IF Head(todo) = INFO THEN cards ELSE Written
      /\ todo' = Tail(todo)
      /\ job' = IF Len(todo) = 1 THEN NoJob ELSE job
      /\ saved' = IF Len(todo) = 1 /\ job.size = 1 THEN [saved EXCEPT ![slot] = @ \cup {new}] ELSE saved
      /\ slot' = slot /\ dir' = dir /\ lame' = lame
  BY DEF CreateWrites, WriteAnswered
<1>2. /\ UnitTyped /\ slot \in Cards /\ lame \in BOOLEAN /\ dir \in DirEntries /\ job \in UnitJobs
      /\ todo \in Seq(CardBlock \cup {INFO}) /\ saved \in SavedSets
  BY DEF UnitInv, UnitTyped
<1>3. /\ a \in Range(B) /\ Range(B) \subseteq CardBlock
      /\ WellFormed(dir) /\ LinksLead(dir) /\ NoneZero(dir) /\ dir # ZeroedCard
      /\ Range(B) \cap SavedAt(slot) = {}
  BY <1>1, MakingFacts
<1>4. /\ dir[a].state = "51" /\ dir[a].size = job.size /\ dir[a].name = job.name /\ job.name \in FileNames
      /\ Range(todo) \subseteq Range(B) \cup {INFO}
  BY <1>1 DEF UnitInv, CreateInv
<1>5. e = cards'[slot].entries
  BY <1>1 DEF DirOf
<1>6. /\ cards' \in [Cards -> CardStates] /\ e \in DirEntries
      /\ \A c \in Cards : cards'[c].new = cards[c].new
      /\ \A c \in Cards : CardHolds(cards'[c].entries, SavedAt(c), lame)
      /\ \A c \in Cards : \A x \in saved[c] :
           LET y == cards'[c].entries[x.block] IN y.state = "51" /\ y.name = x.name /\ y.size = 1
      /\ Making(dir, e, Range(todo') \ {INFO}, a)
      /\ Agree(dir, e, KeptOf(e, SavedAt(slot), lame))
  BY <1>1, <1>5, Answered
<1>7. \A c \in Cards : DirOf(c)' = cards'[c].entries
  BY DEF DirOf
<1>8. /\ todo' \in Seq(CardBlock \cup {INFO}) /\ Range(todo') \subseteq Range(todo)
      /\ (Len(todo) = 1 <=> todo' = <<>>)
  BY <1>1, <1>2, TodoParts
<1>9. job' \in UnitJobs
  BY <1>1, <1>2, NoJobIs
<1>10. SavedFilesFound
  BY DEF UnitInv
<1>11. \A x \in saved[slot] : x.block \in FoundAt(x.name)
  BY <1>1, <1>3, <1>10 DEF SavedFilesFound
<1>12. DirInv'
  BY <1>1, <1>2, NoJobIs DEF UnitInv, DirInv
<1>13. FormatInv'
  BY <1>1, NoJobIs DEF FormatInv
<1> HIDE DEF e, B, a, new
<1>14. CASE ~(Len(todo) = 1 /\ job.size = 1)
  <2>1. saved' = saved /\ \A c \in Cards : SavedAt(c)' = SavedAt(c)
    BY <1>1, <1>14 DEF SavedAt
  <2>2. UnitTyped'
    BY <1>1, <1>2, <1>6, <1>8, <1>9, <2>1 DEF UnitTyped
  <2>3. CardsInv'
    BY <1>1, <1>6, <1>7, <2>1 DEF CardsInv
  <2>4. SavedFilesStay'
    BY <1>6, <2>1 DEF SavedFilesStay
  <2>5. SavedFilesFound'
    BY <1>1, <1>11, <2>1 DEF SavedFilesFound, FoundAt
  <2>6. SavedAt(slot)' = SavedAt(slot)
    BY <1>1, <2>1 DEF SavedAt
  <2>7. CASE Len(todo) = 1
    <3>1. job'.what = "none" /\ Range(todo') \ {INFO} = {}
      BY <1>1, <1>8, <2>7, NoJobIs DEF Range
    <3>2. \A b \in CardBlock : b \in FreeBlocks \/ dir[b] = e[b]
      BY <1>6, <3>1 DEF Making, FreeBlocks
    <3>3. KnownInv'
      BY <1>1, <1>6, <2>6, <3>2 DEF KnownInv, e, FreeBlocks
    <3> QED BY <1>12, <1>13, <2>2, <2>3, <2>4, <2>5, <3>1, <3>3 DEF UnitInv, CreateInv
  <2>8. CASE Len(todo) # 1
    <3>1. job' = job /\ todo' # <<>>
      BY <1>1, <1>8, <2>8
    <3>2. KnownInv'
      BY <1>1, <1>6, <2>6, <3>1 DEF KnownInv, e
    <3>3. \A b \in CardBlock : b \in FreeBlocks \cup Range(todo') \/ dir[b] = e[b]
      BY <1>6 DEF Making, FreeBlocks
    <3>4. CreateInv'
      <4>1. FreeBlocks' = FreeBlocks
        BY <1>1 DEF FreeBlocks
      <4>2. Range(todo') \subseteq Range(B) \cup {INFO}
        BY <1>4, <1>8
      <4> QED BY <1>1, <1>3, <2>6, <3>1, <3>3, <4>1, <4>2 DEF UnitInv, CreateInv, e, B
    <3> QED BY <1>12, <1>13, <2>2, <2>3, <2>4, <2>5, <3>2, <3>4 DEF UnitInv
  <2> QED BY <2>7, <2>8
<1>15. CASE Len(todo) = 1 /\ job.size = 1
  <2>1. job'.what = "none" /\ Range(todo') \ {INFO} = {}
    BY <1>1, <1>8, <1>15, NoJobIs DEF Range
  <2>2. /\ CardHolds(e, SavedAt(slot) \cup {a}, lame)
        /\ Agree(dir, e, KeptOf(e, SavedAt(slot) \cup {a}, lame))
        /\ a \in CardBlock /\ e[a] = dir[a] /\ dir[a].state = "51"
    <3>1. CardHolds(e, SavedAt(slot), lame)
      BY <1>2, <1>5, <1>6
    <3>2. Making(dir, e, {}, a) /\ dir[a].size = 1
      BY <1>4, <1>6, <1>15, <2>1
    <3> QED BY <1>2, <1>3, <1>6, <3>1, <3>2, Completed
  <2>3. saved' = [saved EXCEPT ![slot] = @ \cup {new}] /\ new \in [block : CardBlock, name : FileNames]
        /\ new.block = a /\ new.name = job.name
    BY <1>1, <1>4, <1>15, <2>2 DEF new
  <2>4. saved' \in SavedSets /\ saved'[slot] = saved[slot] \cup {new}
        /\ \A c \in Cards : c # slot => saved'[c] = saved[c]
    BY <1>2, <2>3 DEF SavedSets
  <2>5. UnitTyped'
    BY <1>1, <1>2, <1>6, <1>8, <1>9, <2>4 DEF UnitTyped
  <2>6. SavedAt(slot)' = SavedAt(slot) \cup {a} /\ \A c \in Cards : c # slot => SavedAt(c)' = SavedAt(c)
    BY <1>1, <2>3, <2>4 DEF SavedAt
  <2>7. ASSUME NEW c \in Cards PROVE CardHolds(DirOf(c)', SavedAt(c)', lame')
    <3>1. CASE c = slot
      <4>1. SavedAt(c)' = SavedAt(slot) \cup {a} /\ DirOf(c)' = e
        BY <1>5, <1>7, <2>3, <2>4, <3>1 DEF SavedAt
      <4> QED BY <1>1, <2>2, <4>1
    <3>2. CASE c # slot
      BY <1>1, <1>6, <1>7, <2>6, <3>2
    <3> QED BY <3>1, <3>2
  <2>8. CardsInv'
    BY <2>7 DEF CardsInv
  <2>9. SavedFilesStay'
    <3> SUFFICES ASSUME NEW c \in Cards, NEW x \in saved'[c]
                 PROVE  LET y == cards'[c].entries[x.block]
                        IN  y.state = "51" /\ y.name = x.name /\ y.size = 1
      BY DEF SavedFilesStay
    <3>1. CASE x \in saved[c]
      BY <1>6, <3>1
    <3>2. CASE c = slot /\ x = new
      <4>1. cards'[c].entries[x.block] = dir[a] /\ x.name = job.name
        BY <1>5, <2>2, <2>3, <3>2
      <4> QED BY <1>4, <1>15, <4>1
    <3> QED BY <2>4, <3>1, <3>2
  <2>10. SavedFilesFound'
    <3> SUFFICES ASSUME NEW x \in saved'[slot] PROVE x.block \in FoundAt(x.name)
      BY <1>1 DEF SavedFilesFound, FoundAt
    <3>1. CASE x \in saved[slot]
      BY <1>11, <3>1
    <3>2. CASE x = new
      BY <1>4, <2>2, <2>3, <3>2 DEF FoundAt
    <3> QED BY <2>4, <3>1, <3>2
  <2>11. \A b \in CardBlock : b \in FreeBlocks \/ dir[b] = e[b]
    BY <1>6, <2>1 DEF Making, FreeBlocks
  <2>12. KnownInv'
    BY <1>1, <2>2, <2>6, <2>11 DEF KnownInv, e, FreeBlocks
  <2> QED BY <1>12, <1>13, <2>1, <2>5, <2>8, <2>9, <2>10, <2>12 DEF UnitInv, CreateInv
<1> QED BY <1>14, <1>15

LEMMA WriteFailed ==
  ASSUME UnitInv, job.what = "create", todo # <<>>,
         NEW C, C = cards \/ (~cards[slot].new /\ Head(todo) # INFO /\ C = Written)
  PROVE  LET e == C[slot].entries
         IN  /\ C \in [Cards -> CardStates] /\ e \in DirEntries
             /\ \A c \in Cards : C[c].new = cards[c].new
             /\ \A c \in Cards : CardHolds(C[c].entries, SavedAt(c), lame)
             /\ \A c \in Cards : \A x \in saved[c] :
                  LET y == C[c].entries[x.block] IN y.state = "51" /\ y.name = x.name /\ y.size = 1
             /\ ~cards[slot].new =>
                  /\ Agree(dir, e, KeptOf(e, SavedAt(slot), lame))
                  /\ \A b \in CardBlock : b \in FreeBlocks \cup Range(job.blocks) \/ dir[b] = e[b]
<1> DEFINE e == C[slot].entries
           h == Head(todo)
           W == Range(todo) \ {INFO}
           B == job.blocks
<1>1. /\ UnitTyped /\ SavedFilesStay /\ CardsInv /\ slot \in Cards
      /\ cards \in [Cards -> CardStates]
  BY DEF UnitInv, UnitTyped
<1>2. /\ W \subseteq Range(B)
      /\ ~cards[slot].new =>
           /\ Making(dir, DirOf(slot), W, B[1])
           /\ Agree(dir, DirOf(slot), KeptOf(DirOf(slot), SavedAt(slot), lame))
  BY MakingFacts
<1>3. CASE C = cards
  <2>1. e = DirOf(slot)
    BY <1>3 DEF DirOf
  <2>2. \A c \in Cards : CardHolds(C[c].entries, SavedAt(c), lame)
    BY <1>1, <1>3 DEF CardsInv, DirOf
  <2>3. \A c \in Cards : \A x \in saved[c] :
          LET y == C[c].entries[x.block] IN y.state = "51" /\ y.name = x.name /\ y.size = 1
    BY <1>1, <1>3 DEF SavedFilesStay
  <2>4. ~cards[slot].new => \A b \in CardBlock : b \in FreeBlocks \cup Range(B) \/ dir[b] = e[b]
    BY <1>2, <2>1 DEF Making, FreeBlocks
  <2> QED BY <1>1, <1>2, <1>3, <2>1, <2>2, <2>3, <2>4, CardIs
<1>4. CASE ~cards[slot].new /\ Head(todo) # INFO /\ C = Written
  <2>1. /\ C \in [Cards -> CardStates]
        /\ \A c \in Cards : C[c].new = cards[c].new
        /\ \A c \in Cards : CardHolds(C[c].entries, SavedAt(c), lame)
        /\ \A c \in Cards : \A x \in saved[c] :
             LET y == C[c].entries[x.block] IN y.state = "51" /\ y.name = x.name /\ y.size = 1
        /\ Making(dir, e, W \ {h}, B[1])
        /\ Agree(dir, e, KeptOf(e, SavedAt(slot), lame))
    BY <1>4, WriteStep
  <2>2. e \in DirEntries
    BY <1>1, <2>1 DEF CardStates
  <2>3. \A b \in CardBlock : b \in FreeBlocks \cup Range(B) \/ dir[b] = e[b]
    BY <1>2, <2>1 DEF Making, FreeBlocks
  <2> QED BY <2>1, <2>2, <2>3
<1> QED BY <1>3, <1>4

(* The directory d is o with block m, a free one, after the file's last.   *)
Extended(d, o, last, m) ==
  /\ d \in DirEntries
  /\ \A b \in CardBlock \ {last, m} : d[b] = o[b]
  /\ d[last].state = o[last].state /\ d[last].size = o[last].size /\ d[last].name = o[last].name
  /\ d[last].next = m
  /\ d[m].state = "53" /\ d[m].next = NoBlock

LEMMA ExtendedIs ==
  ASSUME NEW o \in DirEntries, NEW last \in CardBlock, NEW m \in CardBlock, last # m
  PROVE  Extended([o EXCEPT ![last].next = m, ![m].state = "53", ![m].next = NoBlock], o, last, m)
<1> DEFINE d == [o EXCEPT ![last].next = m, ![m].state = "53", ![m].next = NoBlock]
<1>1. PICK p, q : p = o[last] /\ q = o[m]
  OBVIOUS
<1>2. p \in DirEntry /\ q \in DirEntry /\ o \in [CardBlock -> DirEntry]
  BY <1>1 DEF DirEntries
<1> DEFINE p2 == [p EXCEPT !.next = m]
           q2 == [q EXCEPT !.state = "53"]
           q3 == [q2 EXCEPT !.next = NoBlock]
<1>3. p2 \in DirEntry /\ p2.state = p.state /\ p2.size = p.size /\ p2.name = p.name /\ p2.next = m
  BY <1>2 DEF DirEntry
<1>4. q2 \in DirEntry /\ q2.state = "53"
  BY <1>2 DEF DirEntry, AllocState
<1> HIDE DEF q2
<1>5. q3 \in DirEntry /\ q3.state = "53" /\ q3.next = NoBlock
  BY <1>4 DEF DirEntry
<1>6. d = [[[o EXCEPT ![last] = p2] EXCEPT ![m] = q2] EXCEPT ![m] = q3]
  BY <1>1, <1>2 DEF q2
<1> HIDE DEF p2, q3
<1>7. d = [[o EXCEPT ![last] = p2] EXCEPT ![m] = q3]
  BY <1>2, <1>6
<1> HIDE DEF d
<1>8. d \in DirEntries /\ d[last] = p2 /\ d[m] = q3 /\ \A b \in CardBlock \ {last, m} : d[b] = o[b]
  BY <1>2, <1>3, <1>5, <1>7 DEF DirEntries
<1>9. Extended(d, o, last, m)
  BY <1>1, <1>3, <1>5, <1>8 DEF Extended
<1> QED BY <1>9 DEF d

LEMMA ExtendedHolds ==
  ASSUME NEW o \in DirEntries, WellFormed(o), LinksLead(o), NoneZero(o),
         NEW last \in CardBlock, NEW m \in CardBlock, m > last,
         o[last].state \in {"51", "52", "53"}, last = 0 \/ o[last].state # "51",
         o[m].state = "a0", NEW d, Extended(d, o, last, m)
  PROVE  WellFormed(d) /\ LinksLead(d) /\ NoneZero(d) /\ Beginnings(d) = Beginnings(o)
<1>1. /\ d \in DirEntries
      /\ \A b \in CardBlock \ {last, m} : d[b] = o[b]
      /\ d[last].state = o[last].state /\ d[last].size = o[last].size /\ d[last].name = o[last].name
      /\ d[last].next = m
      /\ d[m].state = "53" /\ d[m].next = NoBlock
  BY DEF Extended
<1>2. last \in Nat /\ m \in Nat /\ m # NoBlock /\ last # m
  BY UnitFacts
<1>3. \A b \in CardBlock : b # m => d[b].state = o[b].state /\ d[b].size = o[b].size
  BY <1>1
<1>4. Beginnings(d) = Beginnings(o) /\ Singles(d) = Singles(o)
  <2>1. \A b \in CardBlock : d[b].state = "51" <=> o[b].state = "51"
    BY <1>1, <1>3
  <2>2. \A b \in CardBlock : d[b].state = "51" => d[b].size = o[b].size
    BY <1>1, <1>3
  <2>3. Beginnings(d) = Beginnings(o)
    BY <2>1 DEF Beginnings
  <2> QED BY <2>1, <2>2, <2>3 DEF Singles, Beginnings
<1>5. NoneZero(d)
  BY <1>1, <1>3 DEF NoneZero
<1>6. WellFormed(d)
  <2> SUFFICES ASSUME NEW b \in CardBlock
               PROVE  /\ d[b].state \in {"51", "52", "53"} => d[b].next = NoBlock \/ d[b].next > b
                      /\ d[b].state = "51" => /\ d[b].size >= 1
                                              /\ d[b].size > 1 => d[b].next # NoBlock
                                              /\ d[b].size = 1 /\ d[b].next # NoBlock => b = 0
                      /\ d[b].state = "a0" => d[b] = FreeEntry
    BY DEF WellFormed
  <2>1. CASE b \notin {last, m}
    BY <1>1, <2>1 DEF WellFormed
  <2>2. CASE b = last
    BY <1>1, <1>2, <2>2 DEF WellFormed
  <2>3. CASE b = m
    BY <1>1, <2>3
  <2> QED BY <2>1, <2>2, <2>3
<1>7. \A b \in Linked(d) : b = m \/ b \in Linked(o)
  BY <1>3, <1>4 DEF Linked
<1>8. \A b \in Linked(o) : o[b].next # m
  BY <1>2 DEF LinksLead
<1>9. ASSUME NEW b \in Linked(d), d[b].next # NoBlock
      PROVE  /\ d[d[b].next].state \in {"52", "53"}
             /\ b # last => d[b].next = o[b].next /\ b \in Linked(o) /\ d[b].next # m
             /\ b = last => d[b].next = m
  <2>1. b \in Linked(o) /\ b # m /\ b \in CardBlock
    BY <1>1, <1>7, <1>9 DEF Linked, Beginnings
  <2>2. CASE b = last
    BY <1>1, <2>2
  <2>3. CASE b # last
    <3>1. d[b] = o[b]
      BY <1>1, <2>1, <2>3
    <3>2. o[o[b].next].state \in {"52", "53"} /\ o[b].next # m /\ o[b].next \in CardBlock
      BY <1>8, <1>9, <2>1, <3>1, EntryFacts DEF LinksLead
    <3> QED BY <1>3, <2>1, <2>3, <3>1, <3>2
  <2> QED BY <2>2, <2>3
<1>10. ASSUME NEW b \in Linked(d), NEW y \in Linked(d), b # y, d[b].next = d[y].next
       PROVE  d[b].next = NoBlock
  <2> SUFFICES ASSUME d[b].next # NoBlock PROVE FALSE
    OBVIOUS
  <2>1. b # last /\ y # last
    BY <1>9, <1>10
  <2>2. b \in Linked(o) /\ y \in Linked(o) /\ o[b].next = o[y].next /\ o[b].next # NoBlock
    BY <1>9, <1>10, <2>1
  <2> QED BY <1>10, <2>2 DEF LinksLead
<1>11. LinksLead(d)
  BY <1>9, <1>10 DEF LinksLead
<1> QED BY <1>4, <1>5, <1>6, <1>11

LEMMA CreateFailsKeeps == UnitInv /\ CreateFails => UnitInv'
<1> SUFFICES ASSUME UnitInv, CreateFails PROVE UnitInv'
  OBVIOUS
<1> DEFINE e == cards'[slot].entries
           B == job.blocks
           n == Len(B)
           a == B[1]
           last == Last(B)
           more == {b \in FreeBlocks : b > last}
           m == Min(more)
<1>1. /\ job.what = "create" /\ todo # <<>> /\ UNCHANGED <<slot, saved, lame>>
      /\ cards' = cards \/ (~cards[slot].new /\ Head(todo) # INFO /\ cards' = Written)
  BY DEF CreateFails
<1>2. \/ /\ a # 0 /\ dir' = FreedBlocks(dir, {a}) /\ job' = [NoJob EXCEPT !.what = "hung"]
         /\ todo' = <<>>
      \/ a = 0 /\ more = {} /\ job' = NoJob /\ todo' = <<>> /\ dir' = dir
      \/ /\ a = 0 /\ more # {}
         /\ dir' = [dir EXCEPT ![last].next = m, ![m].state = "53", ![m].next = NoBlock]
         /\ job' = [job EXCEPT !.blocks = Append(@, m)]
         /\ todo' = buWriteTOC(job'.blocks)
  BY DEF CreateFails
<1>3. /\ UnitTyped /\ slot \in Cards /\ lame \in BOOLEAN /\ dir \in DirEntries /\ job \in UnitJobs
      /\ saved \in SavedSets
  BY DEF UnitInv, UnitTyped
<1>4. /\ B \in Seq(CardBlock) /\ n \in Nat /\ n >= 1
      /\ Range(B) = {B[i] : i \in 1 .. n}
      /\ \A i \in 1 .. n : B[i] \in CardBlock /\ a =< B[i]
      /\ \A b \in Range(B) : dir[b].state \in {"51", "52", "53"}
                             /\ (b = a \/ dir[b].state \in {"52", "53"})
      /\ a \in Range(B) /\ Range(B) \subseteq CardBlock
      /\ WellFormed(dir) /\ LinksLead(dir) /\ NoneZero(dir) /\ dir # ZeroedCard
      /\ ~lame => Distinct(dir, Beginnings(dir))
      /\ ~cards[slot].new => Range(B) \cap SavedAt(slot) = {}
  BY <1>1, <1>3, MakingFacts
<1>5. /\ dir[a].state = "51" /\ dir[a].size = job.size /\ dir[a].name = job.name /\ job.name \in FileNames
      /\ \A i \in 1 .. n : \A b \in FreeBlocks : b > B[i]
      /\ \A i \in 1 .. n : i = 1 \/ dir[B[i]].state \in {"52", "53"}
  BY <1>1 DEF UnitInv, CreateInv
<1>6. /\ cards' \in [Cards -> CardStates] /\ e \in DirEntries
      /\ \A c \in Cards : cards'[c].new = cards[c].new
      /\ \A c \in Cards : CardHolds(cards'[c].entries, SavedAt(c), lame)
      /\ \A c \in Cards : \A x \in saved[c] :
           LET y == cards'[c].entries[x.block] IN y.state = "51" /\ y.name = x.name /\ y.size = 1
      /\ ~cards[slot].new =>
           /\ Agree(dir, e, KeptOf(e, SavedAt(slot), lame))
           /\ \A b \in CardBlock : b \in FreeBlocks \cup Range(B) \/ dir[b] = e[b]
  BY <1>1, WriteFailed
<1>7. last \in Range(B) /\ last = B[n] /\ n \in 1 .. n /\ 1 \in 1 .. n
  BY <1>4 DEF Last
<1>8. \A b : b \in FreeBlocks <=> b \in CardBlock /\ dir[b].state = "a0"
  BY DEF FreeBlocks
<1>9. more = FreeBlocks
  BY <1>5, <1>7
<1> HIDE DEF e, B, n, a, last, more, m
<1>10. \A c \in Cards : SavedAt(c)' = SavedAt(c) /\ DirOf(c)' = cards'[c].entries
  BY <1>1 DEF SavedAt, DirOf
<1>11. SavedAt(slot)' = SavedAt(slot) /\ DirOf(slot)' = e
  BY <1>1 DEF SavedAt, DirOf, e
<1>12. CardsInv' /\ SavedFilesStay'
  <2>1. CardsInv'
    BY <1>1, <1>6, <1>10 DEF CardsInv
  <2>2. SavedFilesStay'
    BY <1>1, <1>6 DEF SavedFilesStay
  <2> QED BY <2>1, <2>2
<1>13. ASSUME ~cards[slot].new, NEW x \in saved[slot]
       PROVE  /\ x.block \in FoundAt(x.name) /\ x.block \in CardBlock /\ x.block \notin Range(B)
              /\ x.block \notin FreeBlocks /\ dir[x.block].state = "51" /\ dir[x.block].name = x.name
  <2>1. x.block \in FoundAt(x.name) /\ x.block \in SavedAt(slot)
    BY <1>1, <1>4, <1>13 DEF UnitInv, SavedFilesFound, SavedAt
  <2> QED BY <1>4, <1>8, <1>13, <2>1 DEF FoundAt
<1>14. <<>> \in Seq(CardBlock \cup {INFO})
  OBVIOUS
<1>15. CASE /\ a # 0 /\ dir' = FreedBlocks(dir, {a}) /\ job' = [NoJob EXCEPT !.what = "hung"]
            /\ todo' = <<>>
  <2>1. dir' \in DirEntries /\ \A b \in CardBlock : dir'[b] = IF b = a THEN FreeEntry ELSE dir[b]
    BY <1>3, <1>15, FreedIs
  <2>2. job' \in UnitJobs /\ job'.what = "hung"
    <3>1. PICK j : j = NoJob
      OBVIOUS
    <3>2. j \in UnitJobs /\ job' = [j EXCEPT !.what = "hung"]
      BY <1>15, <3>1, NoJobIs
    <3> QED BY <3>2 DEF UnitJobs
  <2>3. UnitTyped'
    BY <1>1, <1>3, <1>6, <1>14, <1>15, <2>1, <2>2 DEF UnitTyped
  <2>4. WellFormed(dir') /\ NoneZero(dir')
    BY <1>4, <2>1, FreeEntryIs DEF WellFormed, NoneZero
  <2>5. \A b \in Linked(dir') : b \in Linked(dir) /\ b # a /\ b \in CardBlock /\ dir'[b] = dir[b]
    BY <2>1, FreeEntryIs DEF Linked, Beginnings, Singles
  <2>6. LinksLead(dir')
    <3>1. ASSUME NEW b \in Linked(dir'), dir'[b].next # NoBlock
          PROVE  dir'[dir'[b].next].state \in {"52", "53"}
      <4>1. dir[dir[b].next].state \in {"52", "53"} /\ dir[b].next \in CardBlock
        BY <1>3, <1>4, <2>5, <3>1, EntryFacts DEF LinksLead
      <4> QED BY <1>5, <2>1, <2>5, <4>1
    <3> QED BY <1>4, <2>5, <3>1 DEF LinksLead
  <2>7. ~lame => Distinct(dir', Beginnings(dir'))
    <3>1. \A b \in Beginnings(dir') : b \in Beginnings(dir) /\ dir'[b] = dir[b]
      BY <2>1, FreeEntryIs DEF Beginnings
    <3> QED BY <1>4, <3>1 DEF Distinct
  <2>8. DirInv'
    BY <1>1, <2>4, <2>6, <2>7 DEF DirInv
  <2>9. SavedFilesFound'
    <3> SUFFICES ASSUME ~cards[slot].new, NEW x \in saved[slot] PROVE x.block \in FoundAt(x.name)'
      BY <1>1, <1>3, <1>6 DEF SavedFilesFound
    <3> QED BY <1>4, <1>13, <2>1 DEF FoundAt
  <2> QED BY <1>12, <2>2, <2>3, <2>8, <2>9 DEF UnitInv, CreateInv, KnownInv, FormatInv
<1>16. CASE a = 0 /\ more = {} /\ job' = NoJob /\ todo' = <<>> /\ dir' = dir
  <2>1. job' \in UnitJobs /\ job'.what = "none"
    BY <1>16, NoJobIs
  <2>2. UnitTyped'
    BY <1>1, <1>3, <1>6, <1>14, <1>16, <2>1 DEF UnitTyped
  <2>3. DirInv'
    BY <1>1, <1>4, <1>16 DEF DirInv
  <2>4. SavedFilesFound'
    BY <1>1, <1>3, <1>6, <1>13, <1>16 DEF SavedFilesFound, FoundAt
  <2>5. FreeBlocks' = {}
    BY <1>9, <1>16 DEF FreeBlocks
  <2>6. KnownInv'
    <3>1. ~cards'[slot'].new => ~cards[slot].new
      BY <1>1, <1>3, <1>6
    <3> QED BY <1>1, <1>6, <1>11, <1>16, <2>5, <3>1 DEF KnownInv
  <2> QED BY <1>12, <2>1, <2>2, <2>3, <2>4, <2>6 DEF UnitInv, CreateInv, FormatInv
<1>17. CASE /\ a = 0 /\ more # {}
            /\ dir' = [dir EXCEPT ![last].next = m, ![m].state = "53", ![m].next = NoBlock]
            /\ job' = [job EXCEPT !.blocks = Append(@, m)]
            /\ todo' = buWriteTOC(job'.blocks)
  <2> DEFINE B2 == Append(B, m)
  <2>1. m \in more /\ \A y \in more : m =< y
    <3>1. more \subseteq Nat
      BY <1>9, FreeFacts, UnitFacts
    <3> QED BY <1>17, <3>1, MinIsLeast DEF m
  <2>2. /\ m \in FreeBlocks /\ m \in CardBlock /\ dir[m].state = "a0" /\ m \notin Range(B)
        /\ \A i \in 1 .. n : m > B[i]
    BY <1>4, <1>5, <1>8, <1>9, <2>1
  <2>3. /\ last \in CardBlock /\ m > last /\ last # m /\ dir[last].state \in {"51", "52", "53"}
        /\ last = 0 \/ dir[last].state # "51"
    BY <1>4, <1>7, <1>17, <2>2
  <2>4. Extended(dir', dir, last, m)
    BY <1>3, <1>17, <2>2, <2>3, ExtendedIs
  <2>5. WellFormed(dir') /\ LinksLead(dir') /\ NoneZero(dir') /\ Beginnings(dir') = Beginnings(dir)
    BY <1>3, <1>4, <2>2, <2>3, <2>4, ExtendedHolds
  <2>6. /\ dir' \in DirEntries
        /\ \A b \in CardBlock \ {last, m} : dir'[b] = dir[b]
        /\ dir'[last].state = dir[last].state /\ dir'[last].size = dir[last].size
        /\ dir'[last].name = dir[last].name
        /\ dir'[m].state = "53"
    BY <2>4 DEF Extended
  <2>7. \A b \in CardBlock : b # m => /\ dir'[b].state = dir[b].state /\ dir'[b].size = dir[b].size
                                      /\ dir'[b].name = dir[b].name
    BY <2>6
  <2>8. /\ B2 \in Seq(CardBlock) /\ Len(B2) = n + 1 /\ B2 # <<>>
        /\ \A i \in 1 .. n : B2[i] = B[i]
        /\ B2[n + 1] = m
    BY <1>4, <2>2 DEF n
  <2> HIDE DEF B2
  <2>9. /\ job' \in UnitJobs /\ job'.what = "create" /\ job'.blocks = B2
        /\ job'.size = job.size /\ job'.name = job.name
    <3>1. job' = [job EXCEPT !.blocks = B2]
      BY <1>17 DEF B2, B
    <3> QED BY <1>1, <1>3, <2>8, <3>1 DEF UnitJobs
  <2>10. Range(B2) = Range(B) \cup {m} /\ B2[1] = a
    <3>1. DOMAIN B2 = 1 .. n + 1
      BY <2>8
    <3>2. Range(B2) = {B2[i] : i \in 1 .. n + 1}
      BY <3>1 DEF Range
    <3>3. \A i \in 1 .. n + 1 : i \in 1 .. n \/ i = n + 1
      BY <1>4
    <3>4. n + 1 \in 1 .. n + 1 /\ \A i \in 1 .. n : i \in 1 .. n + 1
      BY <1>4
    <3>5. Range(B2) \subseteq Range(B) \cup {m}
      BY <1>4, <2>8, <3>2, <3>3
    <3>6. Range(B) \cup {m} \subseteq Range(B2)
      BY <1>4, <2>8, <3>2, <3>4
    <3> QED BY <1>7, <2>8, <3>5, <3>6 DEF a
  <2>11. todo' \in Seq(CardBlock \cup {INFO}) /\ todo' # <<>> /\ Range(todo') = Range(B2) \cup {INFO}
    BY <1>17, <2>8, <2>9, TocIs
  <2>12. UnitTyped'
    BY <1>1, <1>3, <1>6, <2>6, <2>9, <2>11 DEF UnitTyped
  <2>13. DirInv'
    <3>1. ~lame => Distinct(dir', Beginnings(dir'))
      <4>1. \A b \in Beginnings(dir) : b # m /\ b \in CardBlock
        BY <2>2 DEF Beginnings
      <4> QED BY <1>4, <2>5, <2>7, <4>1 DEF Distinct
    <3> QED BY <1>1, <2>5, <3>1 DEF DirInv
  <2>14. ~cards'[slot'].new => ~cards[slot].new
    BY <1>1, <1>3, <1>6
  <2>15. SavedFilesFound'
    <3> SUFFICES ASSUME ~cards[slot].new, NEW x \in saved[slot] PROVE x.block \in FoundAt(x.name)'
      BY <1>1, <2>14 DEF SavedFilesFound
    <3>1. x.block # m
      BY <1>13, <2>2
    <3> QED BY <1>13, <2>7, <3>1 DEF FoundAt
  <2>16. KnownInv'
    <3> SUFFICES ASSUME ~cards[slot].new
                 PROVE  Agree(dir', e, KeptOf(e, SavedAt(slot), lame))
      BY <1>1, <1>11, <2>9, <2>14 DEF KnownInv
    <3> SUFFICES ASSUME NEW b \in KeptOf(e, SavedAt(slot), lame)
                 PROVE  b \in Singles(dir') /\ dir'[b].name = e[b].name
      BY DEF Agree
    <3>1. b \in Singles(dir) /\ dir[b].name = e[b].name
      BY <1>6 DEF Agree
    <3>2. b \in CardBlock /\ b # m
      BY <2>2, <3>1, SinglesIs
    <3> QED BY <2>7, <3>1, <3>2, SinglesIs
  <2>17. \A b : b \in FreeBlocks' <=> b \in FreeBlocks /\ b # m
    <3>1. \A b : b \in FreeBlocks' <=> b \in CardBlock /\ dir'[b].state = "a0"
      BY DEF FreeBlocks
    <3> QED BY <1>8, <2>6, <2>7, <3>1
  <2>18. CreateInv'
    <3>1. a \in CardBlock /\ a # m
      BY <1>4, <2>2
    <3>2. /\ dir'[a].state = "51" /\ dir'[a].size = job.size /\ dir'[a].name = job.name
      BY <1>5, <2>7, <3>1
    <3>3. ASSUME NEW i \in 1 .. n + 1
          PROVE  /\ a =< B2[i] /\ (i = 1 \/ dir'[B2[i]].state \in {"52", "53"})
                 /\ \A b \in FreeBlocks' : b > B2[i]
      <4>1. CASE i \in 1 .. n
        <5>1. B2[i] = B[i] /\ B[i] \in CardBlock /\ B[i] # m /\ a =< B[i]
          <6>1. B[i] \in Range(B)
            BY <1>4, <4>1
          <6> QED BY <1>4, <2>2, <2>8, <4>1, <6>1
        <5>2. i = 1 \/ dir'[B2[i]].state \in {"52", "53"}
          BY <1>5, <2>7, <4>1, <5>1
        <5>3. \A b \in FreeBlocks' : b > B2[i]
          BY <1>5, <2>17, <4>1, <5>1
        <5> QED BY <5>1, <5>2, <5>3
      <4>2. CASE i = n + 1
        <5>1. B2[i] = m
          BY <2>8, <4>2
        <5>2. a =< m
          BY <1>17, <2>2, UnitFacts
        <5>3. ASSUME NEW b \in FreeBlocks' PROVE b > m
          <6>1. b \in more /\ b # m /\ b \in Nat /\ m \in Nat
            BY <1>9, <2>2, <2>17, FreeFacts, UnitFacts
          <6>2. m =< b
            BY <2>1, <6>1
          <6> QED BY <6>1, <6>2
        <5> QED BY <2>6, <5>1, <5>2, <5>3
      <4>3. i \in 1 .. n \/ i = n + 1
        BY <1>4
      <4> QED BY <4>1, <4>2, <4>3
    <3>4. ASSUME ~cards[slot].new
          PROVE  /\ Range(B2) \cap SavedAt(slot) = {}
                 /\ \A b \in CardBlock : b \in FreeBlocks' \cup Range(todo') \/ dir'[b] = e[b]
      <4>1. m \notin SavedAt(slot)
        BY <1>13, <2>2, <3>4 DEF SavedAt
      <4>2. ASSUME NEW b \in CardBlock, b \notin FreeBlocks' \cup Range(todo') PROVE dir'[b] = e[b]
        <5>1. b # m /\ b \notin Range(B) /\ b \notin FreeBlocks /\ b # last
          BY <1>7, <2>10, <2>11, <2>17, <4>2
        <5> QED BY <1>6, <2>6, <3>4, <5>1
      <4> QED BY <1>4, <2>10, <3>4, <4>1, <4>2
    <3>5. job'.blocks[1] = a /\ Len(job'.blocks) = n + 1
      BY <2>8, <2>9, <2>10
    <3> QED BY <1>5, <1>11, <2>8, <2>9, <2>11, <2>14, <3>2, <3>3, <3>4, <3>5 DEF CreateInv
  <2>19. FormatInv'
    BY <2>9 DEF FormatInv
  <2> QED BY <1>12, <2>12, <2>13, <2>15, <2>16, <2>18, <2>19 DEF UnitInv
<1> QED BY <1>2, <1>15, <1>16, <1>17

LEMMA UnitInvStep == UnitInv /\ [UnitNext]_unitVars => UnitInv'
<1> SUFFICES ASSUME UnitInv, [UnitNext]_unitVars PROVE UnitInv'
  OBVIOUS
<1>1. CASE \E name \in FileNames, n \in 1 .. BlockCount : Create(name, n)
  BY <1>1, CreateKeeps
<1>2. CASE CreateWrites \/ CreateFails
  BY <1>2, CreateWritesKeeps, CreateFailsKeeps
<1>3. CASE Format \/ FormatWrites
  BY <1>3, FormatKeepsCards, FormatWritesKeeps
<1>4. CASE buDevInit \/ PowerCycle \/ ExchangeCard
  BY <1>4, DevInitKeeps, PowerKeeps, ExchangeKeeps
<1>5. CASE UNCHANGED unitVars
  <2>1. UNCHANGED <<cards, slot, dir, job, todo, saved, lame>>
    BY <1>5 DEF unitVars
  <2>2. UnitTyped'
    BY <2>1 DEF UnitInv, UnitTyped
  <2>3. CardsInv' /\ SavedFilesStay'
    BY <2>1, CardsStay DEF DirOf
  <2>4. DirOf(slot)' = DirOf(slot) /\ SavedAt(slot)' = SavedAt(slot) /\ FreeBlocks' = FreeBlocks
    BY <2>1 DEF DirOf, SavedAt, FreeBlocks
  <2>5. SavedFilesFound' /\ DirInv'
    BY <2>1 DEF UnitInv, SavedFilesFound, FoundAt, DirInv
  <2>6. CreateInv'
    BY <2>1, <2>4 DEF UnitInv, CreateInv
  <2>7. KnownInv'
    BY <2>1, <2>4 DEF UnitInv, KnownInv
  <2>8. FormatInv'
    BY <2>1, <2>4 DEF UnitInv, FormatInv
  <2> QED BY <2>2, <2>3, <2>5, <2>6, <2>7, <2>8 DEF UnitInv
<1> QED BY <1>1, <1>2, <1>3, <1>4, <1>5 DEF UnitNext

LEMMA UnitInvMeans == UnitInv => DirectoriesKept
<1> SUFFICES ASSUME UnitInv PROVE DirectoriesKept
  OBVIOUS
<1>1. UnitTyped /\ SavedFilesStay /\ SavedFilesFound /\ dir \in DirEntries
  BY DEF UnitInv, UnitTyped
<1>2. UnitTypeOK
  <2>1. job.what \in {"none", "create", "format", "hung"}
    BY <1>1 DEF UnitTyped, UnitJobs
  <2> QED BY <1>1, <2>1 DEF UnitTyped, UnitTypeOK, CardStates, SavedSets
<1>3. NoSharedBlocks
  BY <1>1, ChainsApart DEF UnitInv, DirInv, NoSharedBlocks
<1>4. NamesUnique
  BY DEF UnitInv, DirInv, NamesUnique, Distinct, Beginnings
<1> QED BY <1>1, <1>2, <1>3, <1>4 DEF DirectoriesKept

(* The directory of a memory card survives what fails.                     *)
THEOREM DirectoriesAreKept == UnitSpec => []DirectoriesKept
<1>1. UnitSpec => []UnitInv
  BY UnitInvInit, UnitInvStep, PTL DEF UnitSpec
<1> QED BY <1>1, UnitInvMeans, PTL
-----------------------------------------------------------------------------
(* CardSearch *)
Name == Seq(Character)
CardPattern == Seq(Character \cup {"?", "*"})
Kind == AllocState \cup {"a1"}
CardDirectory == [CardBlock -> Kind \X Name]

(* What is kept of a pattern stops before its first star.                  *)
LEMMA CutIs ==
  ASSUME NEW f \in CardPattern
  PROVE  /\ Cut(f) \in Seq(Character \cup {"?"}) /\ Len(Cut(f)) =< Len(f)
         /\ ~Contains(f, "*") => Cut(f) = f
         /\ Contains(f, "*") => Len(Cut(f)) < Len(f)
<1>1. CASE ~Contains(f, "*")
  <2>1. Cut(f) = f
    BY <1>1 DEF Cut
  <2>2. \A i \in 1 .. Len(f) : f[i] \in Character \cup {"?"}
    BY <1>1 DEF Contains, CardPattern
  <2>3. f \in Seq(Character \cup {"?"})
    BY <2>2, IsASeq DEF CardPattern
  <2> QED BY <1>1, <2>1, <2>3 DEF CardPattern
<1>2. CASE Contains(f, "*")
  <2> DEFINE stars == {i \in 1 .. Len(f) : f[i] = "*"}
             m == Min(stars)
  <2>1. stars # {} /\ stars \subseteq Nat
    BY <1>2 DEF Contains, CardPattern
  <2>2. m \in stars /\ \A i \in stars : m =< i
    BY <2>1, MinIsLeast
  <2>3. SelectInSeq(f, LAMBDA c : c = "*") = m
    BY <2>1 DEF SelectInSeq
  <2>4. Cut(f) = SubSeq(f, 1, m - 1)
    BY <1>2, <2>3 DEF Cut
  <2> HIDE DEF m
  <2>5. m \in 1 .. Len(f) /\ Len(f) \in Nat
    BY <2>2 DEF CardPattern
  <2>6. /\ Len(SubSeq(f, 1, m - 1)) = m - 1
        /\ \A i \in 1 .. m - 1 : SubSeq(f, 1, m - 1)[i] = f[i]
        /\ SubSeq(f, 1, m - 1) \in CardPattern
    BY <2>5 DEF CardPattern
  <2>7. ASSUME NEW i \in 1 .. m - 1 PROVE f[i] \in Character \cup {"?"}
    <3>1. i \in 1 .. Len(f) /\ ~(m =< i)
      BY <2>5
    <3>2. f[i] # "*"
      BY <2>2, <3>1
    <3> QED BY <3>1, <3>2 DEF CardPattern
  <2>8. SubSeq(f, 1, m - 1) \in Seq(Character \cup {"?"})
    <3> DEFINE c == SubSeq(f, 1, m - 1)
    <3>1. c \in CardPattern /\ Len(c) = m - 1 /\ \A i \in 1 .. Len(c) : c[i] \in Character \cup {"?"}
      BY <2>6, <2>7
    <3> HIDE DEF c
    <3>2. c \in Seq(Character \cup {"?"})
      BY <3>1, IsASeq DEF CardPattern
    <3> QED BY <3>2 DEF c
  <2> QED BY <1>2, <2>4, <2>5, <2>6, <2>8
<1> QED BY <1>1, <1>2

(* The pattern that is kept: the part before the star, then characters     *)
(* that any may take the place of, then an end.                            *)
LEMMA KeptIs ==
  ASSUME NEW f \in CardPattern, Len(f) =< Width
  PROVE  LET p == Kept(f)
             c == Cut(f)
         IN  /\ Len(p) \in Nat /\ Len(p) =< Width + 1
             /\ f = <<>> => /\ Len(p) = Width /\ p[Width] = "0"
                            /\ \A i \in 1 .. Width - 1 : p[i] = "?"
             /\ f # <<>> => \A i \in 1 .. Len(c) : p[i] = c[i]
             /\ Contains(f, "*") /\ f # <<>> =>
                  Len(p) = Width + 1 /\ \A i \in Len(c) + 1 .. Width : p[i] = "?"
             /\ ~Contains(f, "*") /\ f # <<>> =>
                  /\ Len(p) = Len(c) + 1
                  /\ p[Len(c) + 1] = IF Len(c) < Width THEN "0" ELSE "behind"
<1> DEFINE p == Kept(f)
           c == Cut(f)
<1>1. Width \in Nat /\ Width > 0
  BY CardSearchAssumption DEF CardSearchAssumption
<1>2. /\ c \in Seq(Character \cup {"?"}) /\ Len(c) =< Len(f) /\ Len(c) \in Nat /\ Len(c) =< Width
      /\ Len(f) \in Nat
  BY <1>1, CutIs DEF CardPattern
<1>3. CASE f = <<>>
  <2>1. Width - 1 \in Nat
    BY <1>1
  <2>2. /\ Question(Width - 1) \in Seq({"?"}) /\ Len(Question(Width - 1)) = Width - 1
        /\ \A i \in 1 .. Width - 1 : Question(Width - 1)[i] = "?"
    BY <2>1 DEF Question
  <2>3. p = Question(Width - 1) \o <<"0">>
    BY <1>3 DEF Kept
  <2> DEFINE q == Question(Width - 1)
  <2> HIDE DEF q, p
  <2>4. Len(q \o <<"0">>) = Width /\ (q \o <<"0">>)[Width] = "0"
    BY <1>1, <2>2 DEF q
  <2>5. \A i \in 1 .. Width - 1 : (q \o <<"0">>)[i] = "?"
    BY <1>1, <2>2 DEF q
  <2> QED BY <1>1, <1>3, <2>3, <2>4, <2>5 DEF p, q
<1>4. CASE f # <<>> /\ Contains(f, "*")
  <2> DEFINE q == Question(Width - Len(c))
  <2>1. Width - Len(c) \in Nat
    BY <1>1, <1>2
  <2>2. /\ q \in Seq({"?"}) /\ Len(q) = Width - Len(c)
        /\ \A i \in 1 .. Width - Len(c) : q[i] = "?"
    BY <2>1 DEF Question
  <2> HIDE DEF q
  <2>3. /\ Len(c \o q) = Width /\ c \o q \in Seq(Character \cup {"?"})
        /\ \A i \in 1 .. Len(c) : (c \o q)[i] = c[i]
        /\ \A i \in Len(c) + 1 .. Width : (c \o q)[i] = "?"
    <3> HIDE DEF c
    <3> QED BY <1>1, <1>2, <2>1, <2>2
  <2>4. p = Append(c \o q, "behind")
    BY <1>1, <1>4, <2>3 DEF Kept, q
  <2>5. Len(p) = Width + 1 /\ \A i \in 1 .. Width : p[i] = (c \o q)[i]
    <3> DEFINE r == c \o q
    <3> HIDE DEF r, p, c
    <3>1. r \in Seq(Character \cup {"?"}) /\ Len(r) = Width /\ p = Append(r, "behind")
      BY <2>3, <2>4 DEF r
    <3>2. Len(p) = Width + 1 /\ \A i \in 1 .. Width : p[i] = r[i]
      BY <1>1, <3>1
    <3> QED BY <3>2 DEF r
  <2>6. \A i \in 1 .. Len(c) : i \in 1 .. Width
    BY <1>1, <1>2
  <2>7. \A i \in Len(c) + 1 .. Width : i \in 1 .. Width
    BY <1>1, <1>2
  <2> HIDE DEF p, c
  <2>8. Len(p) \in Nat /\ Len(p) =< Width + 1
    BY <1>1, <2>5
  <2> QED BY <1>4, <2>3, <2>5, <2>6, <2>7, <2>8 DEF p, c
<1>5. CASE f # <<>> /\ ~Contains(f, "*")
  <2>1. p = Append(c \o <<>>, IF Len(c \o <<>>) < Width THEN "0" ELSE "behind")
    BY <1>5 DEF Kept
  <2> HIDE DEF c, p
  <2>2. c \o <<>> = c
    BY <1>2
  <2>3. /\ Len(p) = Len(c) + 1 /\ p[Len(c) + 1] = (IF Len(c) < Width THEN "0" ELSE "behind")
        /\ \A i \in 1 .. Len(c) : p[i] = c[i]
    BY <1>2, <2>1, <2>2
  <2>4. Len(p) \in Nat /\ Len(p) =< Width + 1
    BY <1>1, <1>2, <2>3
  <2> QED BY <1>5, <2>3, <2>4 DEF c, p
<1> QED BY <1>3, <1>4, <1>5

(* The loop of patternMatch, when what is kept of a pattern is compared.   *)
Behind == {"0", "other"}

(* A name the pattern names matches, if it is shorter than the array.      *)
LEMMA NamedMatches ==
  ASSUME NEW f \in CardPattern, Len(f) =< Width, NEW name \in Name, Len(name) < Width,
         Named(name, f), NEW behind \in Behind
  PROVE  patternMatch(name, Kept(f), behind)
<1> DEFINE p == Kept(f)
           c == Cut(f)
           n == Len(name)
<1>1. Width \in Nat /\ Width > 0 /\ n \in Nat
  BY CardSearchAssumption DEF CardSearchAssumption, Name
<1>2. c \in Seq(Character \cup {"?"}) /\ Len(c) \in Nat
  BY CutIs
<1>3. \A i \in 1 .. Len(c) : c[i] # "behind"
  BY <1>2 DEF Character
<1>4. CASE f = <<>>
  <2>1. \A i \in 1 .. n : i =< Width /\ i \in 1 .. Width - 1
    BY <1>1
  <2>2. \A i \in 1 .. n : i =< Len(p) /\ p[i] = "?"
    BY <1>4, <2>1, KeptIs
  <2>3. n + 1 \in 1 .. Width - 1 \/ n + 1 = Width
    BY <1>1
  <2>4. p[n + 1] \in {"0", "?"}
    BY <1>4, <2>3, KeptIs
  <2> QED BY <2>2, <2>4 DEF patternMatch
<1>5. CASE f # <<>> /\ Contains(f, "*")
  <2>1. \A i \in 1 .. n : i \in 1 .. Len(c) \/ i \in Len(c) + 1 .. Width
    BY <1>1, <1>2
  <2>2. ASSUME NEW i \in 1 .. n PROVE i =< Len(p) /\ p[i] # "behind" /\ p[i] \in {"?", name[i]}
    <3>1. i =< Width + 1 /\ ~(i > n)
      BY <1>1
    <3>2. CASE i \in 1 .. Len(c)
      <4>1. c[i] \in {"?", name[i]}
        BY <1>5, <3>1, <3>2 DEF Named
      <4> QED BY <1>3, <1>5, <3>1, <3>2, <4>1, KeptIs
    <3>3. CASE i \in Len(c) + 1 .. Width
      BY <1>5, <3>1, <3>3, KeptIs
    <3> QED BY <2>1, <3>2, <3>3
  <2>3. n + 1 \in 1 .. Len(c) \/ n + 1 \in Len(c) + 1 .. Width
    BY <1>1, <1>2
  <2>4. p[n + 1] = "?"
    <3>1. CASE n + 1 \in 1 .. Len(c)
      <4>1. n + 1 > n
        BY <1>1
      <4>2. c[n + 1] = "?"
        BY <1>5, <3>1, <4>1 DEF Named
      <4> QED BY <1>5, <3>1, <4>2, KeptIs
    <3>2. CASE n + 1 \in Len(c) + 1 .. Width
      BY <1>5, <3>2, KeptIs
    <3> QED BY <2>3, <3>1, <3>2
  <2> QED BY <2>2, <2>4 DEF patternMatch
<1>6. CASE f # <<>> /\ ~Contains(f, "*")
  <2>1. n =< Len(c)
    BY <1>1, <1>2, <1>6 DEF Named
  <2>2. ASSUME NEW i \in 1 .. n PROVE i =< Len(p) /\ p[i] # "behind" /\ p[i] \in {"?", name[i]}
    <3>1. i =< Len(c) + 1 /\ ~(i > n) /\ i \in 1 .. Len(c)
      BY <1>1, <1>2, <2>1
    <3>2. c[i] \in {"?", name[i]}
      BY <1>6, <3>1 DEF Named
    <3> QED BY <1>3, <1>6, <3>1, <3>2, KeptIs
  <2>3. p[n + 1] \in {"0", "?"}
    <3>1. CASE n < Len(c)
      <4>1. n + 1 > n /\ n + 1 \in 1 .. Len(c)
        BY <1>1, <1>2, <3>1
      <4>2. c[n + 1] = "?"
        BY <1>6, <4>1 DEF Named
      <4> QED BY <1>6, <4>1, <4>2, KeptIs
    <3>2. CASE n = Len(c)
      BY <1>6, <3>2, KeptIs
    <3> QED BY <1>1, <1>2, <2>1, <3>1, <3>2
  <2> QED BY <2>2, <2>3 DEF patternMatch
<1> QED BY <1>4, <1>5, <1>6

(* A name that matches is one the pattern names, if only "?" follow "?".   *)
LEMMA MatchesNamed ==
  ASSUME NEW f \in CardPattern, Len(f) =< Width, NEW name \in Name, QuestionsEnd(f),
         NEW behind \in Behind, patternMatch(name, Kept(f), behind)
  PROVE  Named(name, f)
<1> DEFINE p == Kept(f)
           c == Cut(f)
           n == Len(name)
           At(i) == IF p[i] = "behind" THEN behind ELSE p[i]
<1>1. n \in Nat /\ \A i \in 1 .. n : name[i] \in Character
  BY DEF Name
<1>2. c \in Seq(Character \cup {"?"}) /\ Len(c) \in Nat
  BY CutIs
<1>3. \A i \in 1 .. Len(c) : c[i] # "behind" /\ c[i] # "0"
  BY <1>2 DEF Character
<1>4. (\A i \in 1 .. n : i =< Len(p) /\ At(i) \in {"?", name[i]}) /\ At(n + 1) \in {"0", "?"}
  BY DEF patternMatch
<1> SUFFICES ASSUME f # <<>> PROVE Named(name, f)
  BY DEF Named
<1>5. \A i \in 1 .. Len(c) : p[i] = c[i] /\ At(i) = c[i]
  BY <1>3, KeptIs
<1> HIDE DEF p, c, At
<1>6. ASSUME NEW i \in 1 .. Len(c)
      PROVE  IF i > n THEN c[i] = "?" ELSE c[i] \in {"?", name[i]}
  <2>1. CASE i > n
    <3>1. n + 1 \in 1 .. Len(c) /\ i \in n + 1 .. Len(c)
      BY <1>1, <1>2, <2>1
    <3>2. c[n + 1] = "?"
      BY <1>3, <1>4, <1>5, <3>1
    <3> QED BY <2>1, <3>1, <3>2 DEF QuestionsEnd, c
  <2>2. CASE ~(i > n)
    <3>1. i \in 1 .. n
      BY <1>1, <1>2, <2>2
    <3> QED BY <1>4, <1>5, <2>2, <3>1
  <2> QED BY <2>1, <2>2
<1>7. ASSUME n > Len(c), ~Contains(f, "*") PROVE FALSE
  <2>1. Len(c) + 1 \in 1 .. n
    BY <1>1, <1>2, <1>7
  <2>2. p[Len(c) + 1] \in {"0", "behind"}
    BY <1>7, KeptIs DEF p, c
  <2>3. At(Len(c) + 1) \in {"0", "other"}
    BY <2>2 DEF At, Behind
  <2>4. name[Len(c) + 1] \in Character
    BY <1>1, <2>1
  <2> QED BY <1>4, <2>1, <2>3, <2>4 DEF Character
<1> QED BY <1>6, <1>7 DEF Named, c

(* An open finds the file of that name, and no other.                      *)
LEMMA OnlyItsName ==
  ASSUME NEW name \in Name, NEW other \in Name
  PROVE  patternMatch(other, Append(name, "0"), "other") <=> other = name
<1> DEFINE p == Append(name, "0")
           At(i) == IF p[i] = "behind" THEN "other" ELSE p[i]
<1>1. /\ Len(name) \in Nat /\ Len(other) \in Nat
      /\ \A i \in 1 .. Len(name) : name[i] \notin {"?", "0", "behind", "other"}
      /\ \A i \in 1 .. Len(other) : other[i] \notin {"?", "0", "behind", "other"}
  BY DEF Name, Character
<1>2. /\ Len(p) = Len(name) + 1 /\ p[Len(name) + 1] = "0"
      /\ \A i \in 1 .. Len(name) : p[i] = name[i]
  BY DEF Name
<1>3. /\ \A i \in 1 .. Len(name) : At(i) = name[i]
      /\ At(Len(name) + 1) = "0"
  BY <1>1, <1>2
<1>4. patternMatch(other, p, "other") <=>
        /\ \A i \in 1 .. Len(other) : i =< Len(p) /\ At(i) \in {"?", other[i]}
        /\ At(Len(other) + 1) \in {"0", "?"}
  BY DEF patternMatch
<1> HIDE DEF p, At
<1>5. ASSUME patternMatch(other, p, "other") PROVE other = name
  <2>1. ASSUME NEW i \in 1 .. Len(other) PROVE i =< Len(name) /\ name[i] = other[i]
    <3>1. i =< Len(name) + 1 /\ At(i) \in {"?", other[i]} /\ other[i] \notin {"?", "0"}
      BY <1>1, <1>2, <1>4, <1>5
    <3>2. i # Len(name) + 1
      BY <1>3, <3>1
    <3>3. i =< Len(name) /\ i \in 1 .. Len(name)
      BY <1>1, <3>1, <3>2
    <3> QED BY <1>1, <1>3, <3>1, <3>3
  <2>2. Len(other) =< Len(name)
    <3>1. Len(other) = 0 \/ Len(other) \in 1 .. Len(other)
      BY <1>1
    <3> QED BY <1>1, <2>1, <3>1
  <2>3. Len(other) = Len(name)
    <3> SUFFICES ASSUME Len(other) < Len(name) PROVE FALSE
      BY <1>1, <2>2
    <3>1. Len(other) + 1 \in 1 .. Len(name)
      BY <1>1
    <3> QED BY <1>1, <1>3, <1>4, <1>5, <3>1
  <2> QED BY <2>1, <2>3, SeqEqual DEF Name
<1>6. ASSUME other = name PROVE patternMatch(other, p, "other")
  <2>1. \A i \in 1 .. Len(name) : i =< Len(p)
    BY <1>1, <1>2
  <2> QED BY <1>3, <1>4, <1>6, <2>1
<1> QED BY <1>5, <1>6 DEF p

Hit(e, wanted, p, behind, b) ==
  e[b][1] = wanted /\ e[b][2] # <<>> /\ patternMatch(e[b][2], p, behind)

(* buNextFileInternal returns the first entry that matches from i on.      *)
LEMMA NextFileIs ==
  ASSUME NEW e, NEW wanted, NEW p, NEW behind, NEW i \in 0 .. BlockCount
  PROVE  LET b == buNextFileInternal(e, wanted, i, p, behind) IN
         \/ b = -1 /\ \A c \in i .. BlockCount - 1 : ~Hit(e, wanted, p, behind, c)
         \/ /\ b \in i .. BlockCount - 1 /\ Hit(e, wanted, p, behind, b)
            /\ \A c \in i .. BlockCount - 1 : Hit(e, wanted, p, behind, c) => b =< c
<1> DEFINE found == {b \in i .. BlockCount - 1 : Hit(e, wanted, p, behind, b)}
<1>1. BlockCount \in Nat
  BY BackupUnitAssumption DEF BackupUnitAssumption
<1>2. buNextFileInternal(e, wanted, i, p, behind) = IF found = {} THEN -1 ELSE Min(found)
  BY DEF buNextFileInternal, Hit
<1>3. found \subseteq Nat
  BY <1>1
<1>4. CASE found = {}
  BY <1>2, <1>4
<1>5. CASE found # {}
  <2>1. Min(found) \in found /\ \A c \in found : Min(found) =< c
    BY <1>3, <1>5, MinIsLeast
  <2> QED BY <1>2, <1>5, <2>1
<1> QED BY <1>4, <1>5

(* What a search has listed when it stands at block i: entries that match, *)
(* each once and in order, and all that match whatever is behind the array.*)
ListedTo(e, wanted, f, listed, i) ==
  /\ \A k \in 1 .. Len(listed) : \E behind \in Behind : Hit(e, wanted, Kept(f), behind, listed[k])
  /\ \A k \in 1 .. Len(listed) - 1 : listed[k] < listed[k + 1]
  /\ \A b \in CardBlock :
       /\ b =< i
       /\ \A behind \in Behind : Hit(e, wanted, Kept(f), behind, b)
       => b \in Range(listed)

Stands(listed, i) == IF listed = <<>> THEN i = -1 ELSE i = listed[Len(listed)]

(* The next entry is the next one of the listing, and there is none when   *)
(* all are listed.                                                         *)
LEMMA ListsOn ==
  ASSUME NEW e, NEW wanted, NEW f, NEW listed \in Seq(CardBlock), NEW i,
         ListedTo(e, wanted, f, listed, i), Stands(listed, i), NEW behind \in Behind
  PROVE  LET b == buNextFileInternal(e, wanted, i + 1, Kept(f), behind) IN
         /\ i \in -1 .. BlockCount - 1
         /\ b = -1 => ListedTo(e, wanted, f, listed, BlockCount - 1)
         /\ b # -1 => /\ b \in CardBlock /\ Append(listed, b) \in Seq(CardBlock)
                      /\ ListedTo(e, wanted, f, Append(listed, b), b)
                      /\ Stands(Append(listed, b), b)
<1> DEFINE b == buNextFileInternal(e, wanted, i + 1, Kept(f), behind)
           n == Len(listed)
<1>1. BlockCount \in Nat /\ BlockCount > 0
  BY BackupUnitAssumption DEF BackupUnitAssumption
<1>2. n \in Nat /\ \A k \in 1 .. n : listed[k] \in CardBlock
  OBVIOUS
<1>3. i \in -1 .. BlockCount - 1
  <2>1. CASE listed = <<>>
    BY <1>1, <2>1 DEF Stands
  <2>2. CASE listed # <<>>
    <3>1. n \in 1 .. n
      BY <2>2
    <3> QED BY <1>1, <1>2, <2>2, <3>1 DEF Stands, CardBlock
  <2> QED BY <2>1, <2>2
<1>4. i + 1 \in 0 .. BlockCount
  BY <1>1, <1>3
<1>5. \/ b = -1 /\ \A c \in i + 1 .. BlockCount - 1 : ~Hit(e, wanted, Kept(f), behind, c)
      \/ /\ b \in i + 1 .. BlockCount - 1 /\ Hit(e, wanted, Kept(f), behind, b)
         /\ \A c \in i + 1 .. BlockCount - 1 : Hit(e, wanted, Kept(f), behind, c) => b =< c
  BY <1>4, NextFileIs
<1> HIDE DEF b
<1>6. \A c \in CardBlock : c =< i \/ c \in i + 1 .. BlockCount - 1
  BY <1>1, <1>3 DEF CardBlock
<1>7. ASSUME b = -1 PROVE ListedTo(e, wanted, f, listed, BlockCount - 1)
  <2>1. \A c \in i + 1 .. BlockCount - 1 : ~Hit(e, wanted, Kept(f), behind, c)
    BY <1>1, <1>3, <1>5, <1>7
  <2> QED BY <1>6, <2>1 DEF ListedTo
<1>8. ASSUME b # -1
      PROVE  /\ b \in CardBlock /\ Append(listed, b) \in Seq(CardBlock)
             /\ ListedTo(e, wanted, f, Append(listed, b), b)
             /\ Stands(Append(listed, b), b)
  <2> DEFINE new == Append(listed, b)
  <2>1. /\ b \in i + 1 .. BlockCount - 1 /\ Hit(e, wanted, Kept(f), behind, b)
        /\ \A c \in i + 1 .. BlockCount - 1 : Hit(e, wanted, Kept(f), behind, c) => b =< c
    BY <1>5, <1>8
  <2>2. b \in CardBlock /\ i < b
    BY <1>1, <1>3, <2>1 DEF CardBlock
  <2>3. /\ new \in Seq(CardBlock) /\ Len(new) = n + 1 /\ new[n + 1] = b
        /\ \A k \in 1 .. n : new[k] = listed[k]
    BY <2>2
  <2> HIDE DEF new
  <2>4. \A k \in 1 .. Len(new) : k \in 1 .. n \/ k = n + 1
    BY <1>2, <2>3
  <2>5. \A k \in 1 .. Len(new) : \E way \in Behind : Hit(e, wanted, Kept(f), way, new[k])
    BY <2>1, <2>3, <2>4 DEF ListedTo
  <2>6. ASSUME NEW k \in 1 .. Len(new) - 1 PROVE new[k] < new[k + 1]
    <3>1. CASE k = n
      <4>1. n \in 1 .. n /\ listed # <<>>
        BY <3>1
      <4>2. listed[n] = i
        BY <4>1 DEF Stands
      <4> QED BY <2>2, <2>3, <3>1, <4>1, <4>2
    <3>2. CASE k # n
      <4>1. k \in 1 .. n - 1 /\ k \in 1 .. n /\ k + 1 \in 1 .. n
        BY <1>2, <2>3, <3>2
      <4> QED BY <2>3, <4>1 DEF ListedTo
    <3> QED BY <3>1, <3>2
  <2>7. ASSUME NEW c \in CardBlock, c =< b,
               \A way \in Behind : Hit(e, wanted, Kept(f), way, c)
        PROVE  c \in Range(new)
    <3>1. CASE c =< i
      <4>1. c \in Range(listed)
        BY <2>7, <3>1 DEF ListedTo
      <4>2. PICK k \in 1 .. n : listed[k] = c
        BY <4>1 DEF Range
      <4>3. k \in 1 .. Len(new) /\ new[k] = c
        BY <1>2, <2>3, <4>2
      <4> QED BY <2>3, <4>3 DEF Range
    <3>2. CASE c \in i + 1 .. BlockCount - 1
      <4>1. b =< c
        BY <2>1, <2>7, <3>2
      <4>2. c = b
        BY <2>2, <2>7, <4>1 DEF CardBlock
      <4>3. n + 1 \in DOMAIN new
        BY <1>2, <2>3
      <4> QED BY <2>3, <4>2, <4>3 DEF Range
    <3> QED BY <1>6, <3>1, <3>2
  <2>8. ListedTo(e, wanted, f, new, b)
    BY <2>5, <2>6, <2>7 DEF ListedTo
  <2>9. Stands(new, b)
    BY <1>2, <2>3 DEF Stands
  <2> QED BY <2>2, <2>3, <2>8, <2>9 DEF new
<1> QED BY <1>3, <1>7, <1>8 DEF b

-----------------------------------------------------------------------------
(* No two files of a directory have one name. *)
OneEach(e) == \A b, c \in CardBlock : e[b][1] = "51" /\ e[c] = e[b] => b = c

DirectoriesInv ==
  /\ entries \in [1 .. 2 -> CardDirectory]
  /\ \A port \in 1 .. 2 : OneEach(entries[port])

CardSearches ==
  [at : {"none", "going", "over"}, port : 1 .. 2, filename : CardPatterns \cup {<<>>},
   listed : Seq(CardBlock)]

SearchTyped ==
  /\ cardSearch \in CardSearches
  /\ index \in -1 .. BlockCount - 1 /\ status \in 0 .. 1
  /\ Len(pattern) =< Width + 1

(* A search that goes on has its pattern and its place still, and has      *)
(* listed what is before that; one that is over has listed all.            *)
PlaceInv ==
  LET s == cardSearch
      To(i) == ListedTo(entries[s.port], Wanted(status), s.filename, s.listed, i)
  IN  /\ s.at # "none" => s.filename \in CardPatterns
      /\ s.at = "going" => /\ To(index) /\ s.listed # <<>> /\ Stands(s.listed, index)
                           /\ pattern = Kept(s.filename)
      /\ s.at = "over" => To(BlockCount - 1)

CardSearchInv == DirectoriesInv /\ SearchTyped /\ PlaceInv

LEMMA DirectoriesThere ==
  /\ \A d \in CardDirectories : d \in CardDirectory /\ OneEach(d)
  /\ OtherDirectory \in CardDirectories
  /\ \A name \in NamesThere : name \in Name
<1>1. \A d \in CardDirectories : d \in CardDirectory /\ OneEach(d)
  BY CardSearchAssumption DEF CardSearchAssumption, CardDirectory, Kind, Name, OneEach
<1>2. \A d \in CardDirectories, b \in CardBlock : d[b][2] \in Name
  BY <1>1 DEF CardDirectory
<1> QED BY <1>1, <1>2, CardSearchAssumption DEF CardSearchAssumption, NamesThere

LEMMA PatternsThere ==
  /\ \A f \in CardPatterns : f \in CardPattern /\ Len(f) =< Width
  /\ Width \in Nat /\ Width > 0 /\ BlockCount \in Nat /\ BlockCount > 0
BY CardSearchAssumption, BackupUnitAssumption
   DEF CardSearchAssumption, BackupUnitAssumption, CardPattern

LEMMA CardSearchInvInit == SearchInit => CardSearchInv
<1> SUFFICES ASSUME SearchInit PROVE CardSearchInv
  OBVIOUS
<1>1. DirectoriesInv
  <2>1. PICK d \in CardDirectories : entries = <<d, OtherDirectory>>
    BY DEF SearchInit
  <2>2. entries = [port \in 1 .. 2 |-> IF port = 1 THEN d ELSE OtherDirectory]
    BY <2>1
  <2> QED BY <2>2, DirectoriesThere DEF DirectoriesInv
<1>2. SearchTyped
  <2>1. NoSearch \in CardSearches
    BY DEF NoSearch, CardSearches
  <2>2. Len(<<"0">>) = 1
    OBVIOUS
  <2> QED BY <2>1, <2>2, PatternsThere DEF SearchTyped, SearchInit
<1>3. PlaceInv
  BY DEF PlaceInv, SearchInit, NoSearch
<1> QED BY <1>1, <1>2, <1>3 DEF CardSearchInv

(* What buDevInit makes of the copy is a directory.                        *)
LEMMA BuDevInitKeeps ==
  ASSUME DirectoriesInv, NEW port \in 1 .. 2, buDevInitOf(port) \/ buDevInitFails(port)
  PROVE  DirectoriesInv'
<1>1. ZeroedNames \in CardDirectory /\ OneEach(ZeroedNames)
  <2>1. <<>> \in Name
    BY DEF Name
  <2> QED BY <2>1 DEF ZeroedNames, CardDirectory, OneEach, Kind, AllocState
<1>2. entries' = entries \/ \E d \in CardDirectory : OneEach(d) /\ entries' = [entries EXCEPT ![port] = d]
  <2>1. CASE buDevInitOf(port)
    BY <2>1, DirectoriesThere DEF buDevInitOf
  <2>2. CASE buDevInitFails(port)
    BY <1>1, <2>2 DEF buDevInitFails
  <2> QED BY <2>1, <2>2
<1>3. CASE entries' = entries
  BY <1>3 DEF DirectoriesInv
<1>4. CASE \E d \in CardDirectory : OneEach(d) /\ entries' = [entries EXCEPT ![port] = d]
  <2>1. PICK d \in CardDirectory : OneEach(d) /\ entries' = [entries EXCEPT ![port] = d]
    BY <1>4
  <2>2. entries' \in [1 .. 2 -> CardDirectory]
    BY <2>1 DEF DirectoriesInv
  <2>3. \A q \in 1 .. 2 : entries'[q] = d \/ entries'[q] = entries[q]
    BY <2>1 DEF DirectoriesInv
  <2> QED BY <2>1, <2>2, <2>3 DEF DirectoriesInv
<1> QED BY <1>2, <1>3, <1>4

(* A step of the search lists the next file or ends it.                    *)
LEMMA ContinueKeeps ==
  ASSUME DirectoriesInv', NEW s \in CardSearches, s.at = "going", s.filename \in CardPatterns,
         pattern' = Kept(s.filename), status' \in 0 .. 1, NEW i, Stands(s.listed, i),
         ListedTo(entries'[s.port], Wanted(status'), s.filename, s.listed, i), Continue(s, i)
  PROVE  CardSearchInv'
<1> DEFINE e == entries'[s.port]
           w == Wanted(status')
           To(l, k) == ListedTo(e, w, s.filename, l, k)
<1>1. PICK behind \in Behind :
        LET b == buNextFileInternal(e, w, i + 1, Kept(s.filename), behind)
        IN  IF b = -1
            THEN cardSearch' = [s EXCEPT !.at = "over"] /\ index' = i
            ELSE cardSearch' = [s EXCEPT !.listed = Append(@, b)] /\ index' = b
  BY DEF Continue, Behind
<1> DEFINE b == buNextFileInternal(e, w, i + 1, Kept(s.filename), behind)
<1>2. /\ s.port \in 1 .. 2 /\ s.listed \in Seq(CardBlock)
      /\ s = [at |-> "going", port |-> s.port, filename |-> s.filename, listed |-> s.listed]
  BY DEF CardSearches
<1>3. /\ i \in -1 .. BlockCount - 1
      /\ b = -1 => To(s.listed, BlockCount - 1)
      /\ b # -1 => /\ b \in CardBlock /\ Append(s.listed, b) \in Seq(CardBlock)
                   /\ To(Append(s.listed, b), b) /\ Stands(Append(s.listed, b), b)
  BY <1>2, ListsOn
<1>4. Len(pattern') =< Width + 1
  BY PatternsThere, KeptIs
<1> HIDE DEF b
<1>5. CASE b = -1
  <2>1. index' = i /\ cardSearch' = [at |-> "over", port |-> s.port, filename |-> s.filename,
                                     listed |-> s.listed]
    BY <1>1, <1>2, <1>5 DEF b
  <2>2. cardSearch' \in CardSearches
    BY <1>2, <2>1 DEF CardSearches
  <2>3. PlaceInv'
    BY <1>3, <1>5, <2>1 DEF PlaceInv
  <2> QED BY <1>3, <1>4, <2>1, <2>2, <2>3 DEF CardSearchInv, SearchTyped
<1>6. CASE b # -1
  <2>1. index' = b /\ cardSearch' = [at |-> "going", port |-> s.port, filename |-> s.filename,
                                     listed |-> Append(s.listed, b)]
    BY <1>1, <1>2, <1>6 DEF b
  <2>2. cardSearch' \in CardSearches
    BY <1>2, <1>3, <1>6, <2>1 DEF CardSearches
  <2>3. Append(s.listed, b) # <<>>
    BY <1>2, <1>3, <1>6
  <2>4. PlaceInv'
    BY <1>3, <1>6, <2>1, <2>3 DEF PlaceInv
  <2>5. index' \in -1 .. BlockCount - 1
    BY <1>3, <1>6, <2>1, PatternsThere DEF CardBlock
  <2> QED BY <1>4, <2>1, <2>2, <2>4, <2>5 DEF CardSearchInv, SearchTyped
<1> QED BY <1>5, <1>6

LEMMA Over ==
  ASSUME CardSearchInv, DirectoriesInv', cardSearch' = NoSearch,
         index' \in -1 .. BlockCount - 1, status' \in 0 .. 1, UNCHANGED pattern
  PROVE  CardSearchInv'
<1>1. NoSearch \in CardSearches
  BY DEF NoSearch, CardSearches
<1>2. SearchTyped'
  BY <1>1 DEF CardSearchInv, SearchTyped
<1>3. PlaceInv'
  BY DEF PlaceInv, NoSearch
<1> QED BY <1>2, <1>3 DEF CardSearchInv

LEMMA CardFirstFileKeeps ==
  ASSUME CardSearchInv, NEW port \in 1 .. 2
  PROVE  /\ dev_bu_firstFileFails(port) => CardSearchInv'
         /\ \A f \in CardPatterns : dev_bu_firstFile(port, f) => CardSearchInv'
<1>1. ASSUME dev_bu_firstFileFails(port) PROVE CardSearchInv'
  <2>1. DirectoriesInv'
    BY <1>1, BuDevInitKeeps DEF dev_bu_firstFileFails, CardSearchInv
  <2> QED BY <1>1, <2>1, Over DEF dev_bu_firstFileFails, CardSearchInv, SearchTyped
<1>2. ASSUME NEW f \in CardPatterns, dev_bu_firstFile(port, f) PROVE CardSearchInv'
  <2> DEFINE s == [at |-> "going", port |-> port, filename |-> f, listed |-> <<>>]
  <2>1. DirectoriesInv'
    BY <1>2, BuDevInitKeeps DEF dev_bu_firstFile, CardSearchInv
  <2>2. Continue(s, -1) /\ pattern' = Kept(f) /\ status' \in 0 .. 1
    BY <1>2 DEF dev_bu_firstFile, CardSearchInv, SearchTyped
  <2>3. s \in CardSearches
    BY DEF CardSearches
  <2>4. s.at = "going" /\ s.filename = f /\ s.listed = <<>> /\ s.port = port
    OBVIOUS
  <2>5. Stands(<<>>, -1)
    BY DEF Stands
  <2>6. \A b \in CardBlock : ~(b =< -1)
    BY PatternsThere DEF CardBlock
  <2>7. ListedTo(entries'[port], Wanted(status'), f, <<>>, -1)
    BY <2>6 DEF ListedTo
  <2> HIDE DEF s
  <2> QED BY <2>1, <2>2, <2>3, <2>4, <2>5, <2>7, ContinueKeeps
<1> QED BY <1>1, <1>2

LEMMA CardNextFileKeeps ==
  ASSUME CardSearchInv, dev_bu_nextFile
  PROVE  CardSearchInv'
<1>1. /\ cardSearch \in CardSearches /\ cardSearch.at = "going"
      /\ cardSearch.filename \in CardPatterns /\ pattern' = Kept(cardSearch.filename)
      /\ status' = status /\ entries' = entries /\ status' \in 0 .. 1
      /\ Stands(cardSearch.listed, index) /\ Continue(cardSearch, index)
      /\ ListedTo(entries[cardSearch.port], Wanted(status), cardSearch.filename,
                  cardSearch.listed, index)
  BY DEF CardSearchInv, SearchTyped, PlaceInv, dev_bu_nextFile, Searching
<1>2. DirectoriesInv'
  BY <1>1 DEF CardSearchInv, DirectoriesInv
<1> QED BY <1>1, <1>2, ContinueKeeps

(* The place an open leaves is a block.                                    *)
LEMMA LookedPlace ==
  ASSUME CardSearchInv, NEW port, NEW name, Looked(port, name)
  PROVE  index' \in -1 .. BlockCount - 1
<1> DEFINE b == buNextFileInternal(entries'[port], "51", 0, Append(name, "0"), "other")
<1>1. 0 \in 0 .. BlockCount
  BY PatternsThere
<1>2. b = -1 \/ b \in 0 .. BlockCount - 1
  BY <1>1, NextFileIs
<1>3. index' = IF b = -1 THEN index ELSE b
  BY DEF Looked
<1>4. index \in -1 .. BlockCount - 1 /\ BlockCount \in Nat
  BY PatternsThere DEF CardSearchInv, SearchTyped
<1>5. b \in -1 .. BlockCount - 1
  <2> HIDE DEF b
  <2> QED BY <1>2, <1>4
<1> HIDE DEF b
<1> QED BY <1>3, <1>4, <1>5

(* An open of the file that was listed last leaves the place at it.        *)
LEMMA CardOpenKeeps ==
  ASSUME SearchApart, CardSearchInv, NEW port \in 1 .. 2, NEW name \in NamesThere, open(port, name)
  PROVE  CardSearchInv'
<1>0. CASE ~Searching
  <2>1. Looked(port, name) /\ UNCHANGED entries
    BY DEF open
  <2>2. index' \in -1 .. BlockCount - 1
    BY <2>1, LookedPlace
  <2>3. DirectoriesInv'
    BY <2>1 DEF CardSearchInv, DirectoriesInv
  <2> QED BY <1>0, <2>1, <2>2, <2>3, Over DEF Looked, Goes
<1> SUFFICES ASSUME Searching PROVE CardSearchInv'
  BY <1>0
<1> DEFINE s == cardSearch
           e == entries[port]
           l == s.listed
           m == l[Len(l)]
           b == buNextFileInternal(e, "51", 0, Append(name, "0"), "other")
<1>1. /\ s.at = "going" /\ port = s.port /\ l # <<>> /\ status = 0 /\ e[m][2] = name
      /\ entries' = entries /\ status' = 0 /\ pattern' = pattern /\ cardSearch' = s
      /\ index' = IF b = -1 THEN index ELSE b
  <2>1. Searching /\ LastListed(port, name) /\ UNCHANGED entries /\ Looked(port, name)
    BY DEF open
  <2>2. s.at = "going" /\ port = s.port /\ l # <<>> /\ status = 0 /\ e[m][2] = name
    BY <2>1 DEF Searching, LastListed, Last
  <2>3. status' = 0 /\ pattern' = pattern /\ cardSearch' = s
    BY <2>1 DEF Looked, Goes
  <2>4. index' = IF b = -1 THEN index ELSE b
    BY <2>1 DEF Looked
  <2> QED BY <2>1, <2>2, <2>3, <2>4
<1>2. /\ s \in CardSearches /\ e \in CardDirectory /\ OneEach(e)
      /\ ListedTo(e, "51", s.filename, l, index) /\ Stands(l, index)
  BY <1>1 DEF CardSearchInv, SearchTyped, PlaceInv, DirectoriesInv, Wanted
<1>3. l \in Seq(CardBlock) /\ Len(l) \in 1 .. Len(l) /\ m \in CardBlock /\ index = m
  <2>1. l \in Seq(CardBlock)
    BY <1>2 DEF CardSearches
  <2>2. Len(l) \in 1 .. Len(l)
    BY <1>1, <2>1
  <2> QED BY <1>1, <1>2, <2>1, <2>2 DEF Stands
<1>4. e[m][1] = "51" /\ e[m][2] # <<>>
  BY <1>2, <1>3 DEF ListedTo, Hit
<1>5. name \in Name
  BY DirectoriesThere
<1>6. \A c \in CardBlock : Hit(e, "51", Append(name, "0"), "other", c) <=> c = m
  <2> SUFFICES ASSUME NEW c \in CardBlock
               PROVE  Hit(e, "51", Append(name, "0"), "other", c) <=> c = m
    OBVIOUS
  <2>1. /\ e[c] \in Kind \X Name /\ e[m] \in Kind \X Name
        /\ e[c] = <<e[c][1], e[c][2]>> /\ e[m] = <<e[m][1], e[m][2]>>
    BY <1>2, <1>3 DEF CardDirectory
  <2>2. patternMatch(e[c][2], Append(name, "0"), "other") <=> e[c][2] = name
    BY <1>5, <2>1, OnlyItsName
  <2>3. e[c][1] = "51" /\ e[c][2] = name => c = m
    BY <1>1, <1>2, <1>3, <1>4, <2>1 DEF OneEach
  <2> QED BY <1>1, <1>4, <2>2, <2>3 DEF Hit
<1>7. b = -1 \/ b = m
  <2>1. 0 \in 0 .. BlockCount /\ CardBlock = 0 .. BlockCount - 1
    BY PatternsThere DEF CardBlock
  <2>2. \/ b = -1
        \/ b \in CardBlock /\ Hit(e, "51", Append(name, "0"), "other", b)
    BY <2>1, NextFileIs
  <2> HIDE DEF b, e, m
  <2> QED BY <1>6, <2>2
<1>8. index' = index
  BY <1>1, <1>3, <1>7
<1>9. DirectoriesInv'
  BY <1>1 DEF CardSearchInv, DirectoriesInv
<1>10. SearchTyped'
  BY <1>1, <1>8 DEF CardSearchInv, SearchTyped
<1>11. PlaceInv'
  BY <1>1, <1>8 DEF CardSearchInv, PlaceInv
<1> QED BY <1>9, <1>10, <1>11 DEF CardSearchInv

(* What else a program does ends no search, because none is under way.     *)
LEMMA OthersKeep ==
  ASSUME SearchApart, CardSearchInv, NEW port \in 1 .. 2, NEW name \in NamesThere
  PROVE  /\ openFirst(port, name) => CardSearchInv'
         /\ create(port, name) => CardSearchInv'
<1>1. ASSUME openFirst(port, name) PROVE CardSearchInv'
  <2>1. DirectoriesInv'
    BY <1>1, BuDevInitKeeps DEF openFirst, CardSearchInv
  <2>2. Looked(port, name) /\ ~Searching
    BY <1>1 DEF openFirst
  <2>3. index' \in -1 .. BlockCount - 1
    BY <2>2, LookedPlace
  <2> QED BY <2>1, <2>2, <2>3, Over DEF Looked, Goes
<1>2. ASSUME create(port, name) PROVE CardSearchInv'
  <2> DEFINE e == entries[port]
             free == {b \in CardBlock : e[b][1] = "a0"}
             m == Min(free)
  <2>1. /\ ~Searching /\ free # {} /\ entries' = [entries EXCEPT ![port][m] = <<"51", name>>]
        /\ \A b \in CardBlock : e[b] # <<"51", name>>
        /\ status' = 0 /\ cardSearch' = NoSearch /\ UNCHANGED <<pattern, index>>
    BY <1>2 DEF create, Goes
  <2>2. free \subseteq Nat
    BY PatternsThere DEF CardBlock
  <2>3. m \in CardBlock
    BY <2>1, <2>2, MinIsLeast
  <2> HIDE DEF m
  <2>4. e \in CardDirectory /\ OneEach(e) /\ entries \in [1 .. 2 -> CardDirectory]
    BY DEF CardSearchInv, DirectoriesInv
  <2> DEFINE d == [e EXCEPT ![m] = <<"51", name>>]
  <2>5. entries' = [entries EXCEPT ![port] = d]
    BY <2>1
  <2>6. <<"51", name>> \in Kind \X Name
    BY DirectoriesThere DEF Kind, AllocState
  <2>7. d \in CardDirectory /\ \A b \in CardBlock : d[b] = IF b = m THEN <<"51", name>> ELSE e[b]
    BY <2>3, <2>4, <2>6 DEF CardDirectory
  <2> HIDE DEF d, e
  <2>8. OneEach(d)
    BY <2>1, <2>4, <2>7 DEF OneEach
  <2>9. entries' \in [1 .. 2 -> CardDirectory]
    BY <2>4, <2>5, <2>7
  <2>10. \A q \in 1 .. 2 : entries'[q] = d \/ entries'[q] = entries[q]
    BY <2>4, <2>5
  <2>11. DirectoriesInv'
    BY <2>8, <2>9, <2>10 DEF CardSearchInv, DirectoriesInv
  <2> QED BY <2>1, <2>11, Over DEF CardSearchInv, SearchTyped
<1> QED BY <1>1, <1>2

LEMMA CardSearchInvStep == SearchApart /\ CardSearchInv /\ [SearchNext]_searchVars => CardSearchInv'
<1> SUFFICES ASSUME SearchApart, CardSearchInv, [SearchNext]_searchVars PROVE CardSearchInv'
  OBVIOUS
<1>1. CASE UNCHANGED searchVars
  <2>1. UNCHANGED <<entries, pattern, index, status, cardSearch>>
    BY <1>1 DEF searchVars
  <2> QED BY <2>1 DEF CardSearchInv, DirectoriesInv, SearchTyped, PlaceInv
<1>2. CASE dev_bu_nextFile
  BY <1>2, CardNextFileKeeps
<1>3. CASE \E t \in 0 .. 1 : setDeviceStatus(t)
  <2>1. PICK t \in 0 .. 1 : setDeviceStatus(t)
    BY <1>3
  <2>2. DirectoriesInv'
    BY <2>1 DEF setDeviceStatus, CardSearchInv, DirectoriesInv
  <2> QED BY <2>1, <2>2, Over DEF setDeviceStatus, Goes, CardSearchInv, SearchTyped
<1>4. ASSUME NEW port \in 1 .. 2,
             \/ dev_bu_firstFileFails(port)
             \/ \E f \in CardPatterns : dev_bu_firstFile(port, f)
             \/ \E name \in NamesThere : open(port, name) \/ openFirst(port, name)
                                         \/ create(port, name)
      PROVE  CardSearchInv'
  BY <1>4, CardFirstFileKeeps, CardOpenKeeps, OthersKeep
<1> QED BY <1>1, <1>2, <1>3, <1>4 DEF SearchNext

LEMMA CardSearchInvMeans == CardSearchInv => SearchesHold
<1> SUFFICES ASSUME CardSearchInv PROVE SearchesHold
  OBVIOUS
<1> DEFINE s == cardSearch
           e == entries[s.port]
           w == Wanted(status)
<1>1. SearchTypeOK
  <2>1. entries \in Seq([CardBlock -> (AllocState \cup {"a1"}) \X Seq(Character)])
    <3> DEFINE D == [CardBlock -> (AllocState \cup {"a1"}) \X Seq(Character)]
    <3>1. entries \in [1 .. 2 -> D]
      BY DEF CardSearchInv, DirectoriesInv, CardDirectory, Kind, Name
    <3> HIDE DEF D
    <3>2. entries \in Seq(D)
      BY <3>1, 2 \in Nat, SeqDef
    <3> QED BY <3>2 DEF D
  <2> QED BY <2>1 DEF CardSearchInv, SearchTyped, SearchTypeOK
<1>2. ASSUME s.at # "none"
      PROVE  /\ QuestionsEnd(s.filename) => Range(s.listed) \subseteq Listable
             /\ \A i \in 1 .. Len(s.listed) - 1 : s.listed[i] < s.listed[i + 1]
             /\ s.at = "over" =>
                  {b \in Listable : Len(e[b][2]) < Width} \subseteq Range(s.listed)
  <2>1. s \in CardSearches /\ s.filename \in CardPatterns /\ entries \in [1 .. 2 -> CardDirectory]
    BY <1>2 DEF CardSearchInv, SearchTyped, PlaceInv, DirectoriesInv
  <2>2. s.at \in {"going", "over"} /\ s.port \in 1 .. 2 /\ s.listed \in Seq(CardBlock)
    BY <1>2, <2>1 DEF CardSearches
  <2>3. s.filename \in CardPattern /\ Len(s.filename) =< Width /\ e \in CardDirectory
    BY <2>1, <2>2, PatternsThere
  <2>4. \A b \in CardBlock : e[b][2] \in Name
    BY <2>3 DEF CardDirectory
  <2>5. PICK i : /\ ListedTo(e, w, s.filename, s.listed, i)
                 /\ s.at = "over" => i = BlockCount - 1
    BY <1>2, <2>2 DEF CardSearchInv, PlaceInv
  <2>6. ASSUME QuestionsEnd(s.filename), NEW b \in Range(s.listed) PROVE b \in Listable
    <3>1. PICK k \in 1 .. Len(s.listed) : s.listed[k] = b
      BY <2>2 DEF Range
    <3>2. b \in CardBlock
      BY <2>2, <3>1
    <3>3. PICK behind \in Behind : Hit(e, w, Kept(s.filename), behind, b)
      BY <2>5, <3>1 DEF ListedTo
    <3>4. Named(e[b][2], s.filename)
      BY <2>3, <2>4, <2>6, <3>2, <3>3, MatchesNamed DEF Hit
    <3> QED BY <3>2, <3>3, <3>4 DEF Listable, Hit
  <2>7. ASSUME s.at = "over", NEW b \in Listable, Len(e[b][2]) < Width PROVE b \in Range(s.listed)
    <3>1. b \in CardBlock /\ e[b][1] = w /\ e[b][2] # <<>> /\ Named(e[b][2], s.filename)
      BY DEF Listable
    <3>2. \A behind \in Behind : Hit(e, w, Kept(s.filename), behind, b)
      BY <2>3, <2>4, <2>7, <3>1, NamedMatches DEF Hit
    <3>3. b =< BlockCount - 1
      BY <3>1, PatternsThere DEF CardBlock
    <3> QED BY <2>5, <2>7, <3>1, <3>2, <3>3 DEF ListedTo
  <2>8. \A k \in 1 .. Len(s.listed) - 1 : s.listed[k] < s.listed[k + 1]
    BY <2>5 DEF ListedTo
  <2> QED BY <2>6, <2>7, <2>8
<1>3. SearchListsFiles
  BY <1>2 DEF SearchListsFiles
<1> QED BY <1>1, <1>3 DEF SearchesHold

(* Searches in the directories of memory cards list what is there, while   *)
(* the program opens at most the file that was listed last (card/device.c).*)
THEOREM SearchesListFiles == SearchApart => (SearchSpec => []SearchesHold)
<1> SUFFICES ASSUME SearchApart PROVE SearchSpec => []SearchesHold
  OBVIOUS
<1>1. CardSearchInv /\ [SearchNext]_searchVars => CardSearchInv'
  BY CardSearchInvStep
<1>2. SearchSpec => []CardSearchInv
  BY <1>1, CardSearchInvInit, PTL DEF SearchSpec
<1> QED BY <1>2, CardSearchInvMeans, PTL

(* The directory of a memory card survives what fails, and searches in it   *)
(* list its files.                                                          *)
THEOREM CardsAreKept == SearchApart => (UnitSpec /\ SearchSpec => []CardsKeepFiles)
<1> SUFFICES ASSUME SearchApart PROVE UnitSpec /\ SearchSpec => []CardsKeepFiles
  OBVIOUS
<1>1. UnitSpec => []DirectoriesKept
  BY DirectoriesAreKept
<1>2. SearchSpec => []SearchesHold
  BY SearchesListFiles
<1>3. DirectoriesKept /\ SearchesHold => CardsKeepFiles
  BY DEF CardsKeepFiles
<1> QED BY <1>1, <1>2, <1>3, PTL

=============================================================================
