------------------------------- MODULE FileIO -------------------------------
(***************************************************************************)
(* The table of open files and the table of devices of OpenBIOS            *)
(* (nugget/openbios/fileio/stdio.c, filesystem.c, misc.c): who owns a      *)
(* descriptor, which device it leads to, and the one File that directory   *)
(* searches share with whoever opens a file next.  The drivers answer as   *)
(* they like; psxerrno and the bytes that move are left out.               *)
(***************************************************************************)
EXTENDS Integers, FiniteSets, Sequences, FiniteSetsExt

CONSTANTS
  Files,          \* 16: s_files
  Slots,          \* 10: s_devices
  Drivers,        \* the devices a program uses besides the console
  Ids,            \* the numbers after a device's name
  Modes,          \* the modes a program opens with
  SearchesApart   \* no file is opened or formatted between firstFile and the
                  \* last nextFile, and no search begins over an open file

ASSUME FileIOAssumption ==
  /\ Files \in Nat /\ Files >= 2 /\ Slots \in Nat \ {0} /\ Slots > Cardinality(Drivers)
  /\ "tty" \notin Drivers /\ "none" \notin Drivers
  /\ Modes \subseteq SUBSET {"read", "write", "nblock"}
  /\ \A mode \in Modes : mode \cap {"read", "write"} # {}   \* none is 0, nor NBLOCK alone
  /\ SearchesApart \in BOOLEAN

Fd == 0 .. Files - 1
Slot == 1 .. Slots
NULL == "none"
NoFile == -1

VARIABLES
  files,        \* flags, the slot the device pointer leads to, deviceId
  devices,      \* the name in each slot
  g_firstFile,  \* the File of directory searches
  aborted,      \* findEmptyFile has found none, and ioabort does not return
  held,         \* history: the device each descriptor was handed out for
  search        \* history: the device of the search under way

vars == <<files, devices, g_firstFile, aborted, held, search>>

-----------------------------------------------------------------------------
Empty(fs) == {fd \in Fd : fs[fd].flags = {}}

findEmptyFile(fs) == IF Empty(fs) = {} THEN NoFile ELSE Min(Empty(fs))

findDevice(ds, name) == LET found == {s \in Slot : ds[s] = name}
                        IN  IF found = {} THEN 0 ELSE Min(found)

removeDevice(ds, name) ==
  IF findDevice(ds, name) = 0 THEN ds ELSE [ds EXCEPT ![findDevice(ds, name)] = NULL]

addDevice(ds, name) ==
  IF findDevice(ds, NULL) = 0 THEN ds ELSE [ds EXCEPT ![findDevice(ds, NULL)] = name]

Leads(fs, fd, slot, id) ==   \* file->device and file->deviceId
  [fs EXCEPT ![fd] = [@ EXCEPT !.slot = slot, !.id = id]]

Opened(fs, fd, slot, id, mode) == [Leads(fs, fd, slot, id) EXCEPT ![fd].flags = mode]

KeptOpen(fs, fd) == fs   \* mutant: a close that fails leaves the file open

Freed(fs, fd) == [fs EXCEPT ![fd].flags = {}]

(* psxclose(0) and (1), then the console for both if the first gets 0. *)
ReopenWriteFirst(fs, ds) ==   \* mutant: 1 is not closed
  Opened(Freed(fs, 0), 0, findDevice(ds, "tty"), 0, {"read"})

reopenStdio(fs, ds) ==
  LET closed == Freed(Freed(fs, 0), 1)
      tty == findDevice(ds, "tty")
      input == Opened(closed, findEmptyFile(closed), tty, 0, {"read"})
  IN  IF tty = 0 THEN closed
      ELSE IF findEmptyFile(closed) = 0
           THEN Opened(input, findEmptyFile(input), tty, 0, {"write"}) ELSE input

Reinstalled(ds) == addDevice(removeDevice(ds, "tty"), "tty")

-----------------------------------------------------------------------------
Console == <<"tty", 0>>
Nobody == <<NULL, 0>>
ConsoleOnly == [fd \in Fd |-> IF fd < 2 THEN Console ELSE Nobody]

(* setupFileIO: the console, then the drive, the cards and what else there  *)
(* is, in some order.                                                      *)
AddedOnce(ds) == \A r, s \in Slot : ds[r] = ds[s] /\ ds[r] # NULL => r = s

Init ==
  /\ devices \in [Slot -> Drivers \cup {"tty", NULL}]
  /\ devices[1] = "tty" /\ AddedOnce(devices)
  /\ Drivers = {devices[s] : s \in 2 .. Cardinality(Drivers) + 1}
  /\ \A s \in Slot : s > Cardinality(Drivers) + 1 => devices[s] = NULL
  /\ files = reopenStdio([fd \in Fd |-> [flags |-> {}, slot |-> 1, id |-> 0]], devices)
  /\ g_firstFile = NoFile
  /\ aborted = FALSE
  /\ held = ConsoleOnly
  /\ search = Nobody

ioAbort ==
  /\ aborted' = TRUE
  /\ UNCHANGED <<files, devices, g_firstFile, held, search>>

psxopen(name, id, mode) ==
  LET fd == findEmptyFile(files)
      slot == findDevice(devices, name)
  IN  /\ SearchesApart => search = Nobody
      /\ IF fd = NoFile THEN ioAbort
         ELSE \E ok \in BOOLEAN :   \* device->open
                /\ ok => slot # 0
                /\ files' = IF slot = 0 THEN files
                            ELSE Opened(files, fd, slot, id, IF ok THEN mode ELSE {})
                /\ held' = IF ok THEN [held EXCEPT ![fd] = <<name, id>>] ELSE held
                /\ UNCHANGED <<devices, g_firstFile, aborted, search>>

(* psxread, psxwrite, psxlseek and the device's ioctl change no table; of   *)
(* all the calls on a descriptor only these two do.  A file is free even    *)
(* when the device's close fails.                                           *)
psxclose(fd) ==
  /\ files[fd].flags # {}
  /\ files' = Freed(files, fd)
  /\ held' = [held EXCEPT ![fd] = Nobody]
  /\ UNCHANGED <<devices, g_firstFile, aborted, search>>

NonBlocking(flags, arg) ==
  IF arg = 0 THEN flags \ {"nblock"} ELSE flags \cup {"nblock"}

psxioctl(fd, arg) ==   \* PSXFIOCNBLOCK
  /\ files[fd].flags # {}
  /\ files' = [files EXCEPT ![fd].flags = NonBlocking(@, arg)]
  /\ UNCHANGED <<devices, g_firstFile, aborted, held, search>>

(* A search takes the first empty File once and for all, and leaves it     *)
(* empty.                                                                  *)
SearchFile == IF g_firstFile = NoFile THEN findEmptyFile(files) ELSE g_firstFile

firstFile(name, id) ==
  LET fd == SearchFile
      slot == findDevice(devices, name)
  IN  /\ SearchesApart /\ fd # NoFile => files[fd].flags = {}
      /\ IF fd = NoFile THEN ioAbort
         ELSE /\ g_firstFile' = fd
              /\ files' = IF slot = 0 THEN Freed(files, fd)
                          ELSE Leads(files, fd, slot, id)
              /\ search' = IF slot = 0 THEN Nobody ELSE <<name, id>>
              /\ UNCHANGED <<devices, aborted, held>>

(* nextFile, at last without an answer: the caller is through.  Before, it *)
(* changes nothing here.                                                   *)
nextFile ==
  /\ search # Nobody
  /\ search' = Nobody
  /\ UNCHANGED <<files, devices, g_firstFile, aborted, held>>

format(name, id) ==
  LET fd == findEmptyFile(files)
      slot == findDevice(devices, name)
  IN  /\ SearchesApart => search = Nobody
      /\ IF fd = NoFile THEN ioAbort
         ELSE /\ files' = Freed(IF slot = 0 THEN files ELSE Leads(files, fd, slot, id), fd)
              /\ UNCHANGED <<devices, g_firstFile, aborted, held, search>>

(* A program adds a driver it has not added, and removes one only when     *)
(* nothing is open on it.                                                  *)
Add(name) ==
  /\ findDevice(devices, name) = 0
  /\ devices' = addDevice(devices, name)
  /\ UNCHANGED <<files, g_firstFile, aborted, held, search>>

Withdraw(name) ==
  /\ search[1] # name /\ \A fd \in Fd : held[fd][1] # name
  /\ devices' = removeDevice(devices, name)
  /\ UNCHANGED <<files, g_firstFile, aborted, held, search>>

(* installStdIo, which a program calls to turn the console on or off.  It   *)
(* is the dummy or the real one; the third value, neither, is left out.     *)
installStdIo(fs) ==
  /\ devices' = Reinstalled(devices)
  /\ files' = reopenStdio(fs, devices')

Install ==
  /\ SearchesApart => search = Nobody
  /\ \A fd \in Fd : fd > 1 => held[fd] # Console
  /\ installStdIo(files)
  /\ held' = [held EXCEPT ![0] = Console, ![1] = Console]
  /\ UNCHANGED <<g_firstFile, aborted, search>>

AllFreed == [fd \in Fd |-> [files[fd] EXCEPT !.flags = {}]]

psxexit ==
  /\ installStdIo(AllFreed)
  /\ held' = ConsoleOnly
  /\ search' = Nobody
  /\ UNCHANGED <<g_firstFile, aborted>>

Next ==
  /\ ~aborted
  /\ \/ \E name \in Drivers, id \in Ids, mode \in Modes : psxopen(name, id, mode)
     \/ \E fd \in Fd : psxclose(fd)
     \/ \E fd \in Fd, arg \in 0 .. 1 : psxioctl(fd, arg)
     \/ \E name \in Drivers, id \in Ids : firstFile(name, id) \/ format(name, id)
     \/ nextFile
     \/ \E name \in Drivers : Add(name) \/ Withdraw(name)
     \/ Install \/ psxexit

Spec == Init /\ [][Next]_vars

-----------------------------------------------------------------------------

(* What the tables hold; a file that is open is open for something. *)
TypeOK ==
  /\ \A fd \in Fd : files[fd].flags # {} => files[fd].flags \cap {"read", "write"} # {}
  /\ files \in [Fd -> [flags : SUBSET {"read", "write", "nblock"}, slot : Slot, id : Ids \cup {0}]]
  /\ devices \in [Slot -> Drivers \cup {"tty", NULL}]
  /\ g_firstFile \in Fd \cup {NoFile}

Now(fd) == <<devices[files[fd].slot], files[fd].id>>

(* A descriptor leads to the device and the number it was opened with until *)
(* it is closed, whatever is opened, searched, formatted, added or removed  *)
(* meanwhile (stdio.c:70-106, filesystem.c:34-56, misc.c:178-192).          *)
HeldFilesStay ==
  \A fd \in Fd : held[fd] # Nobody => files[fd].flags # {} /\ Now(fd) = held[fd]

(* No descriptor is in use that nobody has: opens and closes that fail, and *)
(* formats, give theirs back (stdio.c:90, 100, 208, filesystem.c:70, 77).    *)
NoFileLost == \A fd \in Fd : files[fd].flags # {} => held[fd] # Nobody

(* A directory is searched to its end on the device the search began with  *)
(* (filesystem.c:58-60).                                                   *)
SearchStays == search # Nobody => Now(g_firstFile) = search

(* Descriptors 0 and 1 are the console after a program has gone, whatever   *)
(* it did with them and the device table (misc.c:166-170, stdio.c:40-47).   *)
ConsoleAfterExit ==
  [][psxexit => \A fd \in 0 .. 1 : files'[fd].flags # {} /\ devices'[files'[fd].slot] = "tty"]_vars

(* Every descriptor in use is somebody's and leads where it was opened to,  *)
(* and the search that shares the table stays where it began (stdio.c,      *)
(* filesystem.c and misc.c together).                                       *)
DescriptorsLead == TypeOK /\ HeldFilesStay /\ NoFileLost /\ SearchStays

=============================================================================
