# Verification of the Crippled Edition engine and its kernel

TLA+ modules for *Katawa Shoujo: Crippled Edition*, a visual novel for the
PlayStation, and for the system code its repository carries under `nugget`:

- the **engine**, the C code at the root (`main.c`, `scene.c`, `actor.c`, `effects.c`,
  `font.c`, `image.c`, `file.c`, `renderer.c`, `timer.c`), about 1000 lines;
- **OpenBIOS** (`nugget/openbios`), the kernel a console runs below the engine:
  heap, events, threads, exceptions, files, the drivers of disc, memory cards and
  pads, the boot, and the patches for the games' own kernel code;
- the **shell** (`nugget/shell`), the program OpenBIOS starts until a disc boots;
- the **module player** (`nugget/modplayer`), the music library of the shell.

`PROJECT.json` maps every definition to the lines it stands for and lists the
hazards of the code with the properties that watch them. Modules are checked with
TLC (`tlc -config MCScene.cfg MCScene.tla`) and proved about with TLAPS
(`tlapm SceneProofs.tla`).

## The system

### The engine

One thread runs an endless loop (`main.c:28`): update the scene, build the
ordering table, hand it to the GPU, wait for it and for the vertical blank, clear
the tables. Two devices work beside the thread: the CD drive, which fills a
buffer after `CdRead` has returned, and the GPU, which empties a buffer after
`LoadImage` has returned and walks the ordering table after `DrawOTag` has.
Nothing else in the engine is concurrent; it installs no interrupt handlers of
its own.

| Component | State it keeps | Operations | Talks to | What makes it correct |
|---|---|---|---|---|
| File access (`file.c`) | the `File` of a caller | `File_Open`, `File_Read` | CD drive | only found files are read; the buffer outlives the read and holds whole sectors |
| Image loading (`image.c`) | `vramStack` (two ends of one range of columns), `clutStack`, the caller's `Image` | `Image_Load`, `VRAM_Alloc` | file access, heap, GPU | an image never overwrites another, the frame buffer or the debug font; a failed load takes nothing; no buffer is used after it is freed |
| Image drawing (`image.c`) | loop variables | `Renderer_DrawImage` | texture table | the slices are on one texture page each, show the right texels, cover the image once |
| Text drawing (`font.c`) | the caller's `stringCounter` | `Font_Load`, `Renderer_DrawText` | texture table, image loading | glyphs on screen, in reading order, from the right texels; a typed text never moves and is finished |
| Texture table and frame (`renderer.c`) | `spriteTableIndex`, `textureTable`, `orderingTable` | `TextureTable_Fetch/_Refresh`, `Renderer_Init/_Refresh` | GPU | the GPU paints what was built, nothing is written under it, every frame is finished |
| Continue icon and timer (`scene.c`, `timer.c`) | `continueAlpha`; static increment and timer | part of `Renderer_DrawScene`, `Timer_Start/_Update` | text drawing | the icon blinks smoothly and for ever, whatever the last scene left |
| Scene (`scene.c`) | the `Scene` struct, a heap block for the effect | `Scene_Init/_AddActor/_Update/_Destroy`, `Renderer_DrawScene` | all of the above | what is drawn was loaded for this scene; the effect's block is owned, initialised and freed |
| Actors (`actor.c`) | image and pose | `Actor_Init`, `Renderer_DrawActor` | image loading, image drawing | as the scene |
| Snow (`effects.c`, `fixed.h`) | positions and velocities in 20.12 fixed point | `SnowSystem_Init/_Update`, `Renderer_DrawSnow` | renderer's `syncReciprocal` | right speed in NTSC and PAL, smooth, never stops |

What is hard: the two devices (ordering, buffer lifetime); five ways for a load to
fail, after each of which the scene may go on; state that outlives a scene
(allocator, static variables, the struct itself, the texture table's old
contents); the arithmetic of pages, words, pixels and fixed point at its borders;
and the 256 entries of the texture table running out anywhere in a frame.

### OpenBIOS, the shell and the module player

The kernel is called by programs (tables A0, B0, C0 and the system calls) and by
exceptions. An exception saves the registers in the current thread's block, walks
four chains of handlers, by priority, and loads the registers of the then current
thread. The handlers deliver events, drive the disc's state machine and exchange
bytes with the pads and the memory cards. A program sees their work as events it
tests or waits for, as buffers, and as files.

| Component | State it keeps | Operations | Talks to | What makes it correct |
|---|---|---|---|---|
| Heap (`kernel/alloc.c`) | list of blocks, end of the used part | malloc, free, realloc, `initheap` | programs | memory is given once; NULL means full |
| Events (`kernel/events.c`) | table of event slots | open, close, enable, disable, test, wait, deliver, undeliver | interrupts, callbacks | a delivery between two accesses of a call is neither lost nor answered twice; no callback unasked |
| Threads (`kernel/threads.c`, `handlers/syscall.c`, `kernel/vectors.s`) | thread blocks, the current one | open, close, change, critical sections, save and load around an exception | exceptions | threads share no block and no register |
| Exceptions (`kernel/vectors.s`, `handlers/irq.c`, `sio0/driver.c`) | handler chains, acknowledge flags | hang in, take out, walk; start and stop of pads and cards | interrupts, events | no handler is lost; every exception ends; the pads are read |
| Files and devices (`fileio`) | table of files, table of devices | open, close, add and remove a device, searches, ioctl, install the console | drivers | a descriptor leads to the file its holder opened; the console comes back after a program |
| CD file system (`cdrom/filesystem.c`) | path table, directory cache | open, read, firstFile, nextFile, chdir | CD driver | what is read is of the file that was opened, on the disc it was opened on |
| CD driver (`cdrom/statemachine.c`, `helpers.c`, `cdrom.c`, `events.c`) | state of the machine, counters | initialise, seek, read, status, mode; handlers of the drive's and the DMA's interrupts | drive, events | a read is whole and stays in its buffer; a call never waits for an answer nobody owes |
| Card driver (`sio0/driver.c`, `card.c`, `cardfasttrack.s`) | flags, operation, status of two ports | read, write, info, start, stop; one byte per interrupt | card, events | each request is answered once; chains of sectors go on and end |
| Card directory (`card/backupunit.c`, `device.c`) | directory of two cards, pattern and place of a search | read the directory, open, create, format, search | card driver | a saved file is neither lost nor shared, whenever power or a card goes |
| Card files (`card/device.c`) | offset of an open file | read, write, both synchronous and not | card driver | the sectors of a file, at the place they have on the card, and the offset counts what moved |
| Pads (`sio0/driver.c`, `sio0/pad.c`) | two buffers, the program's word | poll of a port, abort, `readPadHighLevel` | pads, vertical blank | a whole reply is told from an aborted one; nothing is pressed that nobody presses |
| Boot (`main/main.c`, `kernel/psxexe.c`) | configuration, the code of the step | parse `SYSTEM.CNF`, set the kernel up, load and run | CD file system, heap | a disc boots as it says, and without its files by default |
| Patches (`patches`) | the games' code | recognise and rewrite the code that reaches into the retail kernel | exceptions, pads, cards | no rewritten code touches the kernel or loses its way; what games keep are functions that exist |
| Shell (`shell/cdrom.c`, `main.c`) | state of the drive, fades, the error's screen | one state per answer of the drive; the frame | drive, boot | a game boots, nothing else does, an absent one is told |
| Module player (`modplayer`) | position in the song, channels, volumes | `MOD_Poll`, `MOD_Load`, `MOD_Relocate`, volume, effects | SPU | rows last as long as they should and play their note, at the song's volume |

What is hard here: interrupts between any two accesses of a call; handlers that
change the chain they are called from; time-outs and retries of three devices that
answer late, twice or never; discs and cards exchanged at any time; directories
written sector by sector; tables cached over all of that; hand-counted branches in
other programs' code; and counters and periods whose limits nothing holds.


## Modules

| Module | Models | Proofs |
|---|---|---|
| `ImageStore` | what `Image_Load` promises: one atomic step that succeeds, finds the pool full, or fails without effect | |
| `ImageLoad` | `Image_Load` step by step with `File_Open`, `File_Read`, `VRAM_Alloc`, malloc, free, the drive and the GPU; implements `ImageStore` | `ImageLoadProofs` |
| `Scene` | the life of scenes, each load one step of `ImageStore` | `SceneProofs` |
| `DrawImage` | one call of `Renderer_DrawImage` | `PictureProofs` |
| `DrawText` | `Renderer_DrawText` called frame after frame | `PictureProofs` |
| `Frame` | texture table, ordering table, `Renderer_Refresh`, the GPU's walk | `PictureProofs` |
| `Blink` | what the continue icon promises: a cycle of brightening, pause, dimming | |
| `ContinueBlink` | typewriter, alpha, static increment and timer; implements `Blink` | `LoopProofs` |
| `Snow` | one coordinate of one flake | `PictureProofs` |
| `HeapStore` | what an allocator promises: blocks that are nobody else's, or NULL | |
| `Alloc` | malloc, free and realloc over the list of blocks; implements `HeapStore` | `KernelProofs` |
| `Events` | the table of events, one access at a time, and deliveries at any point | `EventsProofs` |
| `Threads` | thread blocks, exceptions and system calls, one instruction at a time | `ProgramProofs` |
| `Exceptions` | the four chains, their walk, and the drivers that hang themselves in | `EventsProofs` |
| `ExceptionSlots` | the first words of the exception handler, the card driver's slot and what games write over both | `EventsProofs` |
| `FileIO` | the tables of files and devices | `FileIOProofs` |
| `CdFiles` | path table, directory cache, files and searches on discs that are changed | `FileIOProofs` |
| `CdRom` | the CD driver's state machine, its calls, the drive and the DMA | `KernelProofs` |
| `CardDriver` | the transactions of two ports and the chains and calls over them | `KernelProofs` |
| `BackupUnit` | directory of a card: on the card, in memory, and every way they part | `FileIOProofs` |
| `CardSectors` | where on a card the sectors of a file are read and written | `FileIOProofs` |
| `CardSearch` | searches by pattern in the directories of both ports, between opens | `FileIOProofs` |
| `Pads` | the poll of both ports and the word of the program | `ProgramProofs` |
| `SystemCnf`, `Boot` | the parser of `SYSTEM.CNF`, and the boot around it | `ProgramProofs` |
| `Patches` | `patch_hook` and the games' code it rewrites, by instruction | `EventsProofs` |
| `Shell` | the shell's state machine, its frame, the drive and the discs | `LoopProofs` |
| `ModSong` | where in a song the player is | `LoopProofs` |
| `ModVoice` | what rows and ticks do to pitch and volume | `LoopProofs` |
| `ModLoad` | where a module lies in memory | `LoopProofs` |
| `*Proofs` | theorems about the modules they extend | |
| `MC*` | constants for TLC, and which parts a run moves | |

Definitions have the names of the C code where they stand for a function, a
variable or a macro. A `pc` variable says where a C function is when its steps
can be interleaved with a device, an interrupt or a failure; a function without
such steps is one action. Handlers run with interrupts off and are one action,
unless the other side is a device. In every module a definition marked `mutant`
stands beside the one it spoils; it is not part of the specification and is there
to show that a property notices the mistake.

### The engine

**Files and images.** `ImageLoad` has one action per call inside `Image_Load` that
can fail or must wait; `DriveDone` and `GpuDone` are the devices. `File_Open`
answers the inverted status of the code and `OpenFile` the inverted test.
`malloc` may fail when the heap is too small, or once an earlier load has kept a
block (the heap may then be fragmented). `Place` is the placement and what follows
it up to the first copy. VRAM is the set of regions with the slot whose data they
hold; a copy removes what it overlaps. A palette row past the last row of VRAM
is taken modulo its height. After a read error the header may be uninitialised,
`PlaceUndefined`, and the model says nothing more (`pc = "undefined"`).

**Scene.** `ImageLoadProofs!LoadImplementsStore` is why `Scene` may use one step per
load. Its actions are the statements of `Scene_Init` with every `return`, and the
caller is that of `main.c`: no frames after a failed `Scene_Init`, `Scene_Destroy`
after a scene that came up. `main.c` shows one scene; the model uses the same
struct again, the use `scene.h` is made for. `Frame` is `Scene_Update` and the order
of `Renderer_DrawScene`. Scenes with more than `MAX_ACTORS` actors write past the
array and are excluded, as is everything after `free` of a pointer malloc did
not give (`pc = "undefined"`).

**Drawing.** `DrawImage` has one action per turn of the inner and outer loop, for each
of the three colour depths. `DrawText` has one action per character of the loop; the
layout is that of a 4-bit font as `font.h` places it, and texts have only characters
with a glyph. `Frame` abstracts both to the entries they take from the texture
table: the text takes them unchecked and writes to address 0 (`NULL`) when there is
none, an image stops. The GPU follows the links one primitive at a time, so a
primitive linked to itself is walked for ever, and `DrawSync` waits for ever.

**Continue icon.** One action, `Renderer_DrawScene`, is a frame: typewriter, clamp,
draw, step, turn, timer. `Scene_Init` may come at any frame and resets the
scene's variables but not the static ones.

**Snow.** All flakes and both axes follow the same rule independently, so the module
has one coordinate with an arbitrary axis, start and velocity.

### The kernel

**Heap.** A unit is eight bytes, a header two units; `heap` is the list as it lies in
memory. `malloc` goes before the first block, into the first gap that is large enough,
or to the end; `free` takes a block off the list and, if it was the last, moves the
end back; `realloc` shrinks, grows in place or moves. `asked` is the abstract heap, what
each address was given for: a history variable, and all of `HeapStore`'s state.

**Events and threads.** A step of a program is one access to the table; a delivery is
one step because handlers are not interrupted. A callback may disable its own
event. Callbacks that open or close events are left out: `openEvent` finds a free
slot and marks it later, so one that opens an event between the two is given the
same slot (the same as for `openThread`, `threads.c:78`, which `Threads` does have
and whose precondition is a critical section). `Threads` gives each task a register
that only it writes, and takes an exception at any instruction outside a critical
section; the current thread may change inside.

**Exceptions.** The walk is one step per handler; a handler may take itself or
others out of the chain it is in. The drivers' starts and stops are there with every
write to a chain; what they exchange with their devices is in `Pads`, `CardDriver`
and `CdRom`. `ExceptionSlots` is below that, at the level of words: it runs the
handler's first words over what matters of the registers, with the load delay of
the processor, in every state of them that games and `initCard` can leave. The
games' C0 patches are let through by `patch_hook`, so they are real writes; each
is taken from the listing in its file.

**Files.** `FileIO` takes every answer of a driver; what drivers do is in the modules
of their file systems. `CdFiles` has one action per call, with each block that is
read free to fail, and discs exchanged and put back between calls. A name that is not
found does not end an open or a search: the code reads on behind the end of the path, in
a buffer that keeps what longer paths left there, and so may `BehindThePath` end at
nothing, at an entry of the directory or of one below it (`Below`), or outside the program
(`lost`). Files and searches carry history: `fresh`, opened with the path table of the disc
then in the drive; `clean`, every block of the call was read and the name is there, or no
directory lies below. `BackupUnit` has one action
per sector written, so power may go and cards be pulled in between. `CardSectors`
moves sector by sector and compares with where the sector is on the card.
`CardSearch` keeps `s_findFilePattern` character by character, since the properties
are about its end; the byte behind the array is whatever another variable puts
there.

**Drivers.** `CardDriver` has the byte exchange as one interrupt per byte that the
driver tells apart, the time-out at the next vertical blank, and the chains
`backupunit.c` builds from completed sectors. `CdRom` has the drive as the
interrupts it still owes for the commands it was given, the DMA as one action, and
calls that wait, retry and reset. `Pads` has one action per byte.

**Boot.** In `SystemCnf` a text is a sequence of tokens: an item's name is one, every other
character is one. The code's loops over the text are the places where they stop
(`Starts`, `Beyond`, `UpTo`), a number is kept modulo `WordSize`, and `Text` is a file as its
author wrote it, line by line, beside what each line means (`MeantCnf`). `Boot` sets the
kernel up before and after the file, and an abort of any call ends under the code of the
last `SETJMPFATAL`.

**Patches.** The games' code is a sequence of the instructions that matter: captures of
a pointer, writes to the kernel, branches, the end of a critical section. `WordsRun`
follows them from the return of the call `patch_hook` is called from.

**Shell and music.** `Shell` is `checkCD` as one action per call, between the drive's
interrupts, and the frame of `main.c`. Discs are exchanged at any moment, a command that is
going on is then answered or fails, and a sector is read off whichever disc is there; the
sector in memory remembers its disc and whether that has stayed in the drive. INT4 is left
out since the drive has no reason to send it for these commands. `ModSong` is `MOD_Poll` with everything that
moves the position; `ModVoice` is the rest of a row and a tick, with real periods
and the table of sines, and the program's calls in steps, so that a poll from the timer's
interrupt, which `modplayer.h` recommends, may come amid them; `ModLoad` the pointers into a module that is moved.

## Runs

The components share no variables but through the few values their modules say, so
most runs check several of them at once: an `MC` module EXTENDS one or several modules,
INSTANCEs the others, and has a variable `part`, set in the initial state, that says
which one moves. The others stay in an initial state. An invariant of a
component is required in the behaviours in which it moves. The reachable states of
a component are those it has alone, and since at most one part is ever enabled,
weak fairness of the union of the parts' actions is the fairness each module
states alone. A property of such a run stands for these of the component (with
its `TypeOK`):

| Run | Property | Stands for |
|---|---|---|
| `image_load` | `LoadsAreContained` | `DevicesOwnLiveBuffer`, `OnlyFoundFilesAreRead`, `FailedLoadTakesNothing` |
| | `ImagesAreKept` | `LoadedImagesIntact`, `RendererRegionsUntouched`, `OnlyFailedLoadsLeak` |
| | `ImplementsImageStore`, `LoadsReturn` | themselves |
| `scene` | `ScenesAreWhole` | `OkaySceneHasItsImages`, `EffectOwned`, `OnlyFailedInitsLeak` |
| | `DrawnAsAsked` | itself |
| `picture` | `ImageIsDrawn` | `SlicesStayOnPage`, `SlicesShowTheirPart`, `SlicesDisjoint`, `DrawnMeansWhole` |
| | `TextIsRead` | `GlyphsBeginOnScreen`, `ReadingOrder`, `GlyphsNeverMove`, `GlyphsShowTheirCharacter` |
| | `FrameIsPainted` | `PictureAsBuilt` |
| | `SnowFalls` | `FallsSmoothly`, `DriftsAtItsVelocity` |
| | `PictureGoesOn` | `CallReturns`, `TextIsWritten`, `TablesStableWhileDrawn`, `FrameCompletes`, `SnowsForever` |
| `loops` | `ImplementsBlink` | itself |
| | `ScenesBlinkOn` | `NoFlicker`, `BlinksForever` |
| | `ShellBootsGames` | `OnlyGamesBoot`, `BlackAtBoot` |
| | `ShellAnswers` | `DiscBoots`, `NoDiscIsShown` |
| | `SongKeepsTime` | `RowsKeepTime` |
| | `SongIsFollowed` | `PositionAskedFor`, `SongGoesOn` |
| `interrupts` | `EventsDelivered` | `SlotsAccounted`, `NoDeliveryLost`, `CallsAreAsked` |
| | `WaitReturns` | itself |
| | `ChainsAreKept` | `NothingLost` |
| | `ExceptionsEnd` | `ProgramRuns`, `PadsAreRead` |
| | `AnswersAreOwn` | `DmaStaysInBuffer`, `EventsMeanIdle`, `AckMeansAllIn` |
| | `ReadsEndWhole` | `ReadIsWhole`, `CallReturns` |
| | `PatchesAreReplaced` | `KernelUntouched`, `VariablesHoldFunctions`, `PatchedSitesReturn`, `SectionIsLeft`; `ExceptionsSurvive`, `SlotsAreApart` |
| `kernel` | `ThreadsApart` | `OneThreadPerBlock`, `LeftAlone`, `RunsItself` |
| | `HeapIsAccounted` | `BlocksApart`, `BlocksAreHeld`, `NullMeansFull` |
| | `ImplementsHeapStore` | `Alloc` implements `HeapStore` |
| | `DiscBoots` | `RunsAsConfigured`, `StartsWithoutFiles`, `CodeTellsStep` |
| | `PadsAreShown` | `FitsBuffer`, `ZeroMeansWhole`, `FreshWord`, `PressedMeansPressed` |
| `files` | `DescriptorsLead` | `HeldFilesStay`, `NoFileLost`, `SearchStays` |
| | `ConsoleAfterExit` | itself |
| | `DiscFilesAreFound` | `DataIsTheFiles`, `OpenFindsItsFile`, `SearchInOrder`, `SearchListsAll` |
| | `DiscIsChecked` | itself |
| | `CardsKeepFiles` | `SavedFilesStay`, `SavedFilesFound`, `NoSharedBlocks`, `NamesUnique`; `SearchListsFiles` |
| | `SectorsInPlace` | `InPlace`, `CountedIsMoved` |
| `card_driver` | `RequestsAreAnswered` | `AnsweredOnce`, `ChainsGoOn`, `TriggeredOnce`, `BytesInOrder`, `InterruptOnlyInTransaction`, `WaitTellsOwn` |
| | `RequestsEnd` | `ChainsEnd`, `WaitReturns` |
| `music` | `NotesArePlayed` | `RatesArePlayable`, `RowsPlayTheirNote` |
| | `MusicKeepsItsVolume` | `LevelsArePlayable`, `MusicVolumeHolds` |
| | `PlayerFindsModule` | itself |

The runs `half_second`, `plain_scene` and `realloc_overlap` are the findings below.

### Bounds

- `image_load`: the game's five files, positions and heap with four loads, and a store of
  3 columns, 3 palette rows and 3 sectors of heap with five. In the game's layout each
  pair of positions meets in each order within four loads, and each failure comes
  before and after each load; what depends on running out is in the small store, where
  pool, rows and heap all end within five calls.
- `scene`: the game's files, any of whose loads may fail, 4 kinds of scene, 2 actors, 3 scenes, so that what one leaves (a
  struct field, a block, a static) meets a second scene and is cleaned up, or not,
  before a third.
- `picture`: images around every page border in each depth, on a table with 1, 3 and all
  entries left; all texts of up to 6 characters over a narrow glyph, a wide one, space
  and newline on a screen of 10 pixels, which fills a line exactly, by one pixel too many
  and by a space; a table of 6 entries that overflows in the text, between text and
  images, and inside an image; the real screen, sprite and velocities of the snow.
- `loops`: one scene with texts of 0, 1 and 47 characters in NTSC, and three scenes in
  PAL, each left at any frame; a shell of 3 frames a second whose fades (1 is 13) are no
  whole number of frames, no disc, one of music and a game, exchanged at any moment, and one
  error of the drive at any command, beside those that a disc causes (the proof has any
  discs, a `data` one and an `iso` one without a program too, and any number of errors); all songs of 2 patterns of 3 rows and 2 channels with two
  filled cells, and six songs whose position the program moves at any tick.
- `interrupts`: two event slots and two causes; all chains with the drivers' handlers and a
  user's at priority 1; reads of up to three sectors with two retries, which is where
  the first, a middle and the last sector differ; the ten B0 patches but one and all C0
  patches, in any order.
- `kernel`: 4 tasks on 3 blocks; a heap of 14 units and blocks of 0 to 7, in which holes of
  every size between two blocks occur; `SYSTEM.CNF` of up to three lines of nine kinds,
  with each line ending, a word of 8 bits and an argument cut after 2 characters, so that
  numbers and arguments too long for them occur; on one port
  two kinds of pad and a mouse, on the other a multitap.
- `files`: 3 descriptors and 3 places for devices; two discs that share names in different
  places, one with a directory the other lacks, exchanged and put back at any time, under a
  program that holds a file and reads it with searches that succeed in between, or under one
  that searches, with every pattern and failure, and opens files in its searches only (the
  proof has both at once); one card or two of 3 blocks each, so
  that a file can have a first, a middle and a last block; blocks of 3 sectors with one
  replaced; searches over names as long as the array
  and shorter, in four directories with deleted files and files in different places.
- `card_driver`: both ports; chains of no and of two sectors, a directory of two sectors with
  one broken, on each port with every reply, silence and time-out at every byte.
- `music`: three notes in two tunings with real periods, every sequence of rows and ticks over
  the pitch commands and, with the loudest volume beside the default one and polls anywhere
  between and amid the calls, over the volume commands; a module in eight cells.

Every run fires every action of its modules. The proofs (below) remove the bounds where
they exist.

### Preconditions

Some properties hold only for programs or devices that keep to something, and a
constant or a condition in the property says so.

Engine:

- `LoadedImagesIntact` and `RendererRegionsUntouched` hold while `clutStack` has not
  passed `VramH`. The game never gives a palette row back, so the 33rd indexed load
  puts its palette past the last row of VRAM.
- `FrameCompletes` is claimed for frames with at most one glyph more than there are
  entries; with two, the primitive at address 0 is linked to itself.
- `ReadingOrder` is claimed for frames in which no space passes the right edge;
  such a space returns to the start of its own line (`font.c:60`) and the text after
  it is drawn over the text before.
- `DrawnAsAsked` is claimed, whichever loads fail, of every struct but those whose own load
  failed in this scene (`stale`): the statuses of bar, icon and actors are dropped, and what
  the scene before left in their structs is drawn. Nothing is asked of `NVLBar`, which has
  no image. It leaves out the icon unless the bar is `CharBar`; see the finding below.
- `EffectOwned` is claimed for scenes with an effect. Without one `effectProperties`
  is never set and `Scene_Destroy` frees what was there.

Kernel, shell and player:

- `Alloc`: until a `realloc` has crossed the next header (finding `realloc_overlap`).
- `Threads`: threads are opened in a critical section (`OpensInCritical`), closed once and
  not by themselves.
- `Exceptions`: the user's handler is not at priority 2; `initCard` only while its handler
  is not in the chain (a second time links it to itself); neither pads nor cards are
  stopped while the other is needed; the drive's handlers are put in and taken out in
  turns. Automatic acknowledges are left to the kernel.
- `ExceptionSlots`: the fast track lies so that both halves of its address can be added
  without a carry; games patch in critical sections and not inside one another;
  `__globals` is at 0x100 as `psx-bios.ld` puts it. The words that `initgun_1` and the
  two `patch_card` write are not in their listings: they are taken as a call and as
  five words of the game's.
- `FileIO`: `SearchesApart`, that is, a program ends a search before it opens or formats a
  file and begins none over an open one; a file is opened for reading or writing; a
  device is removed when nothing is open on it.
- `CdFiles`: none of programs, players and drives. `OpenFindsItsFile` is claimed of files that
  are `clean`, `SearchInOrder` and `SearchListsAll` of searches that are (`Certain`) and during
  which no file was opened and no directory changed (`alone`), up to where they look behind
  their pattern. `DataIsTheFiles` says of a file that is not `fresh` only when it passes for
  one of the disc in the drive: that disc has been taken out and put back.
- `CardDriver`: `OnePortAtATime`, synchronous calls on one port at a time.
- `CardSectors`: `OnlySafe`, transfers that do not end with a block whose successor lies
  elsewhere (`device.c:208`).
- `CardSearch`: `SearchApart`, a program that searches opens only what was listed last; names
  as long as the 20 characters of the pattern are claimed not to be listed wrongly, but
  not to be listed. That only what the pattern names is listed is claimed for patterns in
  which no character follows a `?` (`QuestionsEnd`): a name may end at a `?`, and
  `patternMatch` does not look at the rest of the pattern then, so that `a` is listed for
  `a?b`.
- `CdRom`: the delay of `initCDRom` outlasts the drive's start; the CPU stands still during
  a DMA; a command replaces the one before or waits behind it; the lid's unasked
  interrupt does not come while the driver is idle; `SeekIsAtomic`.
- `Pads`: a device is exchanged only after a poll has found none; `readPadHighLevel` is
  interrupted at most once, and not before the first vertical blank.
- `Boot`: a file is at most a sector and ends its lines in one way (`AsWritten`); every item
  has a value, which for a number goes to the end of its line, and no other line begins with
  an item's name; the buffer is zero behind the text, paths are short, and the kernel's
  tables fit its heap.
- `Patches`: without `patch_card2_1`; `g_patch_permissive` as it is, 0.
- `Shell`: the liveness in `ShellAnswers` is claimed until an error meets a command that is not
  tried again (`dropped`); that the disc in the drive is the game found, unless it was
  exchanged since its root directory was read; the DMA ends before the pause.
- `ModSong`: at most one loop in a pattern, no row with both a jump and a break, one kind of
  move asked for at a time (`AsksForBoth`).
- `ModVoice`: the first row of a channel plays a note, glides have a note to go to, no fine
  slides (E1, E2) and tuning of waves (E7); the last note of the table is left out; effects
  play on voices of their own; periods and arpeggios stay in the table (`KeepsToTable`).
  Polls come anywhere; a volume that a poll sets amid a call of the program's is marked
  (`amid`), and `MusicVolumeHolds` is claimed of every other, and of the voice again from its
  next volume on.
- `ModLoad`: a module is moved upwards (`Upwards`).

## Fairness

Liveness is stated under weak fairness only.

- Engine: one thread that never blocks but in `CdReadSync`, `DrawSync` and `VSync`, so its
  next step is taken whenever it can be (`WF(Step)`, `WF(Cpu)`, `WF(Next)`, the update of
  the snow). The drive finishes what `CdRead` told it to do, with data or an error
  (`WF(DriveDone)`), and the GPU its copy or its list (`WF(GpuDone)`, `WF(Walk)`); `VSync`
  comes. In `ContinueBlink` fairness is on a frame, not on the end of a scene.
  `LoadReturns` counts uninitialised memory after a read error as an end.
- `Events`: the program's next access, and each cause, which comes again and again: that is
  what `waitEvent` waits for.
- `Exceptions`: a pending interrupt is taken and its walk goes on, since a walk is straight
  code; `initPad` ends, since it waits for no device.
- `CdRom`: the caller's loop goes on, and the drive sends the interrupts it owes, an error
  counting as one.
- `CardDriver`: the vertical blank comes and the loop of a waiting call goes on; a card's
  answer need not come.
- `Shell`: a frame is drawn, a fade ends, the drive answers, the DMA ends. Changing a disc
  is not fair.
- `ModSong`: polls come.

## Findings

- `half_second`, `HalfSecondPause`: `scene.c:134` says the icon pauses "for half a second";
  the timer runs for `tickPerSecond >> 2`, a quarter.
- `plain_scene`, `ContinueIconDrawn`: `scene.c:112` says "Draw the continue icon if the text
  is done writing."; with `NormalBar` `Scene_Init` never loads the icon (it is loaded in
  the case of `CharBar` only, `scene.c:33`) and the frame draws it all the same, from an
  `Image` nobody filled in.
- `realloc_overlap`, `GrowsIntoFreeMemory`: `realloc` (`alloc.c:317`) compares the room behind
  a block with the wrong end of the next header and lets the block grow over it.

Faults of the engine met on the way and bounded by properties: the block of the effect
leaks when its image cannot be loaded (`scene.c:49`), buffers leak when a load fails after
malloc (`image.c:53`, `image.c:64`), the answer of `CdReadSync` is dropped (`file.c:15`), the
text never checks its table entries (`font.c:82`).

Disagreements in the kernel, the shell and the player. Those with a constant can be seen
by giving it the other value, those with a condition by taking it out of the property:

| Where | What | Constant or condition, property |
|---|---|---|
| `cdrom/filesystem.c:225` | a name that is not found ends only the loop over the entries; the outer one reads on behind the end of the path (leftovers of longer ones in a static buffer, then what lies behind it), may enter directories by it, answer a file that was not asked for, or run over `localName` | the cases that `clean` leaves out of `OpenFindsItsFile` |
| `cdrom/filesystem.c:218` | `readDirectory` fails with -1 and its caller asks for 0: a directory that could not be read is searched | the same |
| `cdrom/filesystem.c:91` | names are copied into the path table without their end, so a shorter one ends in one of the disc before | the same (`mixed`) |
| `cdrom/filesystem.c:337` | after an exchange of discs `nextFile` puts the old hash back over the new path table | what `DataIsTheFiles` says of files that are not `fresh` |
| `fileio/filesystem.c:40` | the `File` of a search looks free; the next open takes it and the search goes on in it | `SearchesApart`, `SearchStays` |
| `card/device.c:66` | every open moves the place of a search, on either port | `SearchApart`, `SearchListsFiles` |
| `card/device.c:474` | a pattern with `*`, or of 20 characters, ends one byte behind its array; the search with no name allows 19 characters. A file with a name of 20 characters, as most are, may not be found | the names left out of `SearchListsFiles` |
| `card/device.c:208` | the last sector of a block counts as the next block's | `OnlySafe`, `InPlace` |
| `patches/patch_card2_1.c:89` | the branch is one word too long: the game's store behind the table of B0 runs | add the site, `KernelUntouched` |
| `patches/patches.c:36` | `g_patch_permissive` is 0, `patches.h:40` says 1: an unknown patch stops the machine | `Permissive` |
| `kernel/threads.c:78` | a block is found and marked later; interrupts are on | `OpensInCritical`, `OneThreadPerBlock` |
| `shell/cdrom.c:331` | errors of SETMODE, SETLOC and READN are not tried again | what `dropped` leaves out of `DiscBoots` |
| `shell/cdrom.c:187` | a data disc whose file system is no good is tried for ever and never shown as an error | |
| `modplayer.c:574` | order and row asked for together land one order late (`modplayer.h:52-53`) | `AsksForBoth`, `PositionAskedFor` |
| `modplayer.c:778` | setting `MOD_Tick` to `MOD_Speed` is not immediate while a row is delayed (`modplayer.h:54-55`) | |
| `modplayer.c:812` | a poll from the timer's interrupt during a sound effect plays its row at the effect's volume | what `amid` leaves out of `MusicVolumeHolds` |
| `modplayer.c:820` | `MOD_SetMusicVolume` silences channels: the macro it uses shifts its argument in place | |
| `modplayer.c:615` | the last note of the table is never found | |
| `modplayer.c:304` | a module moved downwards keeps the pointer to the end of the copy (`modplayer.h:112`) | `Upwards`, `PlayerFindsModule` |

Read and not modelled: the console's `write` puts one character too many (`tty.c:168`);
`wrapper_calloc` in `handlers.c` returns nothing; `psxlsearch` and `psxstrtok` in
`libcmisc.c` never advance and `psxbsearch` halves wrongly.

## Proofs

TLAPS proves the following from the specification of each module, for every value of the
constants that satisfies its named assumptions.

| Theorem | Says |
|---|---|
| `ImageLoadProofs!TypeCorrect` | types, and that the two ends of the pool never cross |
| `ImageLoadProofs!BufferOwned`, `FoundBeforeRead`, `FailureTakesNothing` | `DevicesOwnLiveBuffer`, `OnlyFoundFilesAreRead`, `FailedLoadTakesNothing` |
| `ImageLoadProofs!Contained` | the four together: `LoadsAreContained` |
| `ImageLoadProofs!LoadImplementsStore` | `Image_Load` implements `ImageStore` |
| `ImageLoadProofs!ImagesStayIntact`, `RegionsUntouched`, `OnlyFailuresLeak`, `ImagesKept` | `LoadedImagesIntact`, `RendererRegionsUntouched`, `OnlyFailedLoadsLeak`, and the three together, `ImagesAreKept`, for any layout whose positions lie apart |
| `SceneProofs!TypeCorrect`, `OkayMeansLoaded`, `EffectIsOwned`, `LeaksAreKnown` | the four invariants of `Scene`; `ScenesWhole` together |
| `SceneProofs!FramesAsAsked` | `DrawnAsAsked`, whichever loads fail in this scene and those before |
| `PictureProofs!TypeCorrect`, `Smoothly`, `Drifts` | `Snow`: types, `FallsSmoothly`, `DriftsAtItsVelocity`; `Falls` together |
| `PictureProofs!DrawsTheImage` | `ImageIsDrawn`, for every image at every place of VRAM and of the screen |
| `PictureProofs!ReadsTheText` | `TextIsRead`, for every text of the font's characters and any screen |
| `PictureProofs!PaintsTheFrame`, `TablesAreStable` | `FrameIsPainted` and `TablesStableWhileDrawn`, for any table and any frames |
| `EventsProofs!TypeCorrect`, `SlotsAreAccounted`, `DeliveriesAreSeen`, `CallbacksAreAsked` | the invariants of `Events` for a table of any size and an interrupt at any access; `Delivered` together |
| `EventsProofs!ChainsKept` | `ChainsAreKept`, wherever the program's own handler goes (`ExceptionsAssumption`) |
| `EventsProofs!KnownPatchesReplaced` | `PatchesAreReplaced`, for any codes a game has, called in any order and as often as it likes (`patch_card2_1` not among them) |
| `ProgramProofs!TypeCorrect`, `BlocksAreApart`, `ContextsAreKept`, `RunningIsCurrent` | the invariants of `Threads` for any number of blocks, tasks and instructions, if threads are opened in critical sections; `Apart` together |
| `ProgramProofs!ButtonsAreHeld` | `PadsAreShown`, for any devices on the two ports |
| `ProgramProofs!LoadsAsMeant` | what `loadSystemCnf` reads of any file is what its lines mean |
| `ProgramProofs!DiscsBoot` | `DiscBoots`, for every `SYSTEM.CNF` of any lines in any order, with values of any length (`BootAssumption`), whichever call fails or aborts |
| `FileIOProofs!TypeCorrect`, `HeldFilesAreKept`, `FilesAreNotLost`, `SearchesStay`, `ConsoleIsBack` | the properties of `FileIO` for tables of any size and any drivers, if searches are kept apart (`SearchesApart`); `Lead` together |
| `FileIOProofs!SectorsAreOwn` | `SectorsInPlace`, for files, blocks and replaced sectors of any number and place (`OnlySafe`) |
| `FileIOProofs!DiscFilesFound` | `DiscFilesAreFound`, for any discs, directories and programs, whatever fails, is exchanged and put back |
| `FileIOProofs!DiscChecked` | `DiscIsChecked`, for any discs and whatever fails |
| `FileIOProofs!DirectoriesAreKept`, `SearchesListFiles` | `DirectoriesKept`, for cards of any size and any number of cards and files; `SearchesHold`, for any directories and patterns (`SearchApart`); `CardsAreKept` together: `CardsKeepFiles` |
| `KernelProofs!CardAnswers` | `RequestsAreAnswered`, for directories of any size (`OnePortAtATime`) |
| `KernelProofs!HeapAccounts`, `HeapIsStore` | `HeapIsAccounted`, and that `Alloc` implements `HeapStore`, for any heap |
| `KernelProofs!CdAnswers`, `CdReadsAreWhole` | `AnswersAreOwn` and `ReadIsWhole`, for any number of sectors, retries and turns (`SeekIsAtomic`) |
| `LoopProofs!TypeCorrect`, `NeverFlickers` | types and `NoFlicker`, over any number of scenes |
| `LoopProofs!Blinks` | `MaxScenes = 1` implies `ContinueBlink` implements `Blink` |
| `LoopProofs!BootsGames` | `ShellBootsGames`, for any discs exchanged at any moment, any errors and any frame rate a fade can keep |
| `LoopProofs!RowsOnTime` | `SongKeepsTime`, for any songs and whatever a program asks for |
| `LoopProofs!RowsAsAsked` | `PositionAskedFor`, for any songs (`~AsksForBoth`, `NoJumpWithBreak`) |
| `LoopProofs!NotesPlayed` | `NotesArePlayed`, for any table, samples and rows that keep to it (`KeepsToTable`) |
| `LoopProofs!VolumeKept` | `MusicKeepsItsVolume`, with polls anywhere (`NoTremoloWave`) |
| `LoopProofs!ModulesAreFound` | `PlayerFindsModule`, for modules of any size, moved any number of times (`Upwards`) |

A name in parentheses is a hypothesis of the theorem. `patch_card2_1` is the one of the disagreements above.
`OnePortAtATime`, `SeekIsAtomic`, `SearchesApart`, `SearchApart`, `OnlySafe`, `Upwards`,
and `AsksForBoth` are the constants of the preconditions above; with the other value TLC finds the property broken. `KeepsToTable`
is about the rows of a song: their periods are in the table, their arpeggios do not
lead past its end, and they have no fine slide, whose period nothing in the code holds.
`NoJumpWithBreak` says that no row of a song has both a jump and a break, after which the
player lands one order late.
`NoTremoloWave` excludes E7, whose number of a wave the player takes for the tremolo's depth.
The assumptions on constants are those of the modules: the font's glyphs lie on one
texture page (`FontAssumption`, from `font.h`), a `ONE` is not less than a second's frames
(`ShellAssumption`), the positions callers fix lie apart and outside the pool
(`LayoutAssumption`), a table's first tuning has no note twice (`NotesAssumption`), and so on.

The arguments:

- *Buffer.* `DevicesOwnLiveBuffer` is strengthened with what the drive and the GPU may
  be doing at each place of `Image_Load`: the buffer is as large as the sectors the
  drive was told to read once malloc has succeeded, and no device is at work before
  and after the waits.
- *Store.* The store changes only in `PlaceImage`; everywhere before it is what it was
  when the call began. That gives `FailureTakesNothing` at once. For
  `LoadImplementsStore` the abstract status is already `Okay` from the placement on
  (`Committed`), the point from which no return but the last is possible; every
  other step is a stutter or a failure that leaves the store alone.
- *Images.* The two ends of the pool only approach each other and the palette rows only
  grow, so `RegionsInv` can say which area of VRAM the image of each slot lies in: its
  fixed area or a part of the pool no later load is given. Areas are apart by
  `LayoutAssumption`, and `CopyInv` ties what the GPU has been told to copy to the place of
  `Image_Load`; a copy then removes nothing but its own old data. Once `clutStack` has
  passed the last row this fails, and so the property is claimed only before.
  `HeapInv` counts: heap used is the buffer in hand and the buffers of failed loads.
- *Scene.* The inductive invariant has one clause per place of `Scene_Init`: what is
  loaded so far (`ImagesInv`), whose block the effect is (`BlockInv`) and that all
  other blocks are leaked (`LeakInv`). `Actor_Init` preserves it because actors have
  Image structs of their own (`SlotsAssumption`). `AskedInv` adds what the structs of
  the bar, the icon and the actors hold from their load on, unless it failed (`BarInv`,
  `ActorsInv`); a load that fails leaves every other struct alone. An actor that names a slot
  twice is drawn with the pose loaded last.
- *Drawing.* `LoopsInv` gives the column and the row of pages the loops are at, in texels
  of the image: all columns but the first and the last begin and end on a border of a
  page, in each of the three depths, and `SlicesInv` that the slices so far cover the
  cells of the image in the pages passed, each once. When the loops end, no cell is left.
- *Text.* What a call draws is one layout, a recursive function of the text whose glyphs
  only grow with the characters passed. `TextInv` says that this call and the last are both
  at a place of that layout, so typing one more leaves the glyphs where they were, and
  that the next glyph goes behind the last (`Behind`) while no space has passed the edge.
- *Snow.* The distance since the flake last wrapped is the number of updates times
  `SyncToRefresh(velocity)`; the product is less than one pixel for every velocity
  under 50 and within one pixel a second of it for both reciprocals.
- *Icon.* `NoFlicker` is not inductive: a scene may begin with the timer of the last one
  still running, and the alpha could reach the top with the increment of neither
  scene. `AlphaInv` bounds the alpha and twice the ticks left together by twice the
  pause (at most 30), so the old timer has run out long before the top.
  `ShownInv` relates the alpha to what was last drawn. With one scene the alpha, the
  increment and the timer determine each other, which is the invariant behind
  `Blinks`.
- *Shell.* `DriveInv` bounds the interrupts the drive has still to show in each state of the
  shell's machine; `SectorInv` says of which disc the sectors in the drive's buffer and in
  memory are, that a disc that has stayed is the one in the drive, and that the shell is
  content only with the root directory of a game; no exchange can break this, as what was
  read stays what it was. `RetryInv` says that every retry beyond the twentieth is paid for by
  an error. `ScreenInv` and `FadeInv` count the frames since the boot was decided: the
  last fade takes one second and has two, so the screen is black.
- *Song.* The history `due`, when the next row has to come, always equals what the
  counters of the player still hold (`SongInv`, `PollsLeft`), also when a program has
  asked for a row at once while a delay runs. What the commands of a row leave pending is its
  first jump or break (`RowTakes`), and neither ticks nor delays touch it (`SamePlace`), so
  the place `want` names is where the next row is found (`WantInv`).
- *Pitch and volume.* Every period that a row, a slide, a glide, an arpeggio or a tuning
  leaves is in the range of the table, and a vibrato adds at most 29 to it (`Tuned`), so
  the sample rate is playable; `PlayedInv` and `TuningInv` tie the voice's note to the row
  that asked for it and keep the tunings those of the table. `VolumeInv` keeps a voice at
  the product of its channel's volume and the music's, but for one that `bent` or `amid`
  marks. The music's volume is the one the player has or, while an effect plays, the one it
  put aside (`AsideInv`); only a poll amid such a call can see another.
- *Module.* `LoadInv`: behind `MOD_ModuleData` memory holds what was loaded, cell by cell.
  A copy upwards goes from the end, so what it has still to copy is not yet overwritten,
  though source and target overlap (`Copied`).
- *Frame.* `FrameInv` says of a frame being built which entry each glyph and slice has and
  that the links pass them in the order drawn (`Built`), which needs the index to be exact
  until the table is full; and of a frame being shown that the GPU is at one of them, on
  the right page, and has painted those before it (`Showing`). With two glyphs too many
  the GPU stays among the addresses around NULL (`Lost`), so `DrawSync` never returns and
  no picture is claimed. Nothing is written meanwhile since the GPU walks only during
  `DrawSync`.
- *Heap.* `AllocInv`: the list is in the order of memory, its blocks are those `asked` has,
  and, until a `realloc` has crossed the next header, none reaches into the next.
  `HeapStore`'s state is `asked` itself, so the refinement is what each call returns.
- *Events.* A delivery may fall between any two accesses, so the invariant says for each
  place of a call what the table may hold there: a slot that is being opened is still
  free, then disabled, so no delivery takes it before its handler is written
  (`SlotsInv`); the flags say what the program has enabled (`OnInv`); an answer is given
  only from a pending flag (`CallInv`).
- *Exceptions.* `HungInv` says of each chain that it is a list of at most four handlers, all
  different, the last without a next, and that they are those `hung` has (`Lists`); four is
  enough because each handler has one chain it goes into (`Mine`), so a chain that lacks one
  has room for it (`RoomForOne`). Taking out and putting in are calculated on that list
  (`DeqLinks`, `EnqLinks`) and leave the other chains alone. A handler that takes itself
  out keeps its own next, which is still in the chain: so the walk goes on inside it.
- *Threads.* `LeftAlone` needs that the registers of whoever runs are its own and that, in
  an exception too, the current thread is that of the task it came from
  (`CurrentIsHeld`). `OpeningIsFree`, that the block found by an unfinished `openThread` is
  still free, is what the critical section is for and the only clause that uses
  `OpensInCritical`.
- *Pads.* `PollInv` says how much of its reply a port's buffer has at each byte, `PortsInv`
  what is left in it afterwards, and `CallInv` what `readPadHighLevel` has checked and loaded
  when the blank comes between two of its loads: bytes of two polls, but of one kind of
  device, and each button in them was held in one of the two.
- *Boot.* `LoadsAsMeant`: what is parsed of a text is what its lines mean. The text is the
  lines one behind the other, each at a place of its own (`Lies`), so that every character
  is one of a line or of its end (`Located`). A name stands where names are looked for only
  at the beginning of its line, between the two of CR LF too (`FoundAtLines`), so the first
  one found is the first line's (`FirstFound`); what is read from there on is that line part
  by part (`ReadAs`), and the loops stop where its parts end (`ValueIs`, `FindsWord`,
  `FindsBoot`). A number computed modulo a word at each digit is the whole sum modulo a word
  (`NumberIsSum`). `BootInv` adds what the calls leave: from `kernelSetup` on the configuration
  is what was meant or the default, except after a failed read, whose empty text names no
  program (`LoadsNothing`), so that none is found and none runs.
- *FileIO.* `HeldFilesStay` is inductive only with what the tables hold besides: no driver
  twice and the console always (`DevicesInv`), and that the `File` of a search is empty
  and nobody's (`SearchInv`). The console comes back because closing every file frees
  the first two entries, which the first fit then takes (`ExitReopens`).
- *Sectors.* The look-up of a file's block, a recursive walk along the directory, has a
  closed form. `SectorsInv` says that what was moved are sectors of the file in order;
  a synchronous transfer leaves the offset until its end and an asynchronous one ahead of
  nothing it has not moved (`SyncInv`, `AsyncInv`).
- *Disc files.* A path table that is `fresh` and the hash are of the disc in the drive, and the
  cached directory is that disc's directory of its number or, after a read by the table of
  another, empty (`FsGood`). So a file opened by it, with a certain answer, lies where it was
  asked for on the disc of its hash (`FileGood`). A hash over a table that is not `fresh` is
  one of a disc taken out, so such a file is taken for another's only once that disc is
  back. A search goes on only with its own directory in the cache, having listed what matches
  up to the entry last found (`StillGoing`); a path table read in between empties the cache
  and ends it. `DiscIsChecked` needs none of this: the hash is read in the same call.
- *Patches.* `PatchInv`: a site holds its code as it was loaded or what `patch_hook` left of
  it. Each known patch fits one form (`Shape`): the words that capture an address are
  cleared or jumped over, its variables are given what the code wanted, and the jump lands
  before the end of the critical section and the return. In all but `patch_card2_1` the
  words that write to the kernel are cleared or jumped over too (`KernelLeftOut`). `SlotInv`:
  the first words of the handler are those loaded or a whole replacement, and the slots
  behind them hold what one `initCard` or `initgun_1` wrote from its first word on
  (`CardSlot`, `Begun`).
- *Card directory.* `UnitInv` says of the directory on every card that the chains of its
  files are well formed: no link leads to a kept file of one block, but for that of a file
  that begins in block 0 and was grown by a failed write (`Grown`). A chain may be broken
  or dropped; a file of one block may not, and reading the directory keeps exactly the
  unlinked files of one block (`ReadIs`). The directory in memory agrees with the card on
  them (`KnownInv`). While a file is created its blocks come before all free ones and are
  none of a saved file (`CreateInv`), so the sectors written for it, in any prefix, leave
  the others as they are. `ReadIs` follows the loop of `buInit` entry by entry.
- *Card search.* While it goes on, the pattern is the one kept for it and the place is that of
  the file last listed (`PlaceInv`); an open of that file finds it again, since no two files
  of a directory have one name (`OneEach`). What precedes the place is listed if it
  matches whatever is behind the array (`ListedTo`); a name shorter than the array does
  when the pattern names it (`NamedMatches`).
- *Card driver.* `CardInv` gives for each place of the program what it and the driver have of
  each other. A port without a request has been answered (`PortGood`), a transaction is
  of the request of its port, and callbacks run when their request is off the port, so that
  one that asks again is not taken for an answer twice.
- *CD driver.* `CdInv` lists, per place of the program, the command the machine is in and the
  interrupts the drive still owes for it. `cdromSeekL` writes the state after it has sent
  the command; `SeekIsAtomic` is that no answer comes between the two.

Recursive functions are reasoned about through a closed form, or through their defining
equation on a prefix: that such a function exists is proved by its least
counterexample (`LeastExists`), with the well-foundedness theorems of the library; in
`ProgramProofs` once for all functions defined from one value to the next (`Iterates`).

Only model-checked are all liveness properties, since neither fairness nor `ENABLED` is in
the provers' reach: `LoadsReturn`, `PictureGoesOn`, `ScenesBlinkOn`, `ShellAnswers`,
`SongIsFollowed`, `WaitReturns`, `ExceptionsEnd`, `ReadsEndWhole`, `RequestsEnd` (of which
`NoFlicker`, `PositionAskedFor`, `ReadIsWhole` and `TablesStableWhileDrawn` are proved).
Every invariant and every action property of the runs is proved.

## Not modelled

- Engine: pixels, tints and palettes of sprites; display registers; the debug text
  (`FntPrint`, `FntFlush`), which the GPU draws from tables of its own; `Timer_Clear`, which
  has no caller, and `Scene_RemoveActor`, which is declared and not defined.
  `buildXML.py` writes the disc layout once and keeps no state.
- OpenBIOS: the console and the host's file calls (`tty`, `pio`), start-up of the GPU and
  character sets (`gpu`, `charset`), the C library (`libcmisc.c`, pure functions),
  `generate.c`, which makes the patch tables when openbios is built, and the Unirom
  glue. In modelled components: `cdromReadTOC` and the states of the CD machine nothing
  enters; a drive that does not tell its status (the -1 of `cdromBlockGetStatus` has the
  lid's bit, so `CdFiles`' calls would read the path table again or refuse, as after the
  lid was opened); the retry of broken card sectors beyond one replacement; the settings of the
  root counters and which events the IRQ verifier delivers (`Events` takes any);
  installing the console with its third value; erase, undelete and rename on cards,
  which stop the machine in the code.
- Shell: the cube, its mathematics and drawing, and the sound chip's set-up.
- Player: panning, the start of samples, reset and waits of the sound chip.
- `psyq` is the headers of a vendor's library and `nugget` also carries headers, examples,
  tests and third-party code; the calls the engine makes into the library are
  modelled from their use and marked external. These headers and tests are nearly
  half of the lines of C in the repository and hold no behaviour of their own.

## Plan

1. Done: the engine (images, drawing, frame, icon, scenes, snow, text); of the kernel
heap, events, threads, exceptions, files, drivers, boot and patches; the shell's boot and
the player. Proved: the theorems above. 2. A `Game` composition: `main.c` with start-up,
scene and frame in one behaviour, and the table demand of a scene (text, icon, bar, snow,
actors, background) against `TEXTABLE_SIZE`, so that the precondition of `FrameCompletes`
is derived from the text of the scene. 3. Abstract specifications of the frame (painted
atomically) and of the card's directory (a file is there or not), each with its module
implementing it. 4. `cdromReadTOC` and reset of the drive; the console; the settings of
the root counters.
