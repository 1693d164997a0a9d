-------------------------------- MODULE Shell --------------------------------
(***************************************************************************)
(* The shell that runs before a disc boots (shell/cdrom.c, shell/main.c):  *)
(* a state machine that asks the drive, step by step, whether its disc has *)
(* a program, polled once a frame and many times between two frames, and   *)
(* the frame loop that shows how it stands, waits, and leaves to boot.     *)
(*                                                                         *)
(* The drive is external: a command is owed the interrupts the shell       *)
(* expects for it, or an error.  CPU and drive interleave freely, except   *)
(* that the DMA of a sector, which holds the CPU, ends before the drive    *)
(* has completed a command.  Discs come and go at any time.                *)
(***************************************************************************)
EXTENDS Naturals, Sequences

CONSTANTS
  FPS,          \* s_FPS: frames in a second
  ONE,          \* the fixed point 1 of a fade
  DiscKinds,    \* what may lie in the drive: "none", "audio", "data" (no
                \* ISO volume), "iso" (one without a program), "game"
  MaxFaults     \* bound: errors of the drive beside those of GETTN and GETID
                \* with a disc that is no game's

(* 50 or 60 frames, and a 1 of 1 << 24: a fade of one second moves in every *)
(* frame.                                                                  *)
ASSUME ShellAssumption ==
  /\ FPS \in Nat \ {0} /\ ONE \in Nat /\ FPS <= ONE
  /\ DiscKinds \subseteq {"none", "audio", "data", "iso", "game"}
  /\ MaxFaults \in Nat

VARIABLES
  state,         \* s_state
  wait,          \* s_wait
  retries,       \* s_retries
  sector,        \* s_sector: <<disc, place>> it was read from, and whether
                 \* (history) that disc has been in the drive since
  buffer,        \* the same of the sector the drive holds for the DMA
  dma,           \* the DMA of a sector is not over
  cause,         \* the interrupt the drive shows, 0 for none
  owed,          \* the interrupts it has still to show
  place,         \* where the drive reads: the last SETLOC
  disc,          \* the disc in the drive
  faults,        \* errors left
  dropped,       \* history: an error met a command that is not sent again
  counter,       \* s_frameCounter, counted to FPS + 1
  scheduleBoot,  \* s_scheduleBoot
  bootFrames,    \* s_bootFrames
  wasError,      \* wasError: the shell shows that there is no good disc
  wasSuccess,    \* wasSuccess
  lerp,          \* the fade of the background: s_lerps[0] and s_bg
  left           \* the shell has left its loop to boot the disc

cd == <<state, wait, retries>>
drive == <<owed, faults>>
sectors == <<sector, buffer>>
screen == <<counter, scheduleBoot, bootFrames, wasError, wasSuccess, lerp, left>>
shellVars == <<cd, sectors, dma, cause, place, disc, drive, dropped, screen>>

States ==
  {"ERROR", "RESET", "INIT", "GETTN", "GETID", "SETMODE", "SETLOC_TO_PVD",
   "READ_PVD", "READ_PVD_DMA", "READ_PVD_PAUSE", "SETLOC_TO_ROOT", "READ_ROOT",
   "READ_ROOT_DMA", "READ_ROOT_PAUSE", "SUCCESS_DATA"}

Empty == <<"none", "none", FALSE>>

ShellInit ==
  /\ state = "RESET" /\ wait = 0 /\ retries = 0
  /\ sector = Empty /\ buffer = Empty /\ dma = FALSE
  /\ cause = 0 /\ owed = <<3, 2>> /\ place = "none"
  /\ disc \in DiscKinds /\ faults = MaxFaults
  /\ dropped = FALSE
  /\ counter = 0 /\ scheduleBoot = FALSE /\ bootFrames = 0
  /\ wasError = FALSE /\ wasSuccess = FALSE /\ left = FALSE
  /\ lerp = [bg |-> "black", to |-> "idle", p |-> 0, speed |-> (4 * ONE) \div FPS]

-----------------------------------------------------------------------------
(* The drive.  An INT5 ends a command; without a disc it answers GETTN and *)
(* GETID so, and GETID for a disc that is no game's.                       *)
Answers(c) ==
  CASE c = "INIT"  -> {<<3, 2>>}
    [] c = "GETTN" -> IF disc = "none" THEN {<<5>>} ELSE {<<3>>}
    [] c = "GETID" -> IF disc \in {"none", "audio"} THEN {<<3, 5>>} ELSE {<<3, 2>>}
    [] c \in {"SETMODE", "SETLOC"} -> {<<3>>}
    [] c = "READN" -> {<<3, 1>>}
Errors == IF faults = 0 THEN {} ELSE {<<5>>, <<3, 5>>}
Command(c) ==
  \/ owed' \in Answers(c) /\ UNCHANGED faults
  \/ owed' \in Errors /\ faults' = faults - 1

(* One more sector may come before the pause is acknowledged, or refused.  *)
Pause ==
  \/ owed' \in {owed \o <<3, 2>>, owed \o <<1, 3, 2>>} /\ UNCHANGED faults
  \/ faults > 0 /\ owed' = owed \o <<5>> /\ faults' = faults - 1

(* A sector is ready: the one at the place asked for; one that follows it  *)
(* is never transferred.  The place of the root directory is that of the   *)
(* disc whose volume was read; on another disc anything may lie there.     *)
Ready ==
  {<<disc, place, TRUE>>}
    \cup {<<disc, "other", TRUE>> : p \in {place} \cap (IF sector[3] THEN {} ELSE {"root"})}

DriveAnswers ==
  /\ cause = 0 /\ owed # <<>>
  /\ Head(owed) = 2 => ~dma
  /\ cause' = Head(owed) /\ owed' = Tail(owed)
  /\ IF Head(owed) = 1 /\ state \in {"READ_PVD", "READ_ROOT"}
     THEN buffer' \in Ready ELSE UNCHANGED buffer
  /\ UNCHANGED <<cd, sector, dma, place, disc, faults, dropped, screen>>

DmaEnds ==
  /\ dma /\ dma' = FALSE /\ sector' = buffer /\ buffer' = Empty
  /\ UNCHANGED <<cd, cause, place, disc, drive, dropped, screen>>

(* The disc is taken out, or another put in.  A command that is going on   *)
(* is answered all the same, or ends with an error.                        *)
Replace(d) ==
  /\ d # disc /\ disc' = d
  /\ sector' = <<sector[1], sector[2], FALSE>> /\ buffer' = <<buffer[1], buffer[2], FALSE>>
  /\ \/ UNCHANGED drive
     \/ owed # <<>> /\ faults > 0 /\ owed' = <<5>> /\ faults' = faults - 1
  /\ UNCHANGED <<cd, dma, cause, place, dropped, screen>>

-----------------------------------------------------------------------------
(* What the two sectors show: "CD001" at the start of the volume, and one  *)
(* of the two names in the root directory.                                 *)
AnyRootBoots(s) == s[2] = "root"   \* mutant: the directory is taken as it comes
IsVolume(s) == s[1] \in {"iso", "game"} /\ s[2] = "pvd"
FoundBoot(s) == s[1] = "game" /\ s[2] = "root"

initCD == state' = "RESET" /\ cause' = 0 /\ Command("INIT")

(* Mutant of discError: the wait is not begun.                             *)
NoWait(s) ==
  /\ retries' = retries + 1
  /\ state' = IF retries = 20 THEN "RESET" ELSE s
  /\ UNCHANGED <<wait, dma, place, drive, dropped>>

dataReady(s) ==
  /\ IF s \in {"READ_PVD", "READ_ROOT"}
     THEN /\ dma' = TRUE /\ Pause
          /\ state' = IF s = "READ_PVD" THEN "READ_PVD_DMA" ELSE "READ_ROOT_DMA"
     ELSE state' = s /\ UNCHANGED <<dma, drive>>
  /\ UNCHANGED <<wait, retries, place, dropped>>

complete(s) ==
  /\ CASE s = "RESET" -> state' = "INIT" /\ retries' = 0 /\ Command("INIT")
                         /\ UNCHANGED <<wait, place>>
       [] s = "INIT"  -> state' = "GETTN" /\ retries' = 0 /\ Command("GETTN")
                         /\ UNCHANGED <<wait, place>>
       [] s = "GETID" -> state' = "SETMODE" /\ Command("SETMODE")
                         /\ UNCHANGED <<wait, retries, place>>
       [] s = "READ_PVD_PAUSE" /\ IsVolume(sector) ->
            /\ state' = "SETLOC_TO_ROOT" /\ place' = "root" /\ Command("SETLOC")
            /\ UNCHANGED <<wait, retries>>
       [] s = "READ_ROOT_PAUSE" /\ FoundBoot(sector) ->
            state' = "SUCCESS_DATA" /\ UNCHANGED <<wait, retries, place, drive>>
       [] s \in {"READ_PVD_PAUSE", "READ_ROOT_PAUSE"} /\ ~IsVolume(sector) /\ ~FoundBoot(sector) ->
            state' = "RESET" /\ wait' = 1 /\ UNCHANGED <<retries, place, drive>>
       [] OTHER -> state' = s /\ UNCHANGED <<wait, retries, place, drive>>
  /\ UNCHANGED <<dma, dropped>>

acknowledge(s) ==
  /\ CASE s = "GETTN" -> state' = "GETID" /\ Command("GETID") /\ UNCHANGED place
       [] s = "SETMODE" -> state' = "SETLOC_TO_PVD" /\ Command("SETLOC") /\ place' = "pvd"
       [] s = "SETLOC_TO_PVD" -> state' = "READ_PVD" /\ Command("READN") /\ UNCHANGED place
       [] s = "SETLOC_TO_ROOT" -> state' = "READ_ROOT" /\ Command("READN") /\ UNCHANGED place
       [] OTHER -> state' = s /\ UNCHANGED <<place, drive>>
  /\ UNCHANGED <<wait, retries, dma, dropped>>

(* The states whose command is sent again after a wait.                    *)
Retried == {"RESET", "INIT", "GETTN", "GETID"}

discError(s) ==
  /\ retries' = retries + 1
  /\ state' = IF retries = 20 THEN "RESET" ELSE s
  /\ wait' = 1
  /\ dropped' = (dropped \/ state' \notin Retried)
  /\ UNCHANGED <<dma, place, drive>>

(* After an error the shell lets a second of frames go by; of the states   *)
(* it can wait in, four send their command again.                          *)
Waiting(s, fps) ==
  /\ wait' = IF fps = 0 THEN wait ELSE IF wait >= fps THEN 0 ELSE wait + 1
  /\ IF wait' > 0 THEN state' = s /\ UNCHANGED <<cause, drive>>
     ELSE CASE s \in {"RESET", "INIT"} -> initCD
            [] s \in {"GETTN", "GETID"} -> state' = s /\ Command(s) /\ UNCHANGED cause
            [] OTHER -> state' = s /\ UNCHANGED <<cause, drive>>
  /\ UNCHANGED <<retries, place, dma, dropped>>

AfterDma ==
  CASE state = "READ_PVD_DMA" /\ ~dma -> "READ_PVD_PAUSE"
    [] state = "READ_ROOT_DMA" /\ ~dma -> "READ_ROOT_PAUSE"
    [] OTHER -> state

checkCD(fps) ==
  /\ \/ state = "SUCCESS_DATA" /\ UNCHANGED <<cd, cause, dma, place, drive, dropped>>
     \/ state # "SUCCESS_DATA" /\ wait > 0 /\ Waiting(AfterDma, fps)
     \/ /\ state # "SUCCESS_DATA" /\ wait = 0 /\ cause' = 0
        /\ \/ cause = 0 /\ state' = AfterDma
              /\ UNCHANGED <<wait, retries, dma, place, drive, dropped>>
           \/ cause = 1 /\ dataReady(AfterDma)
           \/ cause = 2 /\ complete(AfterDma)
           \/ cause = 3 /\ acknowledge(AfterDma)
           \/ cause = 5 /\ discError(AfterDma)
  /\ UNCHANGED <<sectors, disc>>

-----------------------------------------------------------------------------
(* The fade of the background: it begins where the colour stands.          *)
startLerp(l, to, speed) == [l EXCEPT !.to = to, !.p = 0, !.speed = speed]
applyLerps(l) ==
  CASE l.speed = 0 -> l
    [] l.speed > 0 /\ l.p >= ONE -> [l EXCEPT !.bg = l.to, !.speed = 0]
    [] l.speed > 0 /\ l.p < ONE ->
         [l EXCEPT !.bg = IF l.p = 0 THEN @ ELSE "between",
                   !.p = IF @ + l.speed > ONE THEN ONE ELSE @ + l.speed]

QuarterSecond == (4 * ONE) \div FPS
OneSecond == QuarterSecond \div 4

Booting == scheduleBoot /\ counter > FPS

(* The frames after the disc was found good: green, then white after one   *)
(* second, black after two, gone after four.                               *)
BootFade ==
  CASE Booting /\ bootFrames = 0 -> startLerp(lerp, "success", QuarterSecond)
    [] Booting /\ bootFrames = FPS -> startLerp(lerp, "white", OneSecond)
    [] Booting /\ bootFrames = 2 * FPS -> startLerp(lerp, "black", OneSecond)
    [] OTHER -> lerp

isCDError == state' = "ERROR" \/ retries' >= 10
isCDSuccess == state' = "SUCCESS_DATA"

(* One round of the loop of main, up to waitVSync.                         *)
Frame ==
  /\ ~left /\ ~(Booting /\ bootFrames = 4 * FPS)
  /\ bootFrames' = IF Booting THEN bootFrames + 1 ELSE bootFrames
  /\ counter' = IF counter > FPS THEN counter ELSE counter + 1
  /\ checkCD(FPS)
  /\ LET faded == applyLerps(BootFade) IN
     CASE isCDError /\ ~wasError ->
            /\ wasError' = TRUE /\ lerp' = startLerp(faded, "error", QuarterSecond)
            /\ UNCHANGED <<wasSuccess, scheduleBoot>>
       [] ~(isCDError /\ ~wasError) /\ isCDSuccess /\ ~wasSuccess ->
            /\ wasSuccess' = TRUE /\ scheduleBoot' = TRUE /\ lerp' = faded
            /\ UNCHANGED wasError
       [] ~isCDError /\ ~(isCDSuccess /\ ~wasSuccess) /\ wasError ->
            /\ wasError' = FALSE /\ lerp' = startLerp(faded, "idle", QuarterSecond)
            /\ UNCHANGED <<wasSuccess, scheduleBoot>>
       [] OTHER -> lerp' = faded /\ UNCHANGED <<wasError, wasSuccess, scheduleBoot>>
  /\ UNCHANGED left

Leave ==
  /\ ~left /\ Booting /\ bootFrames = 4 * FPS
  /\ left' = TRUE /\ bootFrames' = bootFrames + 1
  /\ UNCHANGED <<cd, sectors, dma, cause, place, disc, drive, dropped,
                 counter, scheduleBoot, wasError, wasSuccess, lerp>>

(* waitVSync polls the drive until the frame is over.                      *)
idle == ~left /\ counter > 0 /\ checkCD(0) /\ UNCHANGED screen

ShellNext ==
  \/ Frame \/ Leave \/ idle
  \/ DriveAnswers \/ DmaEnds
  \/ \E d \in DiscKinds : Replace(d)

(* The loop runs on, and the drive answers what it was asked.              *)
ShellSpec ==
  /\ ShellInit /\ [][ShellNext]_shellVars
  /\ WF_shellVars(Frame) /\ WF_shellVars(Leave)
  /\ WF_shellVars(DriveAnswers) /\ WF_shellVars(DmaEnds)

-----------------------------------------------------------------------------
ShellTypeOK ==
  /\ state \in States \ {"ERROR"} /\ wait \in 0 .. FPS
  /\ retries \in 0 .. 21 + MaxFaults /\ cause \in {0, 1, 2, 3, 5}
  /\ Len(owed) <= 4
  /\ disc \in DiscKinds /\ faults \in 0 .. MaxFaults
  /\ counter \in 0 .. FPS + 1 /\ bootFrames \in 0 .. 4 * FPS + 1
  /\ lerp.p \in 0 .. ONE

(* "Data is acceptable, booting now": a program was found in the root of a *)
(* disc's directory, read in this attempt and not left by another one, and *)
(* that disc is the one in the drive unless it was exchanged since then:   *)
(* the shell never looks at the lid.                                       *)
OnlyGamesBoot ==
  scheduleBoot => /\ sector[1] = "game" /\ sector[2] = "root"
                  /\ sector[3] => disc = "game"

(* The disc boots from a screen that has come to black: the last fade is   *)
(* done before the shell leaves, and no other fade has started meanwhile.  *)
BlackAtBoot == left => lerp.bg = "black" /\ lerp.speed = 0

(* Both, with the type.                                                    *)
ShellBootsGames == ShellTypeOK /\ OnlyGamesBoot /\ BlackAtBoot

(* A good disc that stays in the drive is booted, whatever lay there and   *)
(* went wrong before: "error during %s, trying again" (shell/cdrom.c).  So *)
(* it is unless an error met one of the commands that are not tried again. *)
DiscBoots == disc = "game" ~> (left \/ dropped \/ disc # "game")

(* "Invalid disc inserted, or no disc" (shell/main.c) is shown as long as  *)
(* there is no disc or one of music, before a boot is under way.           *)
NoDiscIsShown ==
  disc \in {"none", "audio"} ~>
    (wasError \/ disc \notin {"none", "audio"} \/ scheduleBoot \/ dropped)
=============================================================================
