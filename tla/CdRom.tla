------------------------------- MODULE CdRom -------------------------------
(***************************************************************************)
(* The CD-ROM driver of the BIOS (nugget/openbios/cdrom/statemachine.c,    *)
(* cdrom.c, events.c, helpers.c).  The program initialises the drive and   *)
(* then reads blocks, asks for the status or sets the mode; each call      *)
(* issues a first command and polls events.  The interrupt handler takes   *)
(* the drive's answers, issues the next command of the chain and delivers  *)
(* the events.                                                             *)
(*                                                                         *)
(* Of the states of the machine only those with an entry point are here;   *)
(* the others are dead code, as statemachine.c:37-47 says, and with them   *)
(* s_preemptedState, which stays IDLE, and s_gotInt3, which nobody reads.  *)
(* READS differs from READN in the command only and is not told apart.     *)
(***************************************************************************)
EXTENDS Integers, Sequences

CONSTANTS
  MaxRetries,     \* turns of the loop of cdromBlockReading, 10 in the code
  MaxTries,       \* the initial cyclesToWait, 99999 and 9 in the code
  ReadCounts,     \* the counts cdromBlockReading is called with
  SeekIsAtomic    \* no answer comes between the last two writes of cdromSeekL

DriverAssumption ==
  /\ MaxRetries \in Nat \ {0} /\ MaxTries \in Nat \ {0}
  /\ ReadCounts \subseteq Nat \ {0}
  /\ SeekIsAtomic \in BOOLEAN

GETSTATUS == "GETSTATUS"
SETMODE == "SETMODE"
SEEKL == "SEEKL"
SEEKL_SETLOC == "SEEKL_SETLOC"
READN == "READN"
READ_SETMODE == "READ_SETMODE"
INITIALIZING == "INITIALIZING"
GOT_ERROR_AND_REINIT == "GOT_ERROR_AND_REINIT"
PAUSING == "PAUSING"
CD_IDLE == "IDLE"
CDRomState == {GETSTATUS, SETMODE, SEEKL, SEEKL_SETLOC, READN, READ_SETMODE,
               INITIALIZING, GOT_ERROR_AND_REINIT, PAUSING, CD_IDLE}

(* The events the driver delivers; 0x200, which nobody opens, is left out. *)
ACK == "ACK"
DNE == "DNE"
END == "END"
ERR == "ERR"
CdEvent == {ACK, DNE, END, ERR}

VARIABLES
  s_currentState, s_sectorCounter, s_dmaCounter, s_gotInt5,
  s_initializationComplete,
  buffer,       \* the sectors the DMA has put into the caller's buffer
  dmaIrq,       \* the DMA is done and its interrupt pending
  pending,      \* the events that are pending
  answers,      \* the drive: the interrupts it will raise, in order
  reading,      \* the drive: it reads, and will raise INT1 for each sector
  head,         \* the drive: the sector under the head, relative to the seek
  cdPc,         \* where the program is
  count,        \* the count cdromBlockReading was called with
  retries, cyclesToWait,
  result        \* what the last call returned

machine == <<s_currentState, s_sectorCounter, s_dmaCounter, s_gotInt5,
             s_initializationComplete>>
dma == <<buffer, dmaIrq>>
drive == <<answers, reading, head>>
program == <<cdPc, count, retries, cyclesToWait, result>>
cdVars == <<machine, dma, pending, drive, program>>

-----------------------------------------------------------------------------
(* The drive.  A command is answered with INT3, and by some commands with   *)
(* INT2 when they are done, or with INT5 instead of either.  After READN    *)
(* INT1 comes for every sector until PAUSE, which may find one on its way.  *)
(* A new command puts an end to the one before, or waits for its answers;   *)
(* the drive keeps no more than one command waiting.                        *)
Answers(c) ==
  CASE c \in {"SETLOC", "SETMODE", "NOP"} -> {<<3>>, <<5>>}
    [] c \in {"SEEKL", "INIT"} -> {<<3, 2>>, <<3, 5>>, <<5>>}
    [] c = "READN" -> {<<3>>, <<5>>}
    [] c = "PAUSE" -> {<<3, 2>>, <<1, 3, 2>>, <<3, 5>>, <<5>>}

Command(c, before) ==
  /\ \E a \in Answers(c) :
       /\ \/ answers' = a
          \/ Len(before) =< 2 /\ answers' = before \o a
       /\ reading' = (c = "READN" /\ a = <<3>>)
  /\ head' = IF c = "SETLOC" THEN 0 ELSE head

(* The interrupt n is raised.  The driver's handler takes it at once, unless *)
(* the program is inside cdromSeekL and the answer comes later than that.   *)
Raise(n) ==
  /\ ~dmaIrq
  /\ cdPc = "seekState" => ~SeekIsAtomic
  /\ \/ answers # <<>> /\ n = Head(answers)
     \/ answers = <<>> /\ reading /\ n \in {1, 4, 5}

(* What is left of the drive's work after it has raised n. *)
Rest == IF answers # <<>> THEN Tail(answers) ELSE <<>>

Raised(n) ==
  IF answers # <<>>
  THEN answers' = Tail(answers) /\ UNCHANGED <<reading, head>>
  ELSE /\ answers' = <<>>
       /\ reading' = (n = 1)
       /\ head' = IF n = 1 THEN head + 1 ELSE head

Quiet == answers = <<>> /\ ~reading

Deliver(e) == pending' = pending \cup {e}
State(s) == s_currentState' = s

-----------------------------------------------------------------------------
(* initiateDMA, with the sector under the head.  The processor stands still *)
(* during the transfer (CHCR 0x11000000); its interrupt comes next.         *)
CdTransfer ==
  /\ buffer' = Append(buffer, head)
  /\ dmaIrq' = TRUE

InitiateDMA ==
  /\ CdTransfer
  /\ s_sectorCounter' = s_sectorCounter - 1
  /\ IF s_sectorCounter' # 0
     THEN Raised(1) /\ UNCHANGED s_currentState
     ELSE Command("PAUSE", Rest) /\ State(PAUSING)

(* INT1. *)
DataReady ==
  /\ Raise(1)
  /\ IF s_currentState = READN
     THEN InitiateDMA
     ELSE Raised(1) /\ UNCHANGED <<s_currentState, s_sectorCounter, dma>>
  /\ UNCHANGED <<s_dmaCounter, s_gotInt5, s_initializationComplete, pending,
                 program>>

(* INT2. *)
Complete ==
  /\ Raise(2)
  /\ Raised(2)
  /\ State(CD_IDLE)
  /\ \/ /\ s_currentState = INITIALIZING
        /\ s_initializationComplete' = 1
        /\ UNCHANGED <<s_gotInt5, pending>>
     \/ /\ s_currentState = GOT_ERROR_AND_REINIT
        /\ s_gotInt5' = FALSE
        /\ Deliver(ERR)
        /\ UNCHANGED s_initializationComplete
     \/ /\ s_currentState = CD_IDLE
        /\ UNCHANGED <<s_gotInt5, s_initializationComplete, pending>>
     \/ /\ s_currentState \notin {INITIALIZING, GOT_ERROR_AND_REINIT, CD_IDLE}
        /\ Deliver(DNE)
        /\ UNCHANGED <<s_gotInt5, s_initializationComplete>>
  /\ UNCHANGED <<s_sectorCounter, s_dmaCounter, dma, program>>

(* INT3: the command is accepted; in a chain the next one is issued. *)
Acknowledge ==
  /\ Raise(3)
  /\ \/ /\ s_currentState \in {SETMODE, GETSTATUS}
        /\ State(CD_IDLE) /\ Deliver(DNE) /\ Raised(3)
     \/ /\ s_currentState = SEEKL_SETLOC
        /\ State(SEEKL) /\ Command("SEEKL", Rest) /\ UNCHANGED pending
     \/ /\ s_currentState = READ_SETMODE
        /\ State(READN) /\ Command("READN", Rest) /\ UNCHANGED pending
     \/ /\ s_currentState \notin {SETMODE, GETSTATUS, SEEKL_SETLOC, READ_SETMODE}
        /\ Raised(3) /\ UNCHANGED <<s_currentState, pending>>
  /\ UNCHANGED <<s_sectorCounter, s_dmaCounter, s_gotInt5,
                 s_initializationComplete, dma, program>>

(* INT4: the disc ends while the drive reads. *)
DiscEnd ==
  /\ Raise(4)
  /\ Raised(4)
  /\ IF s_currentState = READN
     THEN /\ State(CD_IDLE)
          /\ IF s_dmaCounter > 0 THEN Deliver(END) ELSE UNCHANGED pending
     ELSE UNCHANGED <<s_currentState, pending>>
  /\ UNCHANGED <<s_sectorCounter, s_dmaCounter, s_gotInt5,
                 s_initializationComplete, dma, program>>

(* INT5: the first error resets the drive; one in the reset is reported. *)
DiscErrorAgain ==   \* mutant: an error in the reset resets again, unreported
  /\ Raise(5)
  /\ \/ /\ s_currentState = INITIALIZING
        /\ s_initializationComplete' = 2
        /\ Raised(5)
        /\ UNCHANGED <<s_currentState, s_gotInt5, pending>>
     \/ /\ s_currentState # INITIALIZING
        /\ State(GOT_ERROR_AND_REINIT) /\ Command("INIT", Rest)
        /\ UNCHANGED <<s_initializationComplete, s_gotInt5, pending>>
  /\ UNCHANGED <<s_sectorCounter, s_dmaCounter, dma, program>>

DiscError ==
  /\ Raise(5)
  /\ \/ /\ s_currentState = INITIALIZING
        /\ s_initializationComplete' = 2
        /\ Raised(5)
        /\ UNCHANGED <<s_currentState, s_gotInt5, pending>>
     \/ /\ s_currentState # INITIALIZING
        /\ s_gotInt5' = ~s_gotInt5
        /\ IF s_gotInt5
           THEN State(CD_IDLE) /\ Raised(5) /\ Deliver(ERR)
           ELSE /\ State(GOT_ERROR_AND_REINIT) /\ Command("INIT", Rest)
                /\ UNCHANGED pending
        /\ UNCHANGED s_initializationComplete
  /\ UNCHANGED <<s_sectorCounter, s_dmaCounter, dma, program>>

(* cdromDMAVerifier: the last sector of a read is in. *)
DmaVerifier ==
  /\ dmaIrq
  /\ dmaIrq' = FALSE
  /\ s_dmaCounter' = s_dmaCounter - 1
  /\ IF s_dmaCounter' = 0 THEN Deliver(ACK) ELSE UNCHANGED pending
  /\ UNCHANGED <<s_currentState, s_sectorCounter, s_gotInt5,
                 s_initializationComplete, buffer, drive, program>>

CdInterrupt == DataReady \/ Complete \/ Acknowledge \/ DiscEnd \/ DiscError \/ DmaVerifier

-----------------------------------------------------------------------------
(* The program runs when no interrupt is being taken. *)
At(l) == cdPc = l /\ ~dmaIrq
CdGoto(l) == cdPc' = l

(* No event is pending, except those of the set S. *)
UndeliverAllBut(S) == pending' = pending \cap S

CdInit ==
  /\ s_currentState = CD_IDLE /\ s_sectorCounter = 0 /\ s_dmaCounter = 0
  /\ s_gotInt5 = FALSE /\ s_initializationComplete = 0
  /\ buffer = <<>> /\ dmaIrq = FALSE
  /\ pending = {}
  /\ answers = <<>> /\ reading = FALSE /\ head = 0
  /\ cdPc = "init"
  /\ count \in ReadCounts /\ retries = 0 /\ cyclesToWait = 0 /\ result = 0

(* cdromInnerInit: the machine is reset with interrupts disabled, and the   *)
(* command issued after they are enabled again.                             *)
InnerInit ==
  /\ At("init")
  /\ State(INITIALIZING) /\ s_initializationComplete' = 0 /\ s_gotInt5' = FALSE
  /\ CdGoto("initCommand")
  /\ UNCHANGED <<s_sectorCounter, s_dmaCounter, dma, pending, drive, count,
                 retries, cyclesToWait, result>>

InitCommand ==
  /\ At("initCommand")
  /\ Command("INIT", answers)
  /\ CdGoto("initWait")
  /\ UNCHANGED <<machine, dma, pending, count, retries, cyclesToWait, result>>

InitDone ==
  /\ At("initWait") /\ s_initializationComplete = 1
  /\ CdGoto("delay")
  /\ UNCHANGED <<machine, dma, pending, drive, count, retries, cyclesToWait,
                 result>>

(* After 30000 turns or an error cdromInnerInit is called again; the answer *)
(* may come between the last turn and the next command.                     *)
InitFails ==
  /\ At("initWait")
  /\ CdGoto("init")
  /\ UNCHANGED <<machine, dma, pending, drive, count, retries, cyclesToWait,
                 result>>

(* initCDRom's delay of 50000 turns outlasts the drive's initialisation. *)
Delay ==
  /\ At("delay") /\ Quiet
  /\ CdGoto("idle")
  /\ UNCHANGED <<machine, dma, pending, drive, count, retries, cyclesToWait,
                 result>>

(* A call; cdromBlockReading is given a buffer for n sectors. *)
BlockReading(n) ==
  /\ At("idle")
  /\ count' = n /\ buffer' = <<>>
  /\ retries' = 0 /\ cyclesToWait' = MaxTries
  /\ CdGoto("seek")
  /\ UNCHANGED <<machine, dmaIrq, pending, drive, result>>

SingleCall(l) ==
  /\ At("idle")
  /\ cyclesToWait' = MaxTries
  /\ CdGoto(l)
  /\ UNCHANGED <<machine, dma, pending, drive, count, retries, result>>

Return(r) == CdGoto("idle") /\ result' = r

(* cdromRead undelivers the events and sets its counters before it looks at *)
(* the drive's parameter FIFO.                                              *)
PrepareReadKeepsEvents ==   \* mutant: the events of before are not undelivered
  /\ s_sectorCounter' = count /\ s_dmaCounter' = count
  /\ buffer' = <<>>
  /\ UNCHANGED pending

PrepareRead ==
  /\ UndeliverAllBut({})
  /\ s_sectorCounter' = count /\ s_dmaCounter' = count
  /\ buffer' = <<>>

(* The first command of a call is refused: the machine is not idle, or the  *)
(* drive's parameter FIFO is not empty, which cdromGetStatus does not test. *)
Refused ==
  /\ \/ At("seek") \/ At("read") \/ At("setmode")
     \/ At("status") /\ s_currentState # CD_IDLE
  /\ cyclesToWait' = cyclesToWait - 1
  /\ IF cyclesToWait' < 1 THEN Return(-1) ELSE UNCHANGED <<cdPc, result>>
  /\ IF cdPc = "read" /\ s_currentState = CD_IDLE
     THEN PrepareRead
     ELSE UNCHANGED <<s_sectorCounter, s_dmaCounter, buffer, pending>>
  /\ UNCHANGED <<s_currentState, s_gotInt5, s_initializationComplete, dmaIrq,
                 drive, count, retries>>

(* cdromSeekL: the command is issued before the state is set. *)
CdromSeekL ==
  /\ At("seek") /\ s_currentState = CD_IDLE
  /\ UndeliverAllBut({ACK})
  /\ Command("SETLOC", answers)
  /\ CdGoto("seekState")
  /\ UNCHANGED <<machine, dma, count, retries, cyclesToWait, result>>

SeekState ==
  /\ At("seekState")
  /\ State(SEEKL_SETLOC)
  /\ CdGoto("seekWait")
  /\ UNCHANGED <<s_sectorCounter, s_dmaCounter, s_gotInt5,
                 s_initializationComplete, dma, pending, drive, count, retries,
                 cyclesToWait, result>>

SeekDone ==
  /\ At("seekWait") /\ DNE \in pending
  /\ pending' = pending \ {DNE}
  /\ cyclesToWait' = MaxTries
  /\ CdGoto("read")
  /\ UNCHANGED <<machine, dma, drive, count, retries, result>>

(* An error in the seek ends the call, in whichever turn of the loop. *)
SeekFails ==
  /\ At("seekWait") /\ ERR \in pending
  /\ pending' = pending \ {ERR}
  /\ Return(-1)
  /\ UNCHANGED <<machine, dma, drive, count, retries, cyclesToWait>>

(* cdromRead. *)
CdromRead ==
  /\ At("read") /\ s_currentState = CD_IDLE
  /\ PrepareRead
  /\ State(READ_SETMODE)
  /\ Command("SETMODE", answers)
  /\ CdGoto("readWait")
  /\ UNCHANGED <<s_gotInt5, s_initializationComplete, dmaIrq, count, retries,
                 cyclesToWait, result>>

ReadDone ==
  /\ At("readWait") /\ DNE \in pending
  /\ pending' = pending \ {DNE}
  /\ Return(count)
  /\ UNCHANGED <<machine, dma, drive, count, retries, cyclesToWait>>

(* An error while reading: once more from the seek, up to MaxRetries times. *)
ReadFails ==
  /\ At("readWait") /\ ERR \in pending
  /\ pending' = pending \ {ERR}
  /\ retries' = retries + 1
  /\ cyclesToWait' = MaxTries
  /\ IF retries' < MaxRetries THEN CdGoto("seek") /\ UNCHANGED result ELSE Return(-1)
  /\ UNCHANGED <<machine, dma, drive, count>>

ReadEnds ==
  /\ At("readWait") /\ END \in pending
  /\ pending' = pending \ {END}
  /\ Return(-1)
  /\ UNCHANGED <<machine, dma, drive, count, retries, cyclesToWait>>

(* cdromGetStatus and cdromSetMode, and the wait of cdromBlockGetStatus;    *)
(* a program that sets the mode waits in the same way.                      *)
Single(l, s, c) ==
  /\ At(l) /\ s_currentState = CD_IDLE
  /\ UndeliverAllBut({})
  /\ State(s)
  /\ Command(c, answers)
  /\ CdGoto("wait")
  /\ UNCHANGED <<s_sectorCounter, s_dmaCounter, s_gotInt5,
                 s_initializationComplete, dma, count, retries, cyclesToWait,
                 result>>

CdromGetStatus == Single("status", GETSTATUS, "NOP")
CdromSetMode == Single("setmode", SETMODE, "SETMODE")

SingleDone ==
  /\ At("wait")
  /\ \E e \in {DNE, ERR} \cap pending :
       /\ pending' = pending \ {e}
       /\ Return(IF e = DNE THEN 0 ELSE -1)
  /\ UNCHANGED <<machine, dma, drive, count, retries, cyclesToWait>>

InitStep == InnerInit \/ InitCommand \/ InitDone \/ InitFails \/ Delay
CallStep == \/ Refused \/ CdromSeekL \/ SeekState \/ SeekDone \/ SeekFails
            \/ CdromRead \/ ReadDone \/ ReadFails \/ ReadEnds
            \/ CdromGetStatus \/ CdromSetMode \/ SingleDone

CdNext ==
  \/ CdInterrupt
  \/ InitStep
  \/ \E n \in ReadCounts : BlockReading(n)
  \/ SingleCall("status") \/ SingleCall("setmode")
  \/ CallStep

CdSpec == CdInit /\ [][CdNext]_cdVars

(* The drive answers, and a call goes on. *)
CdFairSpec == CdSpec /\ WF_cdVars(CdInterrupt) /\ WF_cdVars(CallStep)

-----------------------------------------------------------------------------

Waits == {"seekWait", "readWait", "wait"}

(* What the variables hold; the counters of the loops stay in their bounds. *)
CdTypeOK ==
  /\ s_currentState \in CDRomState
  /\ s_sectorCounter \in Nat /\ s_dmaCounter \in Nat
  /\ s_gotInt5 \in BOOLEAN /\ s_initializationComplete \in 0 .. 2
  /\ buffer \in Seq(Nat) /\ dmaIrq \in BOOLEAN
  /\ pending \subseteq CdEvent
  /\ answers \in Seq(1 .. 5) /\ reading \in BOOLEAN /\ head \in Nat
  /\ cdPc \in {"init", "initCommand", "initWait", "delay", "idle", "seek",
             "seekState", "read", "status", "setmode"} \cup Waits
  /\ count \in ReadCounts
  /\ retries \in 0 .. MaxRetries /\ cyclesToWait \in 0 .. MaxTries
  /\ result \in ReadCounts \cup {-1, 0}

(* The DMA never writes past the count sectors of the caller's buffer,      *)
(* however reads fail, end early or are tried again (statemachine.c:161,    *)
(* 175-181, helpers.c:66).                                                  *)
DmaStaysInBuffer == Len(buffer) =< count

(* When cdromBlockReading returns the count, the buffer holds that many     *)
(* sectors, from the one asked for, in order (helpers.c:66-86).             *)
ReadIsWhole ==
  [][ReadDone => buffer = [k \in 1 .. count |-> k - 1]]_cdVars

(* When a call sees its event, done, error or end, the machine is idle and  *)
(* the drive has nothing left to raise: the answer to an earlier command is *)
(* never taken for that of a later one (statemachine.c:262-311, 563-632).   *)
EventsMeanIdle ==
  cdPc \in Waits /\ pending \cap {DNE, END, ERR} # {} =>
    s_currentState = CD_IDLE /\ Quiet

(* The ACK event of a read means that all its sectors are in the buffer     *)
(* (statemachine.c:696).                                                    *)
AckMeansAllIn == cdPc = "readWait" /\ ACK \in pending => Len(buffer) = count

(* What a call may rely on when its answer has come.                        *)
AnswersAreOwn == CdTypeOK /\ DmaStaysInBuffer /\ EventsMeanIdle /\ AckMeansAllIn

(* Every call returns, whatever the drive answers (cdrom.c:81-94,           *)
(* helpers.c:48-91).                                                        *)
CallReturns == cdPc \in Waits \cup {"seek", "read", "status", "setmode"} ~> cdPc = "idle"

=============================================================================
