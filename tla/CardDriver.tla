----------------------------- MODULE CardDriver -----------------------------
(***************************************************************************)
(* The memory card driver of the BIOS: the transactions the interrupts of  *)
(* the controller port step through (nugget/openbios/sio0/driver.c and     *)
(* card.c), the chains of sectors built on them (card/backupunit.c) and    *)
(* the calls that start them and wait (card/device.c).                     *)
(*                                                                         *)
(* Every vertical blank turns to the other port and starts what is asked   *)
(* of it; from then on each byte the card acknowledges is an interrupt,    *)
(* and the next blank gives the transaction up if it is still going on.    *)
(* The bytes are "good", or what the code tells from it; the 128 of a      *)
(* sector, moved by the fast track, are one step.                          *)
(***************************************************************************)
EXTENDS Integers, FiniteSets

CONSTANTS
  Counts,           \* numbers of sectors read and written behind the program
  DirSectors,       \* 15: the directory of a card
  BrokenSectors,    \* 20: its list of broken sectors
  OnePortAtATime    \* the program uses no port while the other is busy

ASSUME CardAssumption ==
  /\ Counts \subseteq Nat /\ {DirSectors, BrokenSectors} \subseteq Nat \ {0}
  /\ OnePortAtATime \in BOOLEAN

Port == {0, 1}

(* g_mcFlags: idle when odd (only that bit is ever read), else what is asked *)
(* of the port.                                                             *)
IDLE == 1
INFO == 0
READ == 2
WRITE == 4
Asked == {INFO, READ, WRITE}

OUTSIDE == 2   \* places of the program beside the two ports
INSIDE == 3

VARIABLES
  d,        \* the driver's memory
  line,     \* the card: "quiet", "sent" a byte, or the reply it acknowledges
  thread    \* the program: OUTSIDE the driver, INSIDE it, or waiting for a port

vars == <<d, line, thread>>

Busy(s, p) == s.flags[p] \in Asked

-----------------------------------------------------------------------------
(* mcReadSector, mcWriteSector, cardInfoInternal. *)
Accepts(s, p) == ~Busy(s, p)

IssueBusy(s, p, what) ==
  [s EXCEPT !.op = 0, !.flags[p] = what, !.answers[p] = 0]

Issue(s, p, what) == IF Accepts(s, p) THEN IssueBusy(s, p, what) ELSE s

mcResetStatus(s) == [s EXCEPT !.ok = FALSE, !.errors = {}, !.result = 0]

Error(s, i) == [s EXCEPT !.ok = FALSE, !.errors = @ \cup {i}]

buFinishAndTrigger(s, p) ==
  [s EXCEPT !.bu[p] = 0, !.state[p] = 0, !.sector[p] = 0, !.triggers[p] = @ + 1]

(* A transaction is over, with a callback that takes the port it was on      *)
(* from mcGetLastDevice: history of whose answer it is, and of how it went.  *)
Answered(s, how) == [s EXCEPT !.answers[s.last] = @ + 1, !.result = how]

(* The directory of a card, then its broken sectors, are read one by one. *)
NextOfTOC(s, p, mc) ==
  LET next == s.sector[p] + 1
      On(state, sector) == [Issue(s, p, READ) EXCEPT !.state[p] = state,
                                                     !.sector[p] = sector]
  IN CASE s.state[p] = 1 -> IF mc THEN On(2, 0)
                            ELSE buFinishAndTrigger(Error(s, 2), p)
       [] s.state[p] = 2 -> IF next < DirSectors THEN On(2, next) ELSE On(3, 0)
       [] s.state[p] = 3 -> IF next < BrokenSectors THEN On(3, next)
                            ELSE buFinishAndTrigger(s, p)

(* buLowLevelOpCompleted: the flags are idle again, so nothing is refused. *)
NextOfTransfer(s, p) ==
  IF s.count[p] > 1
  THEN [Issue(s, p, IF s.bu[p] = 2 THEN READ ELSE WRITE) EXCEPT !.count[p] = @ - 1]
  ELSE IF s.bu[p] = 2 THEN buFinishAndTrigger([s EXCEPT !.count[p] = 0], p)
  ELSE [Issue(s, p, INFO) EXCEPT !.ok = FALSE, !.count[p] = 0, !.bu[p] = 7]

buLowLevelOpCompleted(s0, mc) ==
  LET s == [Answered(s0, 0) EXCEPT !.ok = TRUE]
      p == s.last
  IN
  CASE s.bu[p] = 0 -> s
    [] s.bu[p] \in {1, 7} -> buFinishAndTrigger(s, p)
    [] s.bu[p] \in {2, 3} -> NextOfTransfer(s, p)
    [] s.bu[p] = 4 -> NextOfTOC(s, p, mc)

(* buLowLevelOpError1, 2 and 3 *)
buLowLevelOpError(s0, i) ==
  LET s == [Answered(s0, i) EXCEPT !.errors = @ \cup {i - 1}]
  IN  IF s.bu[s.last] # 0 THEN buFinishAndTrigger(s, s.last) ELSE s

-----------------------------------------------------------------------------
(* mcHandler's ends of a transaction. *)
Done(s) == [s EXCEPT !.inProgress = FALSE, !.op = 0, !.on = FALSE, !.failed = FALSE,
                     !.steps = 0]

SucceedsTwice(s, mc) ==   \* mutant: g_mcGotError is not looked at
  buLowLevelOpCompleted([Done(s) EXCEPT !.skip = FALSE, !.flags[s.flip] = IDLE,
                                        !.last = s.flip], mc)

Succeeds(s, mc) ==
  IF s.gotError THEN Done(s)
  ELSE buLowLevelOpCompleted([Done(s) EXCEPT !.skip = FALSE, !.last = s.flip,
                                             !.flags[s.flip] = IDLE], mc)

Fails(s) ==
  [IF s.gotError THEN Done(s)
   ELSE buLowLevelOpError([Done(s) EXCEPT !.skip = FALSE, !.last = s.flip,
                                          !.flags[s.flip] = IDLE], 1)
   EXCEPT !.gotError = FALSE]

(* The card says that it is new, or that the last write failed. *)
TellsAtOnce(s, i) ==
  [buLowLevelOpError([s EXCEPT !.skip = FALSE, !.last = s.flip,
                               !.flags[s.flip] = IDLE], i)
   EXCEPT !.gotError = TRUE]

(* mcReadHandler, mcWriteHandler and mcInfoHandler: the last byte, and those *)
(* whose reply is compared.                                                 *)
LastOp(what) == CASE what = READ -> 13 [] what = WRITE -> 10 [] what = INFO -> 4
Compared(what) == CASE what = READ -> {4, 5, 8, 9, 10, 11, 13}
                    [] what = WRITE -> {4, 5, 9, 10}
                    [] what = INFO -> {4}
FastAfter(what) == CASE what = READ -> 11 [] what = WRITE -> 6 [] what = INFO -> 0

Replies(what, n) ==
  IF n = 3 THEN {"good", "new", "failed"}
  ELSE {"good"} \cup (IF n \in Compared(what) THEN {"wrong"} ELSE {})
                \cup (IF n = LastOp(what) /\ what # INFO THEN {"refused"} ELSE {})

mcHandler(s0, reply, mc) ==
  LET p == s0.flip
      what == s0.flags[p]
      n == s0.op + 1
      s == [s0 EXCEPT !.op = n, !.steps = @ + 1, !.on = TRUE]
      refusedNew == n = 3 /\ ~s.skip
                    /\ (reply = "new" \/ (reply = "failed" /\ what = INFO))
      failedBefore == n = 10 /\ what = WRITE /\ s.failed /\ ~s.skip
      told == IF failedBefore THEN TellsAtOnce(s, 3) ELSE s
  IN
  IF n = 1 THEN [s EXCEPT !.inProgress = TRUE]
  ELSE IF refusedNew THEN Fails(TellsAtOnce(s, IF reply = "new" THEN 3 ELSE 1))
  ELSE IF n = 3 /\ what = WRITE THEN [s EXCEPT !.failed = reply = "failed"]
  ELSE IF reply = "wrong" THEN Fails(s)
  ELSE IF n < LastOp(what) THEN [s EXCEPT !.fast = n = FastAfter(what)]
  ELSE IF reply = "refused" THEN Fails(told)
  ELSE Succeeds(told, mc)

(* firstStageCardAction *)
Aborts(s) ==
  buLowLevelOpError([Done(s) EXCEPT !.skip = FALSE, !.last = s.flip,
                                    !.flags[s.flip] = IDLE], 2)

TurnsSame(s) == s   \* mutant: the port is not changed

Turns(s) == [s EXCEPT !.flip = 1 - @]

Begins(s) ==
  mcHandler([s EXCEPT !.fast = FALSE, !.op = 0, !.gotError = FALSE, !.steps = 0],
            "good", TRUE)

firstStageCardAction(s) ==
  IF s.inProgress THEN Aborts(s)
  ELSE LET t == Turns(s) IN IF Busy(t, t.flip) THEN Begins(t) ELSE t

-----------------------------------------------------------------------------
Init ==   \* initCard and startCard
  /\ d = [flags |-> [p \in Port |-> IDLE], op |-> 0, inProgress |-> FALSE,
          flip |-> 0, last |-> 0, gotError |-> FALSE, skip |-> FALSE,
          fast |-> FALSE, on |-> FALSE, failed |-> FALSE,
          bu |-> [p \in Port |-> 0], count |-> [p \in Port |-> 0],
          state |-> [p \in Port |-> 0], sector |-> [p \in Port |-> 0],
          ok |-> FALSE, errors |-> {}, started |-> TRUE, steps |-> 0,
          answers |-> [p \in Port |-> 1], triggers |-> [p \in Port |-> 1],
          result |-> 0]
  /\ line = "quiet"
  /\ thread = OUTSIDE

(* The interrupts.  The verifier leaves those of the fast track to it. *)
VBlank ==
  /\ d.started
  /\ d' = firstStageCardAction(d)
  /\ line' = IF d'.inProgress THEN "sent" ELSE "quiet"
  /\ UNCHANGED thread

(* The pads are read at every blank, on the same lines, started or not. *)
PadsRead ==
  /\ ~d.started /\ line # "quiet"
  /\ line' = "quiet"
  /\ UNCHANGED <<d, thread>>

CardAcknowledges ==
  /\ line = "sent"
  /\ line' \in Replies(d.flags[d.flip], d.op + 1)
  /\ UNCHANGED <<d, thread>>

CardInterrupt ==
  /\ line \notin {"quiet", "sent"} /\ d.on /\ ~d.fast
  /\ \E mc \in BOOLEAN : d' = mcHandler(d, line, mc)
  /\ line' = IF d'.inProgress THEN "sent" ELSE "quiet"
  /\ UNCHANGED thread

FastTrack ==
  /\ line \notin {"quiet", "sent"} /\ d.on /\ d.fast
  /\ d' = [d EXCEPT !.fast = FALSE]
  /\ line' = "sent"
  /\ UNCHANGED thread

(* startCard and stopCard; mcAllowNewCard. *)
StartCard ==
  /\ thread = OUTSIDE
  /\ d' = [d EXCEPT !.started = TRUE, !.skip = FALSE]
  /\ line' = "quiet"
  /\ UNCHANGED thread

StopCard ==
  /\ thread = OUTSIDE /\ d.started
  /\ d' = [d EXCEPT !.started = FALSE]
  /\ UNCHANGED <<line, thread>>

AllowNewCard ==
  /\ thread \in {OUTSIDE, INSIDE}
  /\ d' = [d EXCEPT !.skip = TRUE]
  /\ UNCHANGED <<line, thread>>

(* The calls of the program.  One of the layer above finds the port free, or *)
(* is refused; one of the layer below may find it busy and be refused.       *)
OtherFree(p) == OnePortAtATime => ~Busy(d, 1 - p)
Free(p) == OtherFree(p) /\ d.bu[p] = 0 /\ ~Busy(d, p)
Begun(s, p, op) == [s EXCEPT !.bu[p] = op, !.triggers[p] = 0]

McSector(p, what) ==   \* mcReadSector and mcWriteSector
  /\ thread = OUTSIDE /\ OtherFree(p)
  /\ d' = Issue(d, p, what)
  /\ UNCHANGED <<line, thread>>

CardInfo(p) ==
  /\ thread = OUTSIDE /\ Free(p)
  /\ d' = Issue(Begun(d, p, 1), p, INFO)
  /\ UNCHANGED <<line, thread>>

BuReadTOC(p) ==
  /\ thread = OUTSIDE /\ Free(p)
  /\ d' = [Issue(Begun(d, p, 4), p, READ) EXCEPT !.state[p] = 1]
  /\ UNCHANGED <<line, thread>>

(* dev_bu_read and dev_bu_write of a file opened with PSXF_ASYNC. *)
Transfer(p, what, n) ==
  /\ thread = OUTSIDE /\ Free(p)
  /\ LET s == [Begun(mcResetStatus(d), p, IF what = READ THEN 2 ELSE 3)
               EXCEPT !.count[p] = n]
     IN  d' = IF n = 0 THEN buFinishAndTrigger([s EXCEPT !.ok = TRUE], p)
              ELSE Issue(s, p, what)
  /\ UNCHANGED <<line, thread>>

(* The others work one sector after another, with a wait after each. *)
Enter(s) == mcResetStatus(s)

Enters(p) ==
  /\ thread = OUTSIDE /\ Free(p) /\ d.started
  /\ d' = Enter(d)
  /\ thread' = INSIDE
  /\ UNCHANGED line

SyncCall(p, what) ==
  /\ thread = INSIDE /\ Free(p)
  /\ d' = Issue(IF what = INFO THEN Begun(d, p, 1) ELSE d, p, what)
  /\ thread' = p
  /\ UNCHANGED line

(* mcWaitForStatus and mcWaitForStatusAndReturnIndex *)
McWaitForStatus ==
  /\ thread \in Port
  /\ d.ok \/ d.errors # {}
  /\ d' = mcResetStatus(d)
  /\ thread' = INSIDE
  /\ UNCHANGED line

Leave ==
  /\ thread = INSIDE
  /\ thread' = OUTSIDE
  /\ UNCHANGED <<d, line>>

Interrupt == VBlank \/ CardInterrupt \/ FastTrack

Calls(p) ==
  \/ \E what \in {READ, WRITE} : McSector(p, what)
  \/ CardInfo(p) \/ BuReadTOC(p) \/ Enters(p)
  \/ \E what \in {READ, WRITE}, n \in Counts : Transfer(p, what, n)
  \/ \E what \in Asked : SyncCall(p, what)

Next ==
  \/ Interrupt \/ PadsRead \/ CardAcknowledges
  \/ StartCard \/ StopCard \/ AllowNewCard
  \/ \E p \in Port : Calls(p)
  \/ McWaitForStatus \/ Leave

(* Blanks come for ever and a waiting program looks again; of the card       *)
(* nothing is assumed.                                                      *)
Spec == Init /\ [][Next]_vars /\ WF_vars(VBlank) /\ WF_vars(McWaitForStatus)

-----------------------------------------------------------------------------

(* What the driver's memory, the line and the program's place can be. *)
TypeOK ==
  /\ \A p \in Port :
       /\ d.flags[p] \in Asked \cup {IDLE}
       /\ d.bu[p] \in {0, 1, 2, 3, 4, 7} /\ d.count[p] \in Nat
       /\ d.state[p] \in 0 .. 3 /\ d.sector[p] \in 0 .. DirSectors + BrokenSectors
  /\ d.op \in 0 .. 13 /\ {d.flip, d.last} \subseteq Port
  /\ {d.inProgress, d.gotError, d.skip, d.fast, d.on, d.ok, d.started} \subseteq BOOLEAN
  /\ d.failed \in BOOLEAN /\ d.errors \subseteq 0 .. 2 /\ d.result \in 0 .. 3
  /\ line \in {"quiet", "sent", "good", "new", "failed", "wrong", "refused"}
  /\ thread \in {OUTSIDE, INSIDE} \cup Port

(* Every request the driver accepts is answered once, by one of its four    *)
(* callbacks: done, failed, timed out or new card, though several tests on  *)
(* the way can each answer it (driver.c:279-299, card.c:116-124, 283-291).  *)
AnsweredOnce ==
  \A p \in Port : d.answers[p] = IF Busy(d, p) THEN 0 ELSE 1

(* While the layer above works on a port, a request of that port is with    *)
(* the driver: no chain of sectors stops in the middle, which would leave   *)
(* the port busy for ever (backupunit.c:318-470, device.c:316-338).         *)
ChainsGoOn == \A p \in Port : d.bu[p] # 0 => Busy(d, p)

(* The event of the layer above comes once for every chain it begins, at    *)
(* its end (backupunit.c:300-305).                                          *)
TriggeredOnce ==
  \A p \in Port : d.triggers[p] = IF d.bu[p] # 0 THEN 0 ELSE 1

(* The byte the handler is at is the number of bytes the card has had since *)
(* it was selected: nothing restarts a transaction that is going on,        *)
(* though each call clears g_mcOperation (driver.c:477, 494, 511).          *)
BytesInOrder == d.inProgress => d.op = d.steps /\ Busy(d, d.flip)

(* The interrupt of the controller is on exactly while a transaction goes   *)
(* on, and the fast track takes it only where a sector's bytes are due.     *)
InterruptOnlyInTransaction ==
  /\ d.on = d.inProgress
  /\ d.on /\ d.fast => d.op = FastAfter(d.flags[d.flip])

(* A waiting program is told of the answer to its own request, from status  *)
(* words that both ports and all layers share (card.c:44-87).               *)
WaitTellsOwn ==
  thread \in Port =>
    /\ d.ok \/ d.errors # {} => ~Busy(d, thread)
    /\ ~Busy(d, thread) => IF d.result = 0 THEN d.ok /\ d.errors = {}
                           ELSE ~d.ok /\ d.errors = {d.result - 1}

(* What is asked of a card is answered, once and to who asked, sector for   *)
(* sector and byte for byte (sio0/card.c, card/backupunit.c).               *)
RequestsAreAnswered ==
  /\ TypeOK /\ AnsweredOnce /\ ChainsGoOn /\ TriggeredOnce
  /\ BytesInOrder /\ InterruptOnlyInTransaction /\ WaitTellsOwn

(* Whatever the card does, a chain of sectors ends and a wait returns,      *)
(* unless the program stops the driver: the blanks see to it.               *)
ChainsEnd == \A p \in Port : d.bu[p] # 0 ~> d.bu[p] = 0 \/ ~d.started
WaitReturns == \A p \in Port : thread = p ~> thread # p
RequestsEnd == ChainsEnd /\ WaitReturns

=============================================================================
