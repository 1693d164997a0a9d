---------------------------- MODULE MCInterrupts ----------------------------
(***************************************************************************)
(* What the interrupts drive: the table of events, the handlers' chains    *)
(* with the pads' and cards' drivers in them, the driver of the disc, and  *)
(* the code that games patch, of their own and of the exception handler.   *)
(* Each module takes the calls of the others as they may come, and they    *)
(* share no variable: one moves in each behaviour, the others stay in an   *)
(* initial state, of which nothing is asked.                               *)
(***************************************************************************)
EXTENDS Events, Exceptions, CdRom, ExceptionSlots

VARIABLE part   \* which one moves

MCInit ==
  /\ part \in {"events", "chains", "disc", "patches", "handler"}
  /\ part = "events" \/ (cur = 0 /\ req = CHOOSE r \in Request : TRUE)
  /\ part = "disc" \/ count = 1
  /\ Init /\ ChainsInit /\ CdInit /\ PatchInit /\ SlotsInit

Event(A) == part = "events" /\ A /\ UNCHANGED <<part, chainVars, cdVars, patchVars, slotVars>>
OfChain(A) == part = "chains" /\ A /\ UNCHANGED <<part, vars, cdVars, patchVars, slotVars>>
Disc(A) == part = "disc" /\ A /\ UNCHANGED <<part, vars, chainVars, patchVars, slotVars>>

MCNext ==
  \/ Event(Next) \/ OfChain(ChainsNext) \/ Disc(CdNext)
  \/ part = "patches" /\ PatchNext /\ UNCHANGED <<part, vars, chainVars, cdVars, slotVars>>
  \/ part = "handler" /\ SlotsNext /\ UNCHANGED <<part, vars, chainVars, cdVars, patchVars>>

(* The fairness of the first three.                                        *)
mcVars == <<part, vars, chainVars, cdVars, patchVars, slotVars>>
MCSpec ==
  /\ MCInit /\ [][MCNext]_mcVars
  /\ WF_mcVars(Event(Step) \/ OfChain(Exception \/ Walk) \/ Disc(CallStep))
  /\ WF_mcVars(OfChain(initPadEnds) \/ Disc(CdInterrupt))
  /\ \A w \in Whats : WF_mcVars(Event(DeliverEvent(w)))

-----------------------------------------------------------------------------
(* Exceptions' ProgramRuns and PadsAreRead (kernel/irq.c, sio0/driver.c).  *)
ExceptionsEnd ==
  /\ []<>(part = "chains" => at = Running /\ ~Interrupted)
  /\ (part = "chains" /\ padsOn /\ unread) ~> (~padsOn \/ ~unread)

(* CdRom's ReadIsWhole and CallReturns (cdrom/helpers.c, cdrom/cdrom.c).   *)
ReadsEndWhole ==
  /\ ReadIsWhole
  /\ (part = "disc" /\ cdPc \in Waits \cup {"seek", "read", "status", "setmode"})
       ~> cdPc = "idle"

=============================================================================
