----------------------------- MODULE Exceptions -----------------------------
(***************************************************************************)
(* The chains of exception handlers of OpenBIOS and the drivers that hang  *)
(* themselves in and take themselves out again: the root counters, the     *)
(* pads and the memory cards, which all want the vertical blank, and the   *)
(* drive (nugget/openbios/handlers/*.c, kernel/vectors.s, sio0/driver.c).  *)
(* The walk along the chains is one step per handler; meanwhile a handler  *)
(* may change the very chain it is in.  What a memory card operation does  *)
(* is in CardDriver.                                                       *)
(***************************************************************************)
EXTENDS Integers, FiniteSets, FiniteSetsExt

CONSTANTS UserPriority   \* where the program's own handler goes

ASSUME ExceptionsAssumption ==
  UserPriority \in {0, 1, 3}   \* not among those behind sio0, see SioSetup

NoHandler == "none"
Priority == 0 .. 3
Timers == {"t0", "t3"}   \* T1 and T2 do what T0 does
Handler == {"cdIO", "cdDMA", "syscall", "irq", "mc", "sio0", "user"} \cup Timers
Line == {"timer0", "vblank", "controller"}

VARIABLES
  first, next,  \* handlersArray, and the next of each HandlerInfo
  at,           \* the handler the walk has come to, and its priority
  raised, mask, \* IREG, IMASK
  autoAck,      \* s_timersAutoAck, s_sio0AutoAck
  started,      \* s_padStarted, s_cardStarted
  waiting,      \* a card operation waits for its turn
  busy,         \* g_mcActionInProgress
  initialising, \* initPad is between its two writes of s_padStarted
  hung,         \* history: the handlers that belong to each chain
  padsOn,       \* history: the program wants its pads read
  unread,       \* history: not yet, since the last vertical blank
  ran           \* history: the program ran since the last exception

chains == <<first, next, hung>>
sio == <<autoAck, started, waiting, busy, initialising>>
wanted == <<padsOn, unread>>
chainVars == <<chains, at, raised, mask, sio, wanted, ran>>

-----------------------------------------------------------------------------
Running == <<0, NoHandler>>
Interrupted == raised \cap mask # {}

(* The handler n steps along a chain. *)
Along(p) ==
  LET a[n \in 0 .. Cardinality(Handler)] ==
        IF n = 0 THEN first[p] ELSE IF a[n - 1] = NoHandler THEN NoHandler ELSE next[a[n - 1]]
  IN  a
Chain(p) == {Along(p)[n] : n \in 0 .. Cardinality(Handler)} \ {NoHandler}

EnqAlone(fn, p, h) == [fn EXCEPT !.first[p] = h]   \* mutant: without what was there

sysEnqIntRP(fn, p, h) == [first |-> [fn.first EXCEPT ![p] = h],
                          next |-> [fn.next EXCEPT ![h] = fn.first[p]]]

(* Found first, or behind another one. *)
sysDeqIntRP(fn, p, h) ==
  LET behind[n \in 0 .. Cardinality(Handler)] ==
        IF n = 0 THEN fn.first[p]
        ELSE IF behind[n - 1] = NoHandler \/ fn.next[behind[n - 1]] = h THEN behind[n - 1]
        ELSE fn.next[behind[n - 1]]
      prev == behind[Cardinality(Handler)]
  IN  IF fn.first[p] = h THEN [fn EXCEPT !.first[p] = fn.next[h]]
      ELSE IF prev # NoHandler THEN [fn EXCEPT !.next[prev] = fn.next[h]] ELSE fn

FN == [first |-> first, next |-> next]
Sets(fn) == first' = fn.first /\ next' = fn.next
Hangs(p, h) == hung' = [hung EXCEPT ![p] = @ \cup {h}]
Leaves(p, h) == hung' = [hung EXCEPT ![p] = @ \ {h}]
Rehung(p, h) == Sets(sysEnqIntRP(sysDeqIntRP(FN, p, h), p, h)) /\ Hangs(p, h)
Unhung(p, h) == Sets(sysDeqIntRP(FN, p, h)) /\ Leaves(p, h)

(* kernelSetup: enqueueSyscallHandler(0), enqueueIrqHandler(3), then         *)
(* enqueueRCntIrqs(1).                                                      *)
ChainsInit ==
  /\ first = [p \in Priority |-> CASE p = 0 -> "syscall" [] p = 1 -> "t3"
                                   [] p = 2 -> NoHandler [] p = 3 -> "irq"]
  /\ next = [h \in Handler |-> IF h = "t3" THEN "t0" ELSE NoHandler]
  /\ hung = [p \in Priority |-> CASE p = 0 -> {"syscall"} [] p = 1 -> Timers
                                  [] p = 2 -> {} [] p = 3 -> {"irq"}]
  /\ at = Running
  /\ raised = {} /\ mask = {}
  /\ autoAck = Timers
  /\ started = {} /\ waiting = FALSE /\ busy = FALSE /\ initialising = FALSE
  /\ padsOn = FALSE /\ unread = FALSE /\ ran = TRUE

-----------------------------------------------------------------------------
(* exceptionHandler: from handler to handler and from one priority to the  *)
(* next; behind the last one the default jump buffer returns.              *)
FirstFrom(p, fs) ==
  LET nonEmpty == {q \in Priority : q >= p /\ fs[q] # NoHandler}
  IN  IF nonEmpty = {} THEN Running ELSE <<Min(nonEmpty), fs[Min(nonEmpty)]>>

(* After the handler has run: its own next, and the chains as it left them. *)
PassOn == at' = IF next'[at[2]] # NoHandler THEN <<at[1], next'[at[2]]>>
                ELSE FirstFrom(at[1] + 1, first')

Exception ==
  /\ at = Running /\ Interrupted
  /\ at' = FirstFrom(0, first)
  /\ ran' = FALSE
  /\ UNCHANGED <<chains, raised, mask, sio, wanted>>

Fires(line) == line \in raised \cap mask

(* A verifier answers 0. *)
Passes ==
  /\ at # Running
  /\ CASE at[2] = "t0" -> ~Fires("timer0")
       [] at[2] \in {"t3", "sio0"} -> ~Fires("vblank")
       [] at[2] = "mc" -> ~Fires("controller")
       [] OTHER -> TRUE
  /\ UNCHANGED chains
  /\ PassOn
  /\ UNCHANGED <<raised, mask, sio, wanted, ran>>

(* T0handler, T3handler: acknowledges and returns from the exception, or   *)
(* leaves it to the others.                                                *)
LineOf(h) == IF h = "t0" THEN "timer0" ELSE "vblank"

TimerHandler ==
  /\ at[2] \in Timers /\ Fires(LineOf(at[2]))
  /\ UNCHANGED chains
  /\ IF at[2] \in autoAck THEN raised' = raised \ {LineOf(at[2])} /\ at' = Running
     ELSE PassOn /\ UNCHANGED raised
  /\ UNCHANGED <<mask, sio, wanted, ran>>

(* The operation goes on to its next byte, or is over and the handler      *)
(* takes itself out.                                                       *)
CardGoesOn ==
  /\ busy' = TRUE /\ mask' = mask \cup {"controller"}
  /\ UNCHANGED waiting
CardIsOver ==
  /\ busy' = FALSE /\ waiting' = FALSE
  /\ mask' = mask \ {"controller"}

mcHandler ==
  /\ at[2] = "mc" /\ Fires("controller")
  /\ raised' = raised \ {"controller"}
  /\ \/ CardGoesOn /\ UNCHANGED chains
     \/ CardIsOver /\ Unhung(1, "mc")
  /\ PassOn
  /\ UNCHANGED <<autoAck, started, initialising, wanted, ran>>

(* firstStageCardAction: an operation that was still under way is given up, *)
(* or the next port's is begun.                                             *)
CardAborts == busy /\ CardIsOver /\ Unhung(1, "mc")
CardBegins ==
  /\ ~busy /\ waiting
  /\ \/ CardGoesOn /\ Rehung(1, "mc")
     \/ CardIsOver /\ Unhung(1, "mc")   \* in its first byte
CardWaits == ~busy /\ UNCHANGED <<chains, waiting, busy, mask>>

ReadsWhenInitialised == "pad" \in started

sio0Handler ==
  /\ at[2] = "sio0" /\ Fires("vblank")
  /\ unread' = (unread /\ ~ReadsWhenInitialised)   \* readPad(0), readPad(1)
  /\ IF "card" \in started THEN CardAborts \/ CardBegins \/ CardWaits
     ELSE UNCHANGED <<chains, waiting, busy, mask>>
  /\ raised' = raised \ ((IF "sio0" \in autoAck THEN {"vblank"} ELSE {})
                           \cup (IF mask' = mask THEN {} ELSE {"controller"}))
  /\ PassOn
  /\ UNCHANGED <<autoAck, started, initialising, padsOn, ran>>

Walk == Passes \/ TimerHandler \/ mcHandler \/ sio0Handler

(* Lines go up while the program runs; a vertical blank is not twice up.   *)
RaiseLine(line) ==
  /\ at = Running /\ ran /\ line \notin raised
  /\ line = "controller" => busy
  /\ raised' = raised \cup {line}
  /\ unread' = (unread \/ (line = "vblank" /\ padsOn /\ ~initialising))
  /\ UNCHANGED <<chains, at, mask, sio, padsOn, ran>>

-----------------------------------------------------------------------------
GoesOn == at = Running /\ ~Interrupted /\ ran' = TRUE /\ UNCHANGED at
Runs == GoesOn /\ ~initialising

(* setupBasicSio0Handler cuts off what is behind sio0. *)
SioSetup == next' = [next EXCEPT !["sio0"] = NoHandler] /\ UNCHANGED <<first, hung>>

initPad ==
  /\ Runs
  /\ SioSetup
  /\ started' = started \ {"pad"} /\ initialising' = TRUE
  /\ unread' = FALSE
  /\ UNCHANGED <<raised, mask, autoAck, waiting, busy, padsOn>>

initPadEnds ==
  /\ GoesOn /\ initialising
  /\ started' = started \cup {"pad"} /\ initialising' = FALSE
  /\ UNCHANGED <<chains, raised, mask, autoAck, waiting, busy, wanted>>

(* startPad and startCard take the vertical blank from the root counters,  *)
(* stopPad and stopCard give it back, each in a critical section.  Only    *)
(* startPad drops a vertical blank that is pending.                        *)
AckKept == autoAck   \* mutant: stopPad leaves the vertical blank to sio0

TakenFromCounters == (autoAck \ {"t3"}) \cup {"sio0"}
GivenToCounters == autoAck \cup {"t3"}

startPad ==
  /\ Runs /\ "pad" \in started
  /\ Rehung(2, "sio0")
  /\ raised' = raised \ {"vblank"} /\ mask' = mask \cup {"vblank"}
  /\ autoAck' = TakenFromCounters
  /\ padsOn' = TRUE /\ unread' = FALSE
  /\ UNCHANGED <<started, waiting, busy, initialising>>

(* The other driver's use of sio0 ends too: the program stops neither while *)
(* it needs the other.                                                      *)
stopPad ==
  /\ Runs /\ "card" \notin started
  /\ Unhung(2, "sio0")
  /\ autoAck' = GivenToCounters
  /\ padsOn' = FALSE /\ unread' = FALSE
  /\ UNCHANGED <<raised, mask, started, waiting, busy, initialising>>

(* initCard(1) if the program uses pads; not while the card's handler is in *)
(* its chain, which it would cut off behind it.                             *)
initCard ==
  /\ Runs /\ "mc" \notin Chain(1)
  /\ next' = [next EXCEPT !["sio0"] = NoHandler, !["mc"] = NoHandler]
  /\ busy' = FALSE /\ waiting' = FALSE
  /\ UNCHANGED <<first, hung, raised, mask, autoAck, started, initialising, wanted>>

startCard ==
  /\ Runs
  /\ Rehung(2, "sio0")
  /\ mask' = mask \cup {"vblank"}
  /\ autoAck' = TakenFromCounters
  /\ started' = started \cup {"card"}
  /\ UNCHANGED <<raised, waiting, busy, initialising, wanted>>

stopCard ==
  /\ Runs /\ ~padsOn
  /\ Unhung(2, "sio0")
  /\ autoAck' = GivenToCounters
  /\ started' = started \ {"card"}
  /\ UNCHANGED <<raised, mask, waiting, busy, initialising, wanted>>

AskCard ==   \* mcReadSector, mcWriteSector, cardInfoInternal
  /\ Runs /\ "card" \in started
  /\ waiting' = TRUE
  /\ UNCHANGED <<chains, raised, mask, autoAck, started, busy, initialising, wanted>>

(* enableTimerIRQ and disableTimerIRQ; the vertical blank is not turned off *)
(* under the pads.                                                          *)
EnableTimer(line) ==
  /\ Runs
  /\ \/ mask' = mask \cup {line}
     \/ mask' = mask \ {line} /\ (line = "vblank" => ~padsOn)
  /\ UNCHANGED <<chains, raised, sio, wanted>>

(* enqueueCDRomHandlers, dequeueCDRomHandlers, in turns. *)
CdHangs ==
  /\ Runs /\ "cdIO" \notin hung[0]
  /\ Sets(sysEnqIntRP(sysEnqIntRP(FN, 0, "cdIO"), 0, "cdDMA"))
  /\ hung' = [hung EXCEPT ![0] = @ \cup {"cdIO", "cdDMA"}]
  /\ UNCHANGED <<raised, mask, sio, wanted>>

CdLeaves ==
  /\ Runs /\ "cdIO" \in hung[0]
  /\ Sets(sysDeqIntRP(sysDeqIntRP(FN, 0, "cdIO"), 0, "cdDMA"))
  /\ hung' = [hung EXCEPT ![0] = @ \ {"cdIO", "cdDMA"}]
  /\ UNCHANGED <<raised, mask, sio, wanted>>

User ==
  /\ Runs
  /\ IF "user" \in hung[UserPriority] THEN Unhung(UserPriority, "user")
     ELSE Sets(sysEnqIntRP(FN, UserPriority, "user")) /\ Hangs(UserPriority, "user")
  /\ UNCHANGED <<raised, mask, sio, wanted>>

Calls ==
  \/ initPad \/ initPadEnds \/ startPad \/ stopPad
  \/ initCard \/ startCard \/ stopCard \/ AskCard
  \/ EnableTimer("timer0") \/ EnableTimer("vblank")
  \/ CdHangs \/ CdLeaves \/ User

ChainsNext == Exception \/ Walk \/ (\E line \in Line : RaiseLine(line)) \/ Calls

(* The processor goes on, and initPad is not left halfway. *)
ChainsSpec ==
  /\ ChainsInit /\ [][ChainsNext]_chainVars
  /\ WF_chainVars(Exception \/ Walk) /\ WF_chainVars(initPadEnds)

-----------------------------------------------------------------------------

(* What the variables hold; the walk is never at a handler that has been    *)
(* taken out of its chain.                                                  *)
ChainsTypeOK ==
  /\ first \in [Priority -> Handler \cup {NoHandler}]
  /\ next \in [Handler -> Handler \cup {NoHandler}]
  /\ at = Running \/ at[2] \in hung[at[1]]
  /\ raised \subseteq Line /\ mask \subseteq Line
  /\ autoAck \subseteq Timers \cup {"sio0"} /\ started \subseteq {"pad", "card"}

(* Each chain holds the handlers that were hung into it and not taken out,  *)
(* and nothing else, whichever handlers come and go around them, during a   *)
(* walk as well (setup.c:31-62).                                            *)
NothingLost == \A p \in Priority : Chain(p) = hung[p]

(* Both together (handlers/setup.c, kernel/vectors.s).                      *)
ChainsAreKept == ChainsTypeOK /\ NothingLost

(* Every exception ends, and with the interrupt acknowledged: the program   *)
(* runs again and again, whichever driver has the vertical blank            *)
(* (irq.c:82-123, driver.c:356, 399-416, 446-466).                      *)
ProgramRuns == []<>(at = Running /\ ~Interrupted)

(* While the program wants its pads they are read after every vertical      *)
(* blank: no root counter takes it first (irq.c:119-123, driver.c:399-409). *)
PadsAreRead == (padsOn /\ unread) ~> (~padsOn \/ ~unread)

=============================================================================
