------------------------------- MODULE Events -------------------------------
(***************************************************************************)
(* The event table of the BIOS kernel (nugget/openbios/kernel/events.c).   *)
(* A program opens, enables, tests and waits for events; an interrupt      *)
(* delivers them, at any point of any of these calls, because they read    *)
(* and write the table with interrupts enabled.                            *)
(*                                                                         *)
(* Interrupt handlers run with interrupts disabled, so a delivery is one   *)
(* step.  The program is one thread (threads of the kernel change hands    *)
(* only by a call), and a step of it is one access to a flag.  A callback  *)
(* may disable its own event; callbacks that open or close events are left *)
(* out: the table has no protection against them (see the README).         *)
(***************************************************************************)
EXTENDS Naturals, FiniteSets

CONSTANTS
  Slots,      \* the indices of the table: an initial part of Nat
  Whats,      \* the pairs of class and spec that events are opened for
  Handlers,   \* the callbacks
  NULL        \* no callback

ASSUME TableAssumption ==
  /\ Slots \subseteq Nat
  /\ NULL \notin Handlers

FREE == "FREE"
DISABLED == "DISABLED"
ENABLED_FLAG == "ENABLED"
PENDING == "PENDING"
Flag == {FREE, DISABLED, ENABLED_FLAG, PENDING}

CALLBACK == "CALLBACK"
NO_CALLBACK == "NO_CALLBACK"
Mode == {CALLBACK, NO_CALLBACK}

(* What openEvent is called with, beside its slot and flags the content of  *)
(* a struct EventInfo.                                                      *)
Request == [what : Whats, mode : Mode, handler : Handlers \cup {NULL}]

VARIABLES
  flags,    \* flags of every EventInfo
  info,     \* class, spec, mode and handler of every EventInfo
  pc,       \* where the program is in its call, or "idle"
  cur,      \* the slot the call is about
  req,      \* the arguments of openEvent, or what undeliverEvent undelivers
  asked,    \* history: the requests a slot is open for: one, or none
  on,       \* history: the slots the program enabled and did not disable
  unseen    \* history: the slots with a delivery no answer has followed

table == <<flags, info>>
call == <<pc, cur, req>>
history == <<asked, on, unseen>>
vars == <<table, call, history>>

-----------------------------------------------------------------------------
(* initEvents: kmalloc does not clear the array, only flags are set. *)
Init ==
  /\ flags = [s \in Slots |-> FREE]
  /\ \E r \in Request : info = [s \in Slots |-> r] /\ req = r
  /\ pc = "idle"
  /\ cur \in Slots
  /\ asked = [s \in Slots |-> {}]
  /\ on = {} /\ unseen = {}

Set(s, f) == flags' = [flags EXCEPT ![s] = f]
Goto(l) == pc' = l

(* getFreeEvCBSlot: the first free slot. *)
IsFreeSlot(s) ==
  flags[s] = FREE /\ \A t \in Slots : t < s => flags[t] # FREE

(* openEvent writes class, spec and mode, then the flags, then the handler. *)
OpenEvent(r) ==
  /\ pc = "idle"
  /\ \E s \in Slots :
       /\ IsFreeSlot(s)
       /\ cur' = s
       /\ info' = [info EXCEPT ![s] = [what |-> r.what, mode |-> r.mode,
                                       handler |-> info[s].handler]]
  /\ req' = r
  /\ Goto("openFlags")
  /\ UNCHANGED <<flags, history>>

OpenFlags ==
  /\ pc = "openFlags"
  /\ Set(cur, DISABLED)
  /\ Goto("openHandler")
  /\ UNCHANGED <<info, cur, req, history>>

OpenHandler ==
  /\ pc = "openHandler"
  /\ info' = [info EXCEPT ![cur] = [what |-> info[cur].what,
                                    mode |-> info[cur].mode,
                                    handler |-> req.handler]]
  /\ asked' = [asked EXCEPT ![cur] = {req}]
  /\ Goto("idle")
  /\ UNCHANGED <<flags, cur, req, on, unseen>>

(* enableEvent and disableEvent look at the flags and write them later; the *)
(* event may be any that the program has held, closed or not.               *)
StartEnable(s) ==
  /\ pc = "idle" /\ flags[s] # FREE
  /\ cur' = s /\ Goto("enable")
  /\ UNCHANGED <<table, req, history>>

Enable ==
  /\ pc = "enable"
  /\ Set(cur, ENABLED_FLAG)
  /\ on' = on \cup {cur} /\ unseen' = unseen \ {cur}
  /\ Goto("idle")
  /\ UNCHANGED <<info, cur, req, asked>>

StartDisable(s) ==
  /\ pc = "idle" /\ flags[s] # FREE
  /\ cur' = s /\ Goto("disable")
  /\ UNCHANGED <<table, req, history>>

Disable ==
  /\ pc = "disable"
  /\ Set(cur, DISABLED)
  /\ on' = on \ {cur} /\ unseen' = unseen \ {cur}
  /\ Goto("idle")
  /\ UNCHANGED <<info, cur, req, asked>>

CloseEvent(s) ==
  /\ pc = "idle"
  /\ Set(s, FREE)
  /\ asked' = [asked EXCEPT ![s] = {}]
  /\ on' = on \ {s} /\ unseen' = unseen \ {s}
  /\ UNCHANGED <<info, call>>

(* testEvent: a pending event answers 1 and is enabled again; any other     *)
(* answers 0 and changes nothing.                                           *)
TestEvent(s) ==
  /\ pc = "idle" /\ flags[s] = PENDING
  /\ cur' = s /\ Goto("answer")
  /\ UNCHANGED <<table, req, history>>

(* waitEvent looks at one value of the flags in both of its tests: nothing  *)
(* between them makes the compiler read it again.  The loop does reread it. *)
(* An event that is free or disabled answers 0.                             *)
WaitEventAny(s) ==   \* mutant: a disabled event is waited for too
  /\ pc = "idle" /\ flags[s] # FREE
  /\ cur' = s
  /\ Goto(IF flags[s] = PENDING THEN "answer" ELSE "wait")
  /\ UNCHANGED <<table, req, history>>

WaitEvent(s) ==
  /\ pc = "idle" /\ flags[s] \in {PENDING, ENABLED_FLAG}
  /\ cur' = s
  /\ Goto(IF flags[s] = PENDING THEN "answer" ELSE "wait")
  /\ UNCHANGED <<table, req, history>>

WaitLoop ==
  /\ pc = "wait"
  /\ flags[cur] = PENDING
  /\ Goto("answer")
  /\ UNCHANGED <<table, cur, req, history>>

Answer ==
  /\ pc = "answer"
  /\ Set(cur, ENABLED_FLAG)
  /\ unseen' = unseen \ {cur}
  /\ Goto("idle")
  /\ UNCHANGED <<info, cur, req, asked, on>>

(* undeliverEvent goes through the table slot by slot. *)
StartUndeliver(r) ==
  /\ pc = "idle"
  /\ req' = r
  /\ cur' \in {s \in Slots : \A t \in Slots : s =< t}
  /\ Goto("undeliver")
  /\ UNCHANGED <<table, history>>

IsUndelivered(s) ==
  flags[s] = PENDING /\ info[s].what = req.what /\ info[s].mode = NO_CALLBACK

UndeliverAny ==   \* mutant: whatever is pending is undelivered
  /\ pc = "undeliver"
  /\ IF flags[cur] = PENDING
     THEN Set(cur, ENABLED_FLAG) ELSE UNCHANGED flags
  /\ unseen' = IF IsUndelivered(cur) THEN unseen \ {cur} ELSE unseen
  /\ \/ cur' \in {s \in Slots : s = cur + 1} /\ UNCHANGED pc
     \/ cur + 1 \notin Slots /\ Goto("idle") /\ UNCHANGED cur
  /\ UNCHANGED <<info, req, asked, on>>

Undeliver ==
  /\ pc = "undeliver"
  /\ IF IsUndelivered(cur)
     THEN Set(cur, ENABLED_FLAG) /\ unseen' = unseen \ {cur}
     ELSE UNCHANGED <<flags, unseen>>
  /\ \/ cur' \in {s \in Slots : s = cur + 1} /\ UNCHANGED pc
     \/ cur + 1 \notin Slots /\ Goto("idle") /\ UNCHANGED cur
  /\ UNCHANGED <<info, req, asked, on>>

-----------------------------------------------------------------------------
(* deliverEvent(w), from an interrupt: events without a callback become     *)
(* pending; the callbacks of the others are called, and may disable their   *)
(* own event.                                                               *)
Matches(s, w) == flags[s] = ENABLED_FLAG /\ info[s].what = w
Marked(w) == {s \in Slots : Matches(s, w) /\ info[s].mode = NO_CALLBACK}
Called(w) == {s \in Slots : Matches(s, w) /\ info[s].mode = CALLBACK
                                         /\ info[s].handler # NULL}

(* The events the program expects to hear of w. *)
Expecting(w) == {s \in on : \E r \in asked[s] : r.what = w /\ r.mode = NO_CALLBACK}

DeliverEvent(w) ==
  /\ \E off \in SUBSET Called(w) :
       /\ flags' = [s \in Slots |-> IF s \in Marked(w) THEN PENDING
                                    ELSE IF s \in off THEN DISABLED
                                    ELSE flags[s]]
       /\ on' = on \ off
  /\ unseen' = unseen \cup Expecting(w)
  /\ UNCHANGED <<info, call, asked>>

Program ==
  \/ \E r \in Request : OpenEvent(r) \/ StartUndeliver(r)
  \/ OpenFlags \/ OpenHandler
  \/ \E s \in Slots : StartEnable(s) \/ StartDisable(s) \/ CloseEvent(s)
                       \/ TestEvent(s) \/ WaitEvent(s)
  \/ Enable \/ Disable \/ WaitLoop \/ Answer \/ Undeliver

Next == Program \/ \E w \in Whats : DeliverEvent(w)

Spec == Init /\ [][Next]_vars

(* A call of the program goes on, and every device interrupts again. *)
Step == OpenFlags \/ OpenHandler \/ Enable \/ Disable \/ WaitLoop \/ Answer
        \/ Undeliver

FairSpec ==
  /\ Spec
  /\ WF_vars(Step)
  /\ \A w \in Whats : WF_vars(DeliverEvent(w))

-----------------------------------------------------------------------------

(* What the variables hold; the program only enables events it holds, and   *)
(* only events that are enabled have deliveries to see.                     *)
TypeOK ==
  /\ flags \in [Slots -> Flag]
  /\ info \in [Slots -> Request]
  /\ pc \in {"idle", "openFlags", "openHandler", "enable", "disable",
             "wait", "answer", "undeliver"}
  /\ cur \in Slots
  /\ req \in Request
  /\ asked \in [Slots -> SUBSET Request]
  /\ on \subseteq {s \in Slots : asked[s] # {}}
  /\ unseen \subseteq on

(* Between calls a slot of the table is in use if and only if the program   *)
(* holds the event opened there: no call revives a closed event, and none   *)
(* loses a slot (events.c:71, 101, 107, 113, 133).                          *)
SlotsAccounted ==
  pc \notin {"openFlags", "openHandler"} =>
    \A s \in Slots : flags[s] = FREE <=> asked[s] = {}

(* A delivery to an event the program has enabled is pending until a test   *)
(* or a wait answers it, the program disables or closes the event, enables  *)
(* it anew, or undelivers it, wherever the interrupt came                   *)
(* (events.c:82-97, 117-152).                                               *)
NoDeliveryLost == \A s \in unseen : flags[s] = PENDING

(* An interrupt, at any point, would call only callbacks the program gave   *)
(* for that class and spec to an event that it has enabled and not closed:  *)
(* never what the slot held before (events.c:69-80, 88-92).                 *)
CallsAreAsked ==
  \A w \in Whats : \A s \in Called(w) :
    /\ s \in on
    /\ [what |-> w, mode |-> CALLBACK, handler |-> info[s].handler] \in asked[s]

(* Every slot is whose it was opened for, and every delivery to it is seen  *)
(* or called (kernel/events.c).                                             *)
EventsDelivered == TypeOK /\ SlotsAccounted /\ NoDeliveryLost /\ CallsAreAsked

(* A wait that began for an event without a callback is answered            *)
(* (events.c:146-150).                                                      *)
WaitReturns ==
  \A s \in Slots :
    pc = "wait" /\ cur = s /\ info[s].mode = NO_CALLBACK ~> pc = "idle"

=============================================================================
