---------------------------- MODULE KernelProofs ----------------------------
(***************************************************************************)
(* Proofs about the card driver, the allocator and the CD-ROM driver of    *)
(* OpenBIOS, which share no variable.                                      *)
(*                                                                         *)
(* Each part has an inductive invariant of its own:                        *)
(*   CardInv   what the program at its place and the driver have of each   *)
(*             other: every request is answered once, a wait sees its own; *)
(*   AllocInv  the list of blocks is in the order of the heap, its blocks  *)
(*             are those held and, until realloc has grown a block in      *)
(*             place, none reaches into the next;                          *)
(*   CdInv     per place of the program, which command the machine is in   *)
(*             and what the drive still has to raise for it.               *)
(***************************************************************************)
EXTENDS CardDriver, Alloc, CdRom, SequenceTheorems, WellFoundedInduction, TLAPS

(* The driver's memory, field by field. *)
Fields == {"flags", "op", "inProgress", "flip", "last", "gotError", "skip",
           "fast", "on", "failed", "bu", "count", "state", "sector", "ok",
           "errors", "started", "steps", "answers", "triggers", "result"}
Typed(s) ==
  /\ DOMAIN s = Fields
  /\ s.flags \in [Port -> Asked \cup {IDLE}]
  /\ s.op \in 0 .. 13 /\ s.steps \in Nat
  /\ s.flip \in Port /\ s.last \in Port
  /\ s.inProgress \in BOOLEAN /\ s.on \in BOOLEAN /\ s.fast \in BOOLEAN
  /\ s.gotError \in BOOLEAN /\ s.skip \in BOOLEAN /\ s.failed \in BOOLEAN
  /\ s.started \in BOOLEAN
  /\ s.bu \in [Port -> {0, 1, 2, 3, 4, 7}] /\ s.count \in [Port -> Nat]
  /\ s.state \in [Port -> 0 .. 3]
  /\ s.sector \in [Port -> 0 .. DirSectors + BrokenSectors]
  /\ s.ok \in BOOLEAN /\ s.errors \subseteq 0 .. 2 /\ s.result \in 0 .. 3
  /\ s.answers \in [Port -> Nat] /\ s.triggers \in [Port -> Nat]

(* A port: its request is answered once, and its chain of sectors goes on   *)
(* and is announced once.                                                   *)
PortGood(s, p) ==
  /\ s.answers[p] = IF Busy(s, p) THEN 0 ELSE 1
  /\ s.triggers[p] = IF s.bu[p] # 0 THEN 0 ELSE 1
  /\ s.bu[p] # 0 => Busy(s, p)
  /\ s.bu[p] = 4 => s.state[p] # 0

(* The transaction that is going on. *)
TransactionGood(s) ==
  /\ s.on = s.inProgress
  /\ s.inProgress => /\ s.op = s.steps /\ s.op >= 1
                     /\ Busy(s, s.flip) /\ s.op < LastOp(s.flags[s.flip])
                     /\ ~s.gotError
  /\ s.on /\ s.fast => s.op = FastAfter(s.flags[s.flip])

(* What a program that waits for port p may rely on. *)
WaitGood(s, p) ==
  /\ ~Busy(s, 1 - p) /\ s.bu[p] \in {0, 1}
  /\ Busy(s, p) => ~s.ok /\ s.errors = {} /\ s.result = 0
  /\ ~Busy(s, p) => IF s.result = 0 THEN s.ok /\ s.errors = {}
                    ELSE ~s.ok /\ s.errors = {s.result - 1}

(* What a program inside the driver finds between two calls. *)
InsideGood(s) ==
  /\ \A p \in Port : ~Busy(s, p)
  /\ ~s.ok /\ s.errors = {} /\ s.result = 0

(* What the program at place th and the driver have of each other. *)
RequestsGood(s, th) ==
  /\ Typed(s)
  /\ \A p \in Port : PortGood(s, p)
  /\ ~(Busy(s, 0) /\ Busy(s, 1))
  /\ th \in Port => WaitGood(s, th)
  /\ th = INSIDE => InsideGood(s)

CardInv ==
  /\ line \in {"quiet", "sent", "good", "new", "failed", "wrong", "refused"}
  /\ thread \in {OUTSIDE, INSIDE} \cup Port
  /\ RequestsGood(d, thread) /\ TransactionGood(d)

-----------------------------------------------------------------------------
(* The parts of the driver's memory that one step can leave alone: a port,  *)
(* the transaction but for its bytes, and the status words.                 *)

SamePort(s, t, q) ==
  /\ t.flags[q] = s.flags[q] /\ t.bu[q] = s.bu[q] /\ t.state[q] = s.state[q]
  /\ t.answers[q] = s.answers[q] /\ t.triggers[q] = s.triggers[q]
SameOthers(s, t, p) == \A q \in Port \ {p} : SamePort(s, t, q)
SameTransaction(s, t) ==
  /\ t.inProgress = s.inProgress /\ t.on = s.on /\ t.flip = s.flip
  /\ t.gotError = s.gotError /\ t.last = s.last /\ t.started = s.started
SameStatus(s, t) ==
  t.ok = s.ok /\ t.errors = s.errors /\ t.result = s.result

LEMMA FinishFields ==
  ASSUME NEW s, Typed(s), NEW p \in Port
  PROVE  LET t == buFinishAndTrigger(s, p)
         IN  /\ Typed(t) /\ SameTransaction(s, t) /\ SameStatus(s, t)
             /\ SameOthers(s, t, p)
             /\ t.flags = s.flags /\ t.answers = s.answers
             /\ t.bu[p] = 0 /\ t.triggers[p] = s.triggers[p] + 1
<1> DEFINE t == buFinishAndTrigger(s, p)
<1>1. DirSectors + BrokenSectors \in Nat
  BY CardAssumption
<1>2. /\ DOMAIN t = Fields
      /\ t.bu = [s.bu EXCEPT ![p] = 0] /\ t.state = [s.state EXCEPT ![p] = 0]
      /\ t.sector = [s.sector EXCEPT ![p] = 0]
      /\ t.triggers = [s.triggers EXCEPT ![p] = @ + 1]
      /\ t.flags = s.flags /\ t.answers = s.answers /\ t.count = s.count
      /\ t.op = s.op /\ t.steps = s.steps /\ t.skip = s.skip
      /\ t.fast = s.fast /\ t.failed = s.failed
      /\ SameTransaction(s, t) /\ SameStatus(s, t)
  BY SMT DEF buFinishAndTrigger, Typed, Fields, SameTransaction, SameStatus
<1> HIDE DEF t
<1>3. Typed(t)
  BY <1>1, <1>2, SMT DEF Typed, Port, SameTransaction, SameStatus
<1>4. /\ SameOthers(s, t, p)
      /\ t.bu[p] = 0 /\ t.triggers[p] = s.triggers[p] + 1
  BY <1>1, <1>2, SMT DEF Typed, Port, SameOthers, SamePort
<1> QED BY <1>2, <1>3, <1>4 DEF t

LEMMA IssueFields ==
  ASSUME NEW s, Typed(s), NEW p \in Port, NEW what \in Asked, ~Busy(s, p)
  PROVE  LET t == Issue(s, p, what)
         IN  /\ Typed(t) /\ SameTransaction(s, t) /\ SameStatus(s, t)
             /\ SameOthers(s, t, p)
             /\ t.bu = s.bu /\ t.state = s.state /\ t.triggers = s.triggers
             /\ t.count = s.count /\ t.sector = s.sector
             /\ t.flags[p] = what /\ t.answers[p] = 0
<1> DEFINE t == Issue(s, p, what)
<1>1. /\ DOMAIN t = Fields
      /\ t.flags = [s.flags EXCEPT ![p] = what]
      /\ t.answers = [s.answers EXCEPT ![p] = 0] /\ t.op = 0
      /\ t.bu = s.bu /\ t.state = s.state /\ t.sector = s.sector
      /\ t.triggers = s.triggers /\ t.count = s.count
      /\ t.steps = s.steps /\ t.skip = s.skip
      /\ t.fast = s.fast /\ t.failed = s.failed
      /\ SameTransaction(s, t) /\ SameStatus(s, t)
  BY SMT DEF Issue, IssueBusy, Accepts, Typed, Fields, SameTransaction,
             SameStatus
<1> HIDE DEF t
<1>2. Typed(t)
  BY <1>1, SMT DEF Typed, Port, SameTransaction, SameStatus
<1>3. SameOthers(s, t, p) /\ t.flags[p] = what /\ t.answers[p] = 0
  BY <1>1, SMT DEF Typed, Port, SameOthers, SamePort
<1> QED BY <1>1, <1>2, <1>3 DEF t

-----------------------------------------------------------------------------
(* A callback runs when its request is off the port and not yet answered.   *)

Ready(s) ==
  /\ Typed(s)
  /\ s.flags[s.last] = IDLE /\ s.answers[s.last] = 0
  /\ s.triggers[s.last] = IF s.bu[s.last] # 0 THEN 0 ELSE 1
  /\ s.bu[s.last] = 4 => s.state[s.last] # 0

(* What it says of how it went. *)
Told(s, t, how) ==
  /\ t.result = how
  /\ IF how = 0 THEN t.ok /\ t.errors = s.errors
     ELSE t.ok = s.ok /\ t.errors = s.errors \cup {how - 1}

(* A chain of sectors of port p goes on or ends. *)
Resumes(s, t, p) ==
  /\ Typed(t) /\ SameTransaction(s, t) /\ SameOthers(s, t, p)
  /\ PortGood(t, p)

Called(s, t, how) ==
  /\ Resumes(s, t, s.last)
  /\ s.bu[s.last] \in {0, 1}
       => t.flags[s.last] = IDLE /\ t.bu[s.last] = 0 /\ Told(s, t, how)

LEMMA AnsweredFields ==
  ASSUME NEW s, Typed(s), NEW how \in 0 .. 3
  PROVE  LET t == Answered(s, how)
         IN  /\ Typed(t) /\ SameTransaction(s, t) /\ SameOthers(s, t, s.last)
             /\ t.flags = s.flags /\ t.bu = s.bu /\ t.state = s.state
             /\ t.triggers = s.triggers
             /\ t.answers[s.last] = s.answers[s.last] + 1
             /\ t.ok = s.ok /\ t.errors = s.errors /\ t.result = how
<1> DEFINE t == Answered(s, how)
<1>1. /\ DOMAIN t = Fields
      /\ t.answers = [s.answers EXCEPT ![s.last] = @ + 1]
      /\ t.result = how /\ t.ok = s.ok /\ t.errors = s.errors
      /\ t.flags = s.flags /\ t.op = s.op
      /\ t.bu = s.bu /\ t.state = s.state /\ t.sector = s.sector
      /\ t.triggers = s.triggers /\ t.count = s.count
      /\ t.steps = s.steps /\ t.skip = s.skip
      /\ t.fast = s.fast /\ t.failed = s.failed
      /\ SameTransaction(s, t)
  BY SMT DEF Answered, Typed, Fields, SameTransaction
<1> HIDE DEF t
<1>2. Typed(t)
  BY <1>1, SMT DEF Typed, Port, SameTransaction
<1>3. SameOthers(s, t, s.last) /\ t.answers[s.last] = s.answers[s.last] + 1
  BY <1>1, SMT DEF Typed, Port, SameOthers, SamePort
<1> QED BY <1>1, <1>2, <1>3 DEF t

(* buLowLevelOpError1, 2 and 3 end what the layer above was doing. *)
LEMMA ErrorCalled ==
  ASSUME NEW s, Ready(s), NEW i \in 1 .. 3
  PROVE  Called(s, buLowLevelOpError(s, i), i)
<1> DEFINE p == s.last
           a == Answered(s, i)
           u == [a EXCEPT !.errors = @ \cup {i - 1}]
<1>1. /\ Typed(s) /\ p \in Port /\ i \in 0 .. 3
      /\ s.flags[p] = IDLE /\ s.answers[p] = 0
      /\ s.triggers[p] = IF s.bu[p] # 0 THEN 0 ELSE 1
  BY SMT DEF Ready, Typed
<1>2. /\ Typed(a) /\ SameTransaction(s, a) /\ SameOthers(s, a, p)
      /\ a.flags = s.flags /\ a.bu = s.bu /\ a.triggers = s.triggers
      /\ a.answers[p] = s.answers[p] + 1
      /\ a.ok = s.ok /\ a.errors = s.errors /\ a.result = i
  BY <1>1, AnsweredFields
<1> HIDE DEF a
<1>3. /\ Typed(u) /\ SameTransaction(a, u) /\ SameOthers(a, u, p)
      /\ u.flags = a.flags /\ u.bu = a.bu /\ u.triggers = a.triggers
      /\ u.answers = a.answers
      /\ u.ok = a.ok /\ u.errors = a.errors \cup {i - 1} /\ u.result = a.result
  BY <1>2, SMT DEF Typed, Fields, SameTransaction, SameOthers, SamePort
<1> HIDE DEF u
<1>4. buLowLevelOpError(s, i)
        = IF u.bu[p] # 0 THEN buFinishAndTrigger(u, p) ELSE u
  <2>1. u.last = p
    BY <1>2, <1>3 DEF SameTransaction
  <2> QED BY <2>1 DEF buLowLevelOpError, a, u
<1>5. CASE u.bu[p] # 0
  <2> DEFINE t == buFinishAndTrigger(u, p)
  <2>1. /\ Typed(t) /\ SameTransaction(u, t) /\ SameStatus(u, t)
        /\ SameOthers(u, t, p)
        /\ t.flags = u.flags /\ t.answers = u.answers
        /\ t.bu[p] = 0 /\ t.triggers[p] = u.triggers[p] + 1
    BY <1>1, <1>3, FinishFields
  <2> HIDE DEF t
  <2>2. Resumes(s, t, p)
    <3>1. SameTransaction(s, t) /\ SameOthers(s, t, p)
      BY <1>2, <1>3, <2>1, SMT DEF SameTransaction, SameOthers, SamePort
    <3>2. PortGood(t, p)
      BY <1>1, <1>2, <1>3, <1>5, <2>1, SMT DEF PortGood, Busy, Asked, IDLE, INFO, READ, WRITE
    <3> QED BY <2>1, <3>1, <3>2 DEF Resumes
  <2>3. Told(s, t, i) /\ t.flags[p] = IDLE /\ t.bu[p] = 0
    BY <1>1, <1>2, <1>3, <2>1, SMT DEF Told, SameStatus
  <2> QED BY <1>4, <1>5, <2>2, <2>3 DEF Called, t
<1>6. CASE u.bu[p] = 0
  <2>1. Resumes(s, u, p)
    <3>1. SameTransaction(s, u) /\ SameOthers(s, u, p)
      BY <1>2, <1>3, SMT DEF SameTransaction, SameOthers, SamePort
    <3>2. PortGood(u, p)
      BY <1>1, <1>2, <1>3, <1>6, SMT DEF PortGood, Busy, Asked, IDLE, INFO, READ, WRITE
    <3> QED BY <1>3, <3>1, <3>2 DEF Resumes
  <2>2. Told(s, u, i) /\ u.flags[p] = IDLE /\ u.bu[p] = 0
    BY <1>1, <1>2, <1>3, <1>6, SMT DEF Told
  <2> QED BY <1>4, <1>6, <2>1, <2>2 DEF Called
<1> QED BY <1>5, <1>6

(* The chain of port p has an answer, and is at its next step. *)
Open(u, p) ==
  /\ Typed(u) /\ u.flags[p] = IDLE /\ u.answers[p] = 1
  /\ u.bu[p] # 0 /\ u.triggers[p] = 0

LEMMA IdleIsNotBusy ==
  ASSUME NEW s, NEW p, s.flags[p] = IDLE
  PROVE  ~Busy(s, p)
  BY SMT DEF Busy, Asked, IDLE, INFO, READ, WRITE

(* The end of a chain. *)
LEMMA FinishResumes ==
  ASSUME NEW u, NEW p \in Port, Open(u, p)
  PROVE  /\ Resumes(u, buFinishAndTrigger(u, p), p)
         /\ SameStatus(u, buFinishAndTrigger(u, p))
         /\ buFinishAndTrigger(u, p).flags[p] = IDLE
         /\ buFinishAndTrigger(u, p).bu[p] = 0
<1> DEFINE t == buFinishAndTrigger(u, p)
<1>1. /\ Typed(t) /\ SameTransaction(u, t) /\ SameStatus(u, t)
      /\ SameOthers(u, t, p)
      /\ t.flags = u.flags /\ t.answers = u.answers
      /\ t.bu[p] = 0 /\ t.triggers[p] = u.triggers[p] + 1
  BY FinishFields DEF Open
<1> HIDE DEF t
<1>2. PortGood(t, p)
  BY <1>1, IdleIsNotBusy, SMT DEF Open, PortGood
<1> QED BY <1>1, <1>2 DEF Resumes, Open, t

(* The next sector of a directory, or the end of it. *)
LEMMA TOCResumes ==
  ASSUME NEW u, NEW p \in Port, Open(u, p), u.bu[p] = 4, u.state[p] # 0,
         NEW mc \in BOOLEAN
  PROVE  Resumes(u, NextOfTOC(u, p, mc), p)
<1> DEFINE next == u.sector[p] + 1
           On(state, sector) == [Issue(u, p, READ) EXCEPT !.state[p] = state,
                                                          !.sector[p] = sector]
<1>1. ASSUME NEW state \in 1 .. 3, NEW sector \in 0 .. DirSectors + BrokenSectors
      PROVE  Resumes(u, On(state, sector), p)
  <2> DEFINE v == Issue(u, p, READ)
             t == On(state, sector)
  <2>1. /\ Typed(v) /\ SameTransaction(u, v) /\ SameOthers(u, v, p)
        /\ v.bu = u.bu /\ v.triggers = u.triggers
        /\ v.flags[p] = READ /\ v.answers[p] = 0
    BY IssueFields, IdleIsNotBusy DEF Open, Asked
  <2> HIDE DEF v
  <2>2. /\ t.state = [v.state EXCEPT ![p] = state]
        /\ t.sector = [v.sector EXCEPT ![p] = sector]
        /\ DOMAIN t = Fields /\ SameTransaction(v, t) /\ SameStatus(v, t)
        /\ t.flags = v.flags /\ t.answers = v.answers /\ t.bu = v.bu
        /\ t.triggers = v.triggers /\ t.count = v.count
        /\ t.op = v.op /\ t.steps = v.steps /\ t.skip = v.skip
        /\ t.fast = v.fast /\ t.failed = v.failed
    BY <2>1, SMT DEF Typed, Fields, SameTransaction, SameStatus, v
  <2> HIDE DEF t
  <2>3. Typed(t)
    BY <2>1, <2>2, <1>1, SMT DEF Typed, Port, SameTransaction, SameStatus
  <2>4. SameTransaction(u, t) /\ SameOthers(u, t, p)
    BY <2>1, <2>2, SMT DEF SameTransaction, SameOthers, SamePort, Typed, Port
  <2>5. PortGood(t, p)
    BY <2>1, <2>2, SMT
       DEF Open, PortGood, Busy, Asked, IDLE, INFO, READ, WRITE, Typed, Port
  <2> QED BY <2>3, <2>4, <2>5 DEF Resumes, t
<1> HIDE DEF On
<1>2. /\ u.sector[p] \in Nat /\ u.state[p] \in 1 .. 3
      /\ DirSectors \in Nat /\ BrokenSectors \in Nat
  BY CardAssumption, SMT DEF Open, Typed, Port
<1>3. CASE u.state[p] = 1 /\ mc
  <2>1. NextOfTOC(u, p, mc) = On(2, 0)
    BY <1>3 DEF NextOfTOC, On
  <2> QED BY <1>1, <1>2, <2>1, SMT
<1>4. CASE u.state[p] = 1 /\ ~mc
  <2> DEFINE e == Error(u, 2)
  <2>1. /\ Typed(e) /\ SameTransaction(u, e) /\ SameOthers(u, e, p)
        /\ e.flags = u.flags /\ e.answers = u.answers /\ e.bu = u.bu
        /\ e.triggers = u.triggers
    BY SMT DEF Open, Error, Typed, Fields, SameTransaction, SameOthers, SamePort
  <2> HIDE DEF e
  <2>2. Open(e, p)
    BY <2>1 DEF Open
  <2>3. Resumes(e, buFinishAndTrigger(e, p), p)
    BY <2>2, FinishResumes
  <2>4. Resumes(u, buFinishAndTrigger(e, p), p)
    BY <2>1, <2>3, SMT DEF Resumes, SameTransaction, SameOthers, SamePort
  <2>5. NextOfTOC(u, p, mc) = buFinishAndTrigger(e, p)
    BY <1>4 DEF NextOfTOC, e
  <2> QED BY <2>4, <2>5
<1>5. CASE u.state[p] = 2 /\ next < DirSectors
  <2>1. NextOfTOC(u, p, mc) = On(2, next)
    BY <1>5 DEF NextOfTOC, On
  <2>2. next \in 0 .. DirSectors + BrokenSectors
    BY <1>2, <1>5, SMT
  <2> QED BY <1>1, <2>1, <2>2
<1>6. CASE u.state[p] = 2 /\ ~(next < DirSectors)
  <2>1. NextOfTOC(u, p, mc) = On(3, 0)
    BY <1>6 DEF NextOfTOC, On
  <2> QED BY <1>1, <1>2, <2>1, SMT
<1>7. CASE u.state[p] = 3 /\ next < BrokenSectors
  <2>1. NextOfTOC(u, p, mc) = On(3, next)
    BY <1>7 DEF NextOfTOC, On
  <2>2. next \in 0 .. DirSectors + BrokenSectors
    BY <1>2, <1>7, SMT
  <2> QED BY <1>1, <2>1, <2>2
<1>8. CASE u.state[p] = 3 /\ ~(next < BrokenSectors)
  <2>1. NextOfTOC(u, p, mc) = buFinishAndTrigger(u, p)
    BY <1>8 DEF NextOfTOC
  <2> QED BY <2>1, FinishResumes
<1> QED BY <1>2, <1>3, <1>4, <1>5, <1>6, <1>7, <1>8, SMT

(* The next sector of a transfer, the card asked once more after a write,   *)
(* or the end.                                                              *)
LEMMA TransferResumes ==
  ASSUME NEW u, NEW p \in Port, Open(u, p), u.bu[p] \in {2, 3}
  PROVE  Resumes(u, NextOfTransfer(u, p), p)
<1> DEFINE Others(v, t) ==
             /\ SameTransaction(v, t)
             /\ t.errors = v.errors /\ t.result = v.result
             /\ t.flags = v.flags /\ t.answers = v.answers
             /\ t.state = v.state /\ t.sector = v.sector
             /\ t.triggers = v.triggers
             /\ t.op = v.op /\ t.steps = v.steps /\ t.skip = v.skip
             /\ t.fast = v.fast /\ t.failed = v.failed
<1>1. ASSUME NEW what \in Asked, NEW t, DOMAIN t = Fields,
             t.ok \in BOOLEAN, t.count \in [Port -> Nat],
             NEW bu \in {2, 3, 7}, t.bu = [u.bu EXCEPT ![p] = bu],
             Others(Issue(u, p, what), t)
      PROVE  Resumes(u, t, p)
  <2> DEFINE v == Issue(u, p, what)
  <2>1. /\ Typed(v) /\ SameTransaction(u, v) /\ SameOthers(u, v, p)
        /\ v.triggers = u.triggers
        /\ v.flags[p] = what /\ v.answers[p] = 0
    BY IssueFields, IdleIsNotBusy DEF Open
  <2> HIDE DEF v
  <2>2. Others(v, t)
    BY <1>1 DEF v
  <2>3. Typed(t)
    BY <1>1, <2>1, <2>2, SMT DEF Open, Typed, Port, SameTransaction
  <2>4. SameTransaction(u, t) /\ SameOthers(u, t, p)
    BY <1>1, <2>1, <2>2, SMT
       DEF Open, SameTransaction, SameOthers, SamePort, Typed, Port
  <2>5. PortGood(t, p)
    BY <1>1, <2>1, <2>2, SMT DEF Open, PortGood, Busy, Typed, Port
  <2> QED BY <2>3, <2>4, <2>5 DEF Resumes
<1>2. /\ u.count \in [Port -> Nat] /\ u.ok \in BOOLEAN
      /\ u.bu \in [Port -> {0, 1, 2, 3, 4, 7}]
  BY DEF Open, Typed
<1>3. CASE u.count[p] > 1
  <2> DEFINE what == IF u.bu[p] = 2 THEN READ ELSE WRITE
             v == Issue(u, p, what)
             t == [v EXCEPT !.count[p] = @ - 1]
  <2>1. NextOfTransfer(u, p) = t
    BY <1>3 DEF NextOfTransfer
  <2>2. what \in Asked
    BY DEF Asked
  <2> HIDE DEF what
  <2>3. /\ v.count = u.count /\ v.ok = u.ok /\ v.bu = u.bu /\ DOMAIN v = Fields
    BY <2>2, IssueFields, IdleIsNotBusy DEF Open, SameStatus, Typed
  <2> HIDE DEF v
  <2>4. /\ DOMAIN t = Fields /\ t.ok = u.ok /\ t.bu = u.bu
        /\ t.count = [u.count EXCEPT ![p] = @ - 1]
        /\ Others(v, t)
    BY <2>3, SMT DEF Fields, SameTransaction
  <2> HIDE DEF t
  <2>5. t.count \in [Port -> Nat]
    BY <1>2, <1>3, <2>4, SMT
  <2>6. t.bu = [u.bu EXCEPT ![p] = u.bu[p]] /\ u.bu[p] \in {2, 3, 7}
    BY <1>2, <2>4, SMT
  <2> QED BY <1>1, <1>2, <2>1, <2>2, <2>4, <2>5, <2>6 DEF v
<1>4. CASE ~(u.count[p] > 1) /\ u.bu[p] = 2
  <2> DEFINE e == [u EXCEPT !.count[p] = 0]
  <2>1. /\ Typed(e) /\ SameTransaction(u, e) /\ SameOthers(u, e, p)
        /\ e.flags = u.flags /\ e.answers = u.answers /\ e.bu = u.bu
        /\ e.triggers = u.triggers
    BY SMT DEF Open, Typed, Fields, SameTransaction, SameOthers, SamePort, Port
  <2> HIDE DEF e
  <2>2. Open(e, p)
    BY <2>1 DEF Open
  <2>3. Resumes(e, buFinishAndTrigger(e, p), p)
    BY <2>2, FinishResumes
  <2>4. Resumes(u, buFinishAndTrigger(e, p), p)
    BY <2>1, <2>3, SMT DEF Resumes, SameTransaction, SameOthers, SamePort
  <2>5. NextOfTransfer(u, p) = buFinishAndTrigger(e, p)
    BY <1>4 DEF NextOfTransfer, e
  <2> QED BY <2>4, <2>5
<1>5. CASE ~(u.count[p] > 1) /\ u.bu[p] = 3
  <2> DEFINE v == Issue(u, p, INFO)
             t == [v EXCEPT !.ok = FALSE, !.count[p] = 0, !.bu[p] = 7]
  <2>1. NextOfTransfer(u, p) = t
    BY <1>5 DEF NextOfTransfer
  <2>2. /\ v.count = u.count /\ v.bu = u.bu /\ DOMAIN v = Fields
        /\ INFO \in Asked
    BY IssueFields, IdleIsNotBusy DEF Open, Typed, Asked
  <2> HIDE DEF v
  <2>3. /\ DOMAIN t = Fields /\ t.ok = FALSE
        /\ t.count = [u.count EXCEPT ![p] = 0]
        /\ t.bu = [u.bu EXCEPT ![p] = 7]
        /\ Others(v, t)
    <3>1. DOMAIN t = Fields /\ t.ok = FALSE
      BY <2>2, SMT DEF Fields
    <3>2. t.count = [u.count EXCEPT ![p] = 0]
      BY <2>2, SMT DEF Fields
    <3>3. t.bu = [u.bu EXCEPT ![p] = 7]
      BY <2>2, SMT DEF Fields
    <3>4. Others(v, t)
      BY <2>2, SMT DEF Fields, SameTransaction
    <3> QED BY <3>1, <3>2, <3>3, <3>4
  <2> HIDE DEF t
  <2>4. t.count \in [Port -> Nat] /\ 7 \in {2, 3, 7}
    BY <1>2, <2>3, SMT
  <2>5. Resumes(u, t, p)
    BY <1>1, <2>2, <2>3, <2>4 DEF v
  <2> QED BY <2>1, <2>5
<1> QED BY <1>3, <1>4, <1>5

(* buLowLevelOpCompleted *)
LEMMA CompletedCalled ==
  ASSUME NEW s, Ready(s), NEW mc \in BOOLEAN
  PROVE  Called(s, buLowLevelOpCompleted(s, mc), 0)
<1> DEFINE p == s.last
           a == Answered(s, 0)
           u == [a EXCEPT !.ok = TRUE]
           t == buLowLevelOpCompleted(s, mc)
<1>1. /\ Typed(s) /\ p \in Port /\ s.bu[p] \in {0, 1, 2, 3, 4, 7}
      /\ s.flags[p] = IDLE /\ s.answers[p] = 0
      /\ s.triggers[p] = IF s.bu[p] # 0 THEN 0 ELSE 1
      /\ s.bu[p] = 4 => s.state[p] # 0
  BY SMT DEF Ready, Typed
<1>2. /\ Typed(a) /\ SameTransaction(s, a) /\ SameOthers(s, a, p)
      /\ a.flags = s.flags /\ a.bu = s.bu /\ a.triggers = s.triggers
      /\ a.state = s.state /\ a.answers[p] = s.answers[p] + 1
      /\ a.errors = s.errors /\ a.result = 0
  <2>1. 0 \in 0 .. 3
    BY SMT
  <2> QED BY <1>1, <2>1, AnsweredFields
<1> HIDE DEF a
<1>3. /\ Typed(u) /\ SameTransaction(a, u) /\ SameOthers(a, u, p)
      /\ u.flags = a.flags /\ u.bu = a.bu /\ u.triggers = a.triggers
      /\ u.answers = a.answers /\ u.state = a.state
      /\ u.ok = TRUE /\ u.errors = a.errors /\ u.result = a.result
  BY <1>2, SMT DEF Typed, Fields, SameTransaction, SameOthers, SamePort
<1> HIDE DEF u
<1>4. t = CASE u.bu[p] = 0 -> u
            [] u.bu[p] \in {1, 7} -> buFinishAndTrigger(u, p)
            [] u.bu[p] \in {2, 3} -> NextOfTransfer(u, p)
            [] u.bu[p] = 4 -> NextOfTOC(u, p, mc)
  <2>1. u.last = p
    BY <1>2, <1>3 DEF SameTransaction
  <2> QED BY <2>1 DEF buLowLevelOpCompleted, a, u
<1>5. /\ u.flags[p] = IDLE /\ u.answers[p] = 1 /\ u.bu[p] = s.bu[p]
      /\ u.bu[p] # 0 => Open(u, p)
      /\ u.bu[p] = 4 => u.state[p] # 0
      /\ Told(s, u, 0)
  BY <1>1, <1>2, <1>3, SMT DEF Open, Told
<1>6. ASSUME NEW v, Resumes(u, v, p) PROVE Resumes(s, v, p)
  BY <1>2, <1>3, <1>6, SMT DEF Resumes, SameTransaction, SameOthers, SamePort
<1> HIDE DEF t
<1>7. CASE u.bu[p] = 0
  <2>1. t = u
    BY <1>4, <1>7
  <2>2. PortGood(u, p)
    BY <1>1, <1>2, <1>3, <1>5, <1>7, IdleIsNotBusy DEF PortGood
  <2>3. Resumes(s, u, p)
    BY <1>2, <1>3, <2>2, SMT DEF Resumes, SameTransaction, SameOthers, SamePort
  <2> QED BY <1>5, <1>7, <2>1, <2>3 DEF Called, t
<1>8. CASE u.bu[p] \in {1, 7}
  <2>1. t = buFinishAndTrigger(u, p)
    BY <1>4, <1>8
  <2>2. Resumes(u, t, p) /\ SameStatus(u, t) /\ t.flags[p] = IDLE /\ t.bu[p] = 0
    BY <1>1, <1>5, <1>8, <2>1, FinishResumes
  <2> QED BY <1>5, <1>6, <2>2, Zenon DEF Called, Told, SameStatus, t
<1>9. CASE u.bu[p] \in {2, 3}
  <2>1. t = NextOfTransfer(u, p)
    BY <1>4, <1>9
  <2>2. Resumes(u, t, p)
    BY <1>1, <1>5, <1>9, <2>1, TransferResumes
  <2> QED BY <1>5, <1>6, <1>9, <2>2 DEF Called, t
<1>10. CASE u.bu[p] = 4
  <2>1. t = NextOfTOC(u, p, mc)
    BY <1>4, <1>10
  <2>2. Resumes(u, t, p)
    BY <1>1, <1>5, <1>10, <2>1, TOCResumes
  <2> QED BY <1>5, <1>6, <1>10, <2>2 DEF Called, t
<1> QED BY <1>1, <1>5, <1>7, <1>8, <1>9, <1>10

-----------------------------------------------------------------------------
(* The ends of a transaction.  Finished: its request has been answered, and *)
(* nothing but its port and the status words has changed.                   *)

Finished(s, t) ==
  /\ Typed(t) /\ t.flip = s.flip /\ SameOthers(s, t, s.flip)
  /\ PortGood(t, s.flip)
  /\ s.bu[s.flip] \in {0, 1}
       => /\ t.flags[s.flip] = IDLE /\ t.bu[s.flip] = 0
          /\ \E how \in 0 .. 3 : Told(s, t, how)
Over(t) == t.inProgress = FALSE /\ t.on = FALSE

(* A transaction of a port that has one request. *)
Underway(s) == Typed(s) /\ Busy(s, s.flip) /\ PortGood(s, s.flip)

(* What TellsAtOnce, Done and Fails write beside the call of a callback. *)
Quietly(s, t) ==
  /\ Typed(t) /\ t.flip = s.flip
  /\ t.flags = s.flags /\ t.bu = s.bu /\ t.state = s.state
  /\ t.answers = s.answers /\ t.triggers = s.triggers /\ SameStatus(s, t)

LEMMA QuietlyFinished ==
  ASSUME NEW s, NEW u, NEW t, Finished(s, u), Quietly(u, t)
  PROVE  Finished(s, t)
  BY ZenonT(60) DEF Finished, Quietly, SameOthers, SamePort, PortGood, Told, SameStatus, Busy

LEMMA DoneFields ==
  ASSUME NEW s, Typed(s)
  PROVE  Quietly(s, Done(s)) /\ Over(Done(s)) /\ Done(s).gotError = s.gotError
<1> DEFINE t == Done(s)
<1>1. /\ DOMAIN t = Fields /\ t.inProgress = FALSE /\ t.op = 0 /\ t.on = FALSE
      /\ t.failed = FALSE /\ t.steps = 0
      /\ t.flags = s.flags /\ t.flip = s.flip /\ t.last = s.last
      /\ t.gotError = s.gotError /\ t.skip = s.skip /\ t.fast = s.fast
      /\ t.started = s.started /\ t.bu = s.bu /\ t.count = s.count
      /\ t.state = s.state /\ t.sector = s.sector /\ SameStatus(s, t)
      /\ t.answers = s.answers /\ t.triggers = s.triggers
  BY SMT DEF Done, Typed, Fields, SameStatus
<1> HIDE DEF t
<1>2. Typed(t)
  <2>1. /\ t.inProgress \in BOOLEAN /\ t.on \in BOOLEAN /\ t.failed \in BOOLEAN
        /\ t.gotError \in BOOLEAN /\ t.skip \in BOOLEAN /\ t.fast \in BOOLEAN
        /\ t.started \in BOOLEAN /\ t.ok \in BOOLEAN
    BY <1>1, Zenon DEF Typed, SameStatus
  <2> QED BY <1>1, <2>1, SMT DEF Typed, SameStatus
<1> QED BY <1>1, <1>2 DEF Quietly, Over, t

(* The request is taken off the port before its callback is called. *)
Released(s) == [s EXCEPT !.skip = FALSE, !.last = s.flip, !.flags[s.flip] = IDLE]

LEMMA ReleasedReady ==
  ASSUME NEW s, Underway(s)
  PROVE  /\ Ready(Released(s)) /\ Released(s).last = s.flip
         /\ Released(s).flip = s.flip
         /\ Released(s).inProgress = s.inProgress /\ Released(s).on = s.on
         /\ Released(s).gotError = s.gotError
         /\ SameOthers(s, Released(s), s.flip) /\ SameStatus(s, Released(s))
         /\ Released(s).bu = s.bu
<1> DEFINE t == Released(s)
<1>1. /\ DOMAIN t = Fields /\ t.flags = [s.flags EXCEPT ![s.flip] = IDLE]
      /\ t.last = s.flip /\ t.skip = FALSE
      /\ t.inProgress = s.inProgress /\ t.op = s.op /\ t.on = s.on
      /\ t.failed = s.failed /\ t.steps = s.steps /\ t.flip = s.flip
      /\ t.gotError = s.gotError /\ t.fast = s.fast
      /\ t.started = s.started /\ t.bu = s.bu /\ t.count = s.count
      /\ t.state = s.state /\ t.sector = s.sector /\ SameStatus(s, t)
      /\ t.answers = s.answers /\ t.triggers = s.triggers
  BY SMT DEF Released, Underway, Typed, Fields, SameStatus
<1> HIDE DEF t
<1>2. Typed(t)
  <2>1. /\ t.inProgress \in BOOLEAN /\ t.on \in BOOLEAN /\ t.failed \in BOOLEAN
        /\ t.gotError \in BOOLEAN /\ t.skip \in BOOLEAN /\ t.fast \in BOOLEAN
        /\ t.started \in BOOLEAN /\ t.ok \in BOOLEAN
    BY <1>1, Zenon DEF Underway, Typed, SameStatus
  <2> QED BY <1>1, <2>1, SMT DEF Underway, Typed, SameStatus, Port
<1>3. SameOthers(s, t, s.flip)
  BY <1>1, SMT DEF Underway, Typed, SameOthers, SamePort
<1>4. Ready(t)
  BY <1>1, <1>2, SMT DEF Underway, Typed, Ready, PortGood, Busy
<1> QED BY <1>1, <1>2, <1>3, <1>4 DEF t

LEMMA CalledFinished ==
  ASSUME NEW s, Underway(s), NEW t, NEW how \in 0 .. 3,
         Called(Released(s), t, how)
  PROVE  /\ Finished(s, t) /\ t.inProgress = s.inProgress /\ t.on = s.on
         /\ t.gotError = s.gotError
  BY ReleasedReady, SMT
     DEF Called, Resumes, Finished, SameTransaction, SameOthers, SamePort, Told,
         SameStatus

(* Done does not touch what Underway is about. *)
LEMMA DoneUnderway ==
  ASSUME NEW s, Underway(s)
  PROVE  Underway(Done(s)) /\ \A t : Finished(Done(s), t) => Finished(s, t)
<1>1. Quietly(s, Done(s))
  BY DoneFields DEF Underway
<1>2. Underway(Done(s))
  BY <1>1, Zenon DEF Quietly, Underway, Busy, PortGood
<1>3. ASSUME NEW t, Finished(Done(s), t) PROVE Finished(s, t)
  BY <1>1, <1>3, ZenonT(40) DEF Quietly, Finished, SameOthers, SamePort, Told, SameStatus
<1> QED BY <1>2, <1>3

LEMMA SucceedsFinished ==
  ASSUME NEW s, Underway(s), ~s.gotError, NEW mc \in BOOLEAN
  PROVE  Finished(s, Succeeds(s, mc)) /\ Over(Succeeds(s, mc))
<1> DEFINE e == Done(s)
           t == buLowLevelOpCompleted(Released(e), mc)
<1>1. Succeeds(s, mc) = t
  <2>1. e.flip = s.flip
    BY DoneFields DEF Underway, Quietly
  <2> QED BY <2>1 DEF Succeeds, Released
<1>2. Underway(e) /\ Over(e)
  BY DoneUnderway, DoneFields DEF Underway
<1>3. Called(Released(e), t, 0)
  BY <1>2, ReleasedReady, CompletedCalled
<1>4. 0 \in 0 .. 3
  BY SMT
<1>5. Finished(e, t) /\ Over(t)
  BY <1>2, <1>3, <1>4, CalledFinished DEF Over
<1> QED BY <1>1, <1>5, DoneUnderway

LEMMA GotErrorFields ==
  ASSUME NEW s, Typed(s), NEW b \in BOOLEAN
  PROVE  LET t == [s EXCEPT !.gotError = b]
         IN  /\ Quietly(s, t) /\ t.gotError = b
             /\ t.inProgress = s.inProgress /\ t.on = s.on
<1> DEFINE t == [s EXCEPT !.gotError = b]
<1>1. /\ DOMAIN t = Fields /\ t.gotError = b
      /\ t.inProgress = s.inProgress /\ t.op = s.op /\ t.on = s.on
      /\ t.failed = s.failed /\ t.steps = s.steps
      /\ t.flags = s.flags /\ t.flip = s.flip /\ t.last = s.last
      /\ t.skip = s.skip /\ t.fast = s.fast
      /\ t.started = s.started /\ t.bu = s.bu /\ t.count = s.count
      /\ t.state = s.state /\ t.sector = s.sector /\ SameStatus(s, t)
      /\ t.answers = s.answers /\ t.triggers = s.triggers
  BY SMT DEF Typed, Fields, SameStatus
<1> HIDE DEF t
<1>2. Typed(t)
  BY <1>1, Zenon DEF Typed, SameStatus
<1> QED BY <1>1, <1>2 DEF Quietly, t

(* The card told of an error before the end: its request is answered, and   *)
(* the end must not answer it again.                                        *)
LEMMA TellsFinished ==
  ASSUME NEW s, Underway(s), NEW i \in 1 .. 3
  PROVE  Finished(s, TellsAtOnce(s, i)) /\ TellsAtOnce(s, i).gotError = TRUE
<1> DEFINE t == buLowLevelOpError(Released(s), i)
<1>1. Called(Released(s), t, i)
  BY ReleasedReady, ErrorCalled
<1>2. i \in 0 .. 3
  BY SMT
<1>3. Finished(s, t)
  BY <1>1, <1>2, CalledFinished
<1>4. TellsAtOnce(s, i) = [t EXCEPT !.gotError = TRUE]
  BY DEF TellsAtOnce, Released
<1> HIDE DEF t
<1>5. Quietly(t, [t EXCEPT !.gotError = TRUE])
      /\ [t EXCEPT !.gotError = TRUE].gotError = TRUE
  BY <1>3, GotErrorFields DEF Finished
<1> QED BY <1>3, <1>4, <1>5, QuietlyFinished

LEMMA FailsFinished ==
  ASSUME NEW s, Underway(s), ~s.gotError
  PROVE  Finished(s, Fails(s)) /\ Over(Fails(s))
<1> DEFINE e == Done(s)
           t == buLowLevelOpError(Released(e), 1)
<1>1. Fails(s) = [t EXCEPT !.gotError = FALSE]
  <2>1. e.flip = s.flip
    BY DoneFields DEF Underway, Quietly
  <2> QED BY <2>1 DEF Fails, Released
<1>2. Underway(e) /\ Over(e)
  BY DoneUnderway, DoneFields DEF Underway
<1>3. 1 \in 0 .. 3 /\ 1 \in 1 .. 3
  BY SMT
<1>4. Called(Released(e), t, 1)
  BY <1>2, <1>3, ReleasedReady, ErrorCalled
<1>5. Finished(e, t) /\ Over(t)
  BY <1>2, <1>3, <1>4, CalledFinished DEF Over
<1>6. Finished(s, t)
  BY <1>5, DoneUnderway
<1> HIDE DEF t
<1>7. Quietly(t, [t EXCEPT !.gotError = FALSE]) /\ Over([t EXCEPT !.gotError = FALSE])
  BY <1>5, <1>6, GotErrorFields DEF Finished, Over
<1> QED BY <1>1, <1>6, <1>7, QuietlyFinished

(* After TellsAtOnce both ends only end the transaction. *)
LEMMA ToldFinished ==
  ASSUME NEW s, NEW u, Finished(s, u), u.gotError = TRUE, NEW mc \in BOOLEAN
  PROVE  /\ Finished(s, Succeeds(u, mc)) /\ Over(Succeeds(u, mc))
         /\ Finished(s, Fails(u)) /\ Over(Fails(u))
<1> DEFINE e == Done(u)
<1>1. Finished(s, e) /\ Over(e) /\ Typed(e)
  BY DoneFields, QuietlyFinished DEF Finished
<1>2. Succeeds(u, mc) = e /\ Fails(u) = [e EXCEPT !.gotError = FALSE]
  BY DEF Succeeds, Fails
<1> HIDE DEF e
<1>3. Quietly(e, [e EXCEPT !.gotError = FALSE]) /\ Over([e EXCEPT !.gotError = FALSE])
  BY <1>1, GotErrorFields DEF Over
<1> QED BY <1>1, <1>2, <1>3, QuietlyFinished

(* firstStageCardAction gives up the transaction of the blank before. *)
LEMMA AbortsFinished ==
  ASSUME NEW s, Underway(s)
  PROVE  Finished(s, Aborts(s)) /\ Over(Aborts(s))
<1> DEFINE e == Done(s)
           t == buLowLevelOpError(Released(e), 2)
<1>1. Aborts(s) = t
  <2>1. e.flip = s.flip
    BY DoneFields DEF Underway, Quietly
  <2> QED BY <2>1 DEF Aborts, Released
<1>2. Underway(e) /\ Over(e)
  BY DoneUnderway, DoneFields DEF Underway
<1>3. 2 \in 0 .. 3 /\ 2 \in 1 .. 3
  BY SMT
<1>4. Called(Released(e), t, 2)
  BY <1>2, <1>3, ReleasedReady, ErrorCalled
<1>5. Finished(e, t) /\ Over(t)
  BY <1>2, <1>3, <1>4, CalledFinished DEF Over
<1> QED BY <1>1, <1>5, DoneUnderway

-----------------------------------------------------------------------------
(* mcHandler: the transaction goes on by one byte, or is finished.          *)

Moving(s) ==
  /\ Underway(s) /\ ~s.gotError /\ ~s.fast
  /\ s.op = s.steps /\ s.op < LastOp(s.flags[s.flip])
  /\ s.op >= 1 => s.inProgress

LEMMA LastOps ==
  /\ LastOp(READ) = 13 /\ LastOp(WRITE) = 10 /\ LastOp(INFO) = 4
  /\ \A what \in Asked : LastOp(what) \in 4 .. 13
  BY SMT DEF LastOp, Asked, READ, WRITE, INFO

LEMMA OverIsGood == ASSUME NEW t, Over(t) PROVE TransactionGood(t)
  BY Zenon DEF Over, TransactionGood

LEMMA HandlerMoves ==
  ASSUME NEW s0, Moving(s0), NEW reply, NEW mc \in BOOLEAN
  PROVE  LET t == mcHandler(s0, reply, mc)
         IN  /\ TransactionGood(t)
             /\ Finished(s0, t) \/ Quietly(s0, t)
<1> DEFINE p == s0.flip
           what == s0.flags[p]
           n == s0.op + 1
           s == [s0 EXCEPT !.op = n, !.steps = @ + 1, !.on = TRUE]
           t == mcHandler(s0, reply, mc)
<1>1. /\ Typed(s0) /\ p \in Port /\ what \in Asked /\ s0.op \in Nat
      /\ LastOp(what) \in 4 .. 13 /\ s0.op < LastOp(what) /\ s0.op = s0.steps
      /\ s0.fast = FALSE /\ s0.gotError = FALSE
  <2>1. Typed(s0) /\ p \in Port /\ s0.op \in Nat /\ what \in Asked
    BY SMT DEF Moving, Underway, Typed, Busy
  <2>2. s0.fast = FALSE /\ s0.gotError = FALSE
    BY <2>1, Zenon DEF Moving, Typed
  <2> QED BY <2>1, <2>2, LastOps DEF Moving
<1>2. n \in 1 .. LastOp(what) /\ n \in 0 .. 13
  BY <1>1, SMT
<1> HIDE DEF what, n
<1>3. /\ DOMAIN s = Fields /\ s.op = n /\ s.steps = s0.steps + 1 /\ s.on = TRUE
      /\ s.inProgress = s0.inProgress /\ s.gotError = s0.gotError
      /\ s.failed = s0.failed
      /\ s.flags = s0.flags /\ s.flip = s0.flip /\ s.last = s0.last
      /\ s.skip = s0.skip /\ s.fast = s0.fast
      /\ s.started = s0.started /\ s.bu = s0.bu /\ s.count = s0.count
      /\ s.state = s0.state /\ s.sector = s0.sector /\ SameStatus(s0, s)
      /\ s.answers = s0.answers /\ s.triggers = s0.triggers
  BY <1>1, SMT DEF Typed, Fields, SameStatus
<1> HIDE DEF s
<1>4. Typed(s)
  <2>1. /\ s.inProgress \in BOOLEAN /\ s.on \in BOOLEAN /\ s.failed \in BOOLEAN
        /\ s.gotError \in BOOLEAN /\ s.skip \in BOOLEAN /\ s.fast \in BOOLEAN
        /\ s.started \in BOOLEAN /\ s.ok \in BOOLEAN
    BY <1>1, <1>3, Zenon DEF Typed, SameStatus
  <2> QED BY <1>1, <1>2, <1>3, <2>1, SMT DEF Typed, SameStatus
<1>5. Quietly(s0, s) /\ Underway(s) /\ ~s.gotError /\ s.op = s.steps
  <2>1. s.steps = n
    BY <1>1, <1>3 DEF n
  <2>2. Quietly(s0, s)
    BY <1>3, <1>4, Zenon DEF Quietly
  <2>3. Underway(s0)
    BY DEF Moving
  <2>4. Underway(s)
    BY <1>3, <1>4, <2>3, Zenon DEF Underway, Busy, PortGood
  <2>5. ~s.gotError
    BY <1>1, <1>3, Zenon
  <2> QED BY <1>3, <2>1, <2>2, <2>4, <2>5
<1>6. ASSUME NEW v, Finished(s, v) PROVE Finished(s0, v)
  BY <1>5, <1>6, ZenonT(60)
     DEF Quietly, Finished, SameOthers, SamePort, Told, SameStatus
<1>7. n # 1 => s.inProgress = TRUE
  <2>1. n # 1 => s0.op >= 1
    BY <1>1, SMT DEF n
  <2> QED BY <1>1, <1>3, <2>1, Zenon DEF Moving, Typed
<1> DEFINE refusedNew == n = 3 /\ ~s.skip
             /\ (reply = "new" \/ (reply = "failed" /\ what = INFO))
           failedBefore == n = 10 /\ what = WRITE /\ s.failed /\ ~s.skip
           told == IF failedBefore THEN TellsAtOnce(s, 3) ELSE s
<1>8. t = IF n = 1 THEN [s EXCEPT !.inProgress = TRUE]
          ELSE IF refusedNew
               THEN Fails(TellsAtOnce(s, IF reply = "new" THEN 3 ELSE 1))
          ELSE IF n = 3 /\ what = WRITE
               THEN [s EXCEPT !.failed = reply = "failed"]
          ELSE IF reply = "wrong" THEN Fails(s)
          ELSE IF n < LastOp(what) THEN [s EXCEPT !.fast = n = FastAfter(what)]
          ELSE IF reply = "refused" THEN Fails(told)
          ELSE Succeeds(told, mc)
  BY DEF mcHandler, s, what, n
<1> HIDE DEF t, refusedNew, failedBefore
<1>9. CASE n = 1
  <2>1. t = [s EXCEPT !.inProgress = TRUE]
    BY <1>8, <1>9
  <2>2. /\ DOMAIN t = Fields /\ t.inProgress = TRUE /\ t.op = s.op
        /\ t.steps = s.steps /\ t.on = s.on
        /\ t.gotError = s.gotError /\ t.failed = s.failed
        /\ t.flags = s.flags /\ t.flip = s.flip /\ t.last = s.last
        /\ t.skip = s.skip /\ t.fast = s.fast
        /\ t.started = s.started /\ t.bu = s.bu /\ t.count = s.count
        /\ t.state = s.state /\ t.sector = s.sector /\ SameStatus(s, t)
        /\ t.answers = s.answers /\ t.triggers = s.triggers
    BY <1>4, <2>1, SMT DEF Typed, Fields, SameStatus
  <2>3. Quietly(s0, t)
    BY <1>3, <1>4, <2>2, ZenonT(40) DEF Quietly, Typed, SameStatus
  <2>4. t.op >= 1 /\ t.op < LastOp(t.flags[t.flip])
    BY <1>1, <1>3, <1>9, <2>2, SMT DEF what
  <2>5. TransactionGood(t)
    BY <1>1, <1>3, <1>5, <2>2, <2>4, Zenon DEF TransactionGood, Underway, Busy
  <2> QED BY <2>3, <2>5 DEF t
<1>10. CASE n # 1 /\ refusedNew
  <2> DEFINE i == IF reply = "new" THEN 3 ELSE 1
             u == TellsAtOnce(s, i)
  <2>1. t = Fails(u)
    BY <1>8, <1>10
  <2>2. i \in 1 .. 3
    BY SMT
  <2> HIDE DEF i
  <2>3. Finished(s, u) /\ u.gotError = TRUE
    BY <1>5, <2>2, TellsFinished
  <2> HIDE DEF u
  <2>4. Finished(s, t) /\ Over(t)
    BY <2>1, <2>3, ToldFinished
  <2> QED BY <1>6, <2>4, OverIsGood DEF t
<1>11. CASE n # 1 /\ ~refusedNew /\ n = 3 /\ what = WRITE
  <2>1. t = [s EXCEPT !.failed = reply = "failed"]
    BY <1>8, <1>11
  <2>2. /\ DOMAIN t = Fields /\ t.failed = (reply = "failed") /\ t.op = s.op
        /\ t.inProgress = s.inProgress /\ t.steps = s.steps /\ t.on = s.on
        /\ t.gotError = s.gotError
        /\ t.flags = s.flags /\ t.flip = s.flip /\ t.last = s.last
        /\ t.skip = s.skip /\ t.fast = s.fast
        /\ t.started = s.started /\ t.bu = s.bu /\ t.count = s.count
        /\ t.state = s.state /\ t.sector = s.sector /\ SameStatus(s, t)
        /\ t.answers = s.answers /\ t.triggers = s.triggers
    BY <1>4, <2>1, SMT DEF Typed, Fields, SameStatus
  <2>3. Quietly(s0, t)
    BY <1>3, <1>4, <2>2, ZenonT(40) DEF Quietly, Typed, SameStatus
  <2>4. t.op >= 1 /\ t.op < LastOp(t.flags[t.flip])
    BY <1>1, <1>3, <1>11, <2>2, LastOps, SMT DEF what
  <2>5. TransactionGood(t)
    BY <1>1, <1>3, <1>5, <1>7, <1>11, <2>2, <2>4, Zenon
       DEF TransactionGood, Underway, Busy
  <2> QED BY <2>3, <2>5 DEF t
<1>12. CASE n # 1 /\ ~refusedNew /\ ~(n = 3 /\ what = WRITE) /\ reply = "wrong"
  <2>1. t = Fails(s)
    BY <1>8, <1>12
  <2>2. Finished(s, t) /\ Over(t)
    BY <1>5, <2>1, FailsFinished
  <2> QED BY <1>6, <2>2, OverIsGood DEF t
<1>13. CASE /\ n # 1 /\ ~refusedNew /\ ~(n = 3 /\ what = WRITE)
            /\ reply # "wrong" /\ n < LastOp(what)
  <2>1. t = [s EXCEPT !.fast = n = FastAfter(what)]
    BY <1>8, <1>13
  <2>2. /\ DOMAIN t = Fields /\ t.fast = (n = FastAfter(what)) /\ t.op = s.op
        /\ t.inProgress = s.inProgress /\ t.steps = s.steps /\ t.on = s.on
        /\ t.gotError = s.gotError /\ t.failed = s.failed
        /\ t.flags = s.flags /\ t.flip = s.flip /\ t.last = s.last
        /\ t.skip = s.skip
        /\ t.started = s.started /\ t.bu = s.bu /\ t.count = s.count
        /\ t.state = s.state /\ t.sector = s.sector /\ SameStatus(s, t)
        /\ t.answers = s.answers /\ t.triggers = s.triggers
    BY <1>4, <2>1, SMT DEF Typed, Fields, SameStatus
  <2>3. Quietly(s0, t)
    BY <1>3, <1>4, <2>2, ZenonT(40) DEF Quietly, Typed, SameStatus
  <2>4. t.op >= 1 /\ t.op < LastOp(t.flags[t.flip])
    BY <1>1, <1>2, <1>3, <1>13, <2>2, SMT DEF what
  <2>5. t.on /\ t.fast => t.op = FastAfter(t.flags[t.flip])
    BY <1>3, <2>2, Zenon DEF what
  <2>6. TransactionGood(t)
    BY <1>1, <1>3, <1>5, <1>7, <1>13, <2>2, <2>4, <2>5, Zenon
       DEF TransactionGood, Underway, Busy
  <2> QED BY <2>3, <2>6 DEF t
<1>14. CASE /\ n # 1 /\ ~refusedNew /\ ~(n = 3 /\ what = WRITE)
            /\ reply # "wrong" /\ ~(n < LastOp(what))
  <2>1. t = IF reply = "refused" THEN Fails(told) ELSE Succeeds(told, mc)
    BY <1>8, <1>14
  <2>2. CASE failedBefore
    <3>1. 3 \in 1 .. 3
      BY SMT
    <3>2. Finished(s, told) /\ told.gotError = TRUE
      BY <1>5, <2>2, <3>1, TellsFinished
    <3> HIDE DEF told
    <3>3. Finished(s, t) /\ Over(t)
      BY <2>1, <3>2, ToldFinished
    <3> QED BY <1>6, <3>3, OverIsGood DEF t
  <2>3. CASE ~failedBefore
    <3>1. told = s
      BY <2>3
    <3>2. Finished(s, t) /\ Over(t)
      BY <1>5, <2>1, <3>1, FailsFinished, SucceedsFinished
    <3> QED BY <1>6, <3>2, OverIsGood DEF t
  <2> QED BY <2>2, <2>3
<1> QED BY <1>9, <1>10, <1>11, <1>12, <1>13, <1>14

-----------------------------------------------------------------------------
(* The steps. *)

LEMMA InitCardInv == Init => CardInv
<1> SUFFICES ASSUME Init PROVE CardInv
  OBVIOUS
<1>1. DirSectors + BrokenSectors \in Nat
  BY CardAssumption
<1>2. Typed(d)
  BY <1>1, SMT DEF Init, Typed, Fields, Port
<1>3. \A p \in Port : PortGood(d, p) /\ ~Busy(d, p)
  BY SMT DEF Init, PortGood, Busy, Asked, IDLE, INFO, READ, WRITE
<1>4. TransactionGood(d)
  BY SMT DEF Init, TransactionGood
<1> QED BY <1>2, <1>3, <1>4, SMT DEF Init, CardInv, RequestsGood, Port, OUTSIDE, INSIDE

LEMMA OtherPort ==
  ASSUME NEW p \in Port
  PROVE  1 - p \in Port /\ 1 - p # p /\ \A q \in Port : q = p \/ q = 1 - p
  BY SMT DEF Port

(* An interrupt changes nothing but the port the driver is at, and no       *)
(* program is inside the driver or waits for the other port.                *)
LEMMA HandledKeeps ==
  ASSUME NEW s, NEW th, RequestsGood(s, th), Busy(s, s.flip),
         NEW t, Finished(s, t) \/ Quietly(s, t)
  PROVE  RequestsGood(t, th)
<1> DEFINE p == s.flip
           q == 1 - p
<1>1. /\ Typed(s) /\ p \in Port /\ q \in Port /\ q # p
      /\ \A r \in Port : r = p \/ r = q
      /\ PortGood(s, p) /\ PortGood(s, q)
  BY OtherPort DEF RequestsGood, Typed
<1>2. ~Busy(s, q)
  BY <1>1, SMT DEF RequestsGood, Port
<1>3. th # INSIDE /\ (th \in Port => th = p)
  <2>1. th # INSIDE
    BY <1>1 DEF RequestsGood, InsideGood
  <2>2. ASSUME th = q PROVE FALSE
    <3>1. 1 - q = p
      BY <1>1, SMT DEF Port
    <3> QED BY <1>1, <2>2, <3>1 DEF RequestsGood, WaitGood
  <2> QED BY <1>1, <2>1, <2>2
<1>4. Typed(t) /\ SamePort(s, t, q) /\ PortGood(t, p)
  BY <1>1, Zenon DEF Finished, Quietly, SameOthers, SamePort, PortGood, Busy
<1>5. PortGood(t, q) /\ ~Busy(t, q)
  BY <1>1, <1>2, <1>4, Zenon DEF PortGood, SamePort, Busy
<1>6. ASSUME th \in Port PROVE WaitGood(t, p)
  <2>1. /\ s.bu[p] \in {0, 1} /\ s.ok = FALSE /\ s.errors = {} /\ s.result = 0
    BY <1>1, <1>3, <1>6, Zenon DEF RequestsGood, WaitGood, Typed
  <2>2. CASE Quietly(s, t)
    BY <1>5, <2>1, <2>2, Zenon DEF Quietly, SameStatus, WaitGood, Busy
  <2>3. CASE Finished(s, t)
    <3>1. /\ t.flags[p] = IDLE /\ t.bu[p] = 0
          /\ \E how \in 0 .. 3 : Told(s, t, how)
      BY <2>1, <2>3 DEF Finished
    <3>2. ~Busy(t, p)
      BY <3>1, IdleIsNotBusy
    <3>3. PICK how \in 0 .. 3 : Told(s, t, how)
      BY <3>1
    <3>4. CASE how = 0
      BY <1>5, <2>1, <3>1, <3>2, <3>3, <3>4, Zenon DEF WaitGood, Told
    <3>5. CASE how # 0
      <4>1. t.errors = {how - 1} /\ t.ok = FALSE /\ t.result = how
        BY <2>1, <3>3, <3>5, Zenon DEF Told
      <4> QED BY <1>5, <3>1, <3>2, <3>5, <4>1, Zenon DEF WaitGood
    <3> QED BY <3>4, <3>5
  <2> QED BY <2>2, <2>3
<1>7. ~(Busy(t, 0) /\ Busy(t, 1))
  BY <1>1, <1>5, SMT DEF Port
<1>8. \A r \in Port : PortGood(t, r)
  BY <1>1, <1>4, <1>5, Zenon
<1>9. /\ th \in Port => WaitGood(t, th)
      /\ th = INSIDE => InsideGood(t)
  BY <1>3, <1>6, Zenon
<1> QED BY <1>4, <1>7, <1>8, <1>9, Zenon DEF RequestsGood

LEMMA BlankKeeps ==
  ASSUME CardInv, VBlank
  PROVE  RequestsGood(d', thread) /\ TransactionGood(d')
<1>1. Typed(d) /\ d.flip \in Port /\ \A q \in Port : PortGood(d, q)
  BY DEF CardInv, RequestsGood, Typed
<1>2. CASE d.inProgress
  <2>1. d' = Aborts(d)
    BY <1>2 DEF VBlank, firstStageCardAction
  <2>2. Underway(d)
    BY <1>1, <1>2 DEF CardInv, TransactionGood, Underway
  <2>3. Finished(d, d') /\ Over(d')
    BY <2>1, <2>2, AbortsFinished
  <2> QED BY <2>2, <2>3, HandledKeeps, OverIsGood DEF CardInv, Underway
<1>3. CASE ~d.inProgress
  <2> DEFINE t == Turns(d)
  <2>1. d' = IF Busy(t, t.flip) THEN Begins(t) ELSE t
    BY <1>3 DEF VBlank, firstStageCardAction
  <2>2. /\ DOMAIN t = Fields /\ t.flip = 1 - d.flip
        /\ t.inProgress = d.inProgress /\ t.op = d.op /\ t.on = d.on
        /\ t.failed = d.failed /\ t.steps = d.steps
        /\ t.flags = d.flags /\ t.last = d.last /\ t.gotError = d.gotError
        /\ t.skip = d.skip /\ t.fast = d.fast
        /\ t.started = d.started /\ t.bu = d.bu /\ t.count = d.count
        /\ t.state = d.state /\ t.sector = d.sector /\ SameStatus(d, t)
        /\ t.answers = d.answers /\ t.triggers = d.triggers
    BY <1>1, SMT DEF Turns, Typed, Fields, SameStatus
  <2> HIDE DEF t
  <2>3. Typed(t)
    <3>1. t.flip \in Port
      BY <1>1, <2>2, OtherPort
    <3> QED BY <1>1, <2>2, <3>1, Zenon DEF Typed, SameStatus
  <2>4. RequestsGood(t, thread)
    <3>1. /\ \A q \in Port : PortGood(t, q)
          /\ \A q : Busy(t, q) <=> Busy(d, q)
          /\ \A q : WaitGood(d, q) => WaitGood(t, q)
          /\ InsideGood(d) => InsideGood(t)
      BY <1>1, <2>2, ZenonT(60) DEF PortGood, Busy, WaitGood, InsideGood, SameStatus
    <3> QED BY <2>3, <3>1, Zenon DEF CardInv, RequestsGood
  <2>5. Over(t)
    BY <1>1, <1>3, <2>2, Zenon DEF CardInv, TransactionGood, Typed, Over
  <2>6. CASE ~Busy(t, t.flip)
    BY <2>1, <2>4, <2>5, <2>6, OverIsGood
  <2>7. CASE Busy(t, t.flip)
    <3> DEFINE b == [t EXCEPT !.fast = FALSE, !.op = 0, !.gotError = FALSE,
                              !.steps = 0]
    <3>1. d' = mcHandler(b, "good", TRUE)
      BY <2>1, <2>7 DEF Begins
    <3>2. /\ DOMAIN b = Fields /\ b.flip = t.flip
          /\ b.inProgress = t.inProgress /\ b.op = 0 /\ b.on = t.on
          /\ b.failed = t.failed /\ b.steps = 0
          /\ b.flags = t.flags /\ b.last = t.last /\ b.gotError = FALSE
          /\ b.skip = t.skip /\ b.fast = FALSE
          /\ b.started = t.started /\ b.bu = t.bu /\ b.count = t.count
          /\ b.state = t.state /\ b.sector = t.sector /\ SameStatus(t, b)
          /\ b.answers = t.answers /\ b.triggers = t.triggers
      BY <2>3, SMT DEF Typed, Fields, SameStatus
    <3> HIDE DEF b
    <3>3. Typed(b) /\ b.flip \in Port
      <4>1. 0 \in 0 .. 13 /\ 0 \in Nat
        BY SMT
      <4> QED BY <2>3, <3>2, <4>1, Zenon DEF Typed, SameStatus
    <3>4. RequestsGood(b, thread) /\ Busy(b, b.flip)
      <4>1. /\ \A q \in Port : PortGood(b, q)
            /\ \A q : Busy(b, q) <=> Busy(t, q)
            /\ \A q : WaitGood(t, q) => WaitGood(b, q)
            /\ InsideGood(t) => InsideGood(b)
        <5>1. \A q \in Port : PortGood(t, q)
          BY <2>4 DEF RequestsGood
        <5> QED BY <3>2, <5>1, Zenon
                DEF PortGood, Busy, WaitGood, InsideGood, SameStatus
      <4> QED BY <2>4, <2>7, <3>2, <3>3, <4>1, Zenon DEF RequestsGood
    <3>5. Moving(b)
      <4>1. Underway(b)
        BY <3>3, <3>4, Zenon DEF Underway, RequestsGood
      <4>2. b.op < LastOp(b.flags[b.flip])
        BY <3>2, <4>1, LastOps, SMT DEF Underway, Busy
      <4> QED BY <3>2, <4>1, <4>2, SMT DEF Moving
    <3>6. TransactionGood(d') /\ (Finished(b, d') \/ Quietly(b, d'))
      BY <3>1, <3>5, HandlerMoves
    <3> QED BY <3>4, <3>6, HandledKeeps
  <2> QED BY <2>6, <2>7
<1> QED BY <1>2, <1>3

LEMMA ByteKeeps ==
  ASSUME CardInv, CardInterrupt
  PROVE  RequestsGood(d', thread) /\ TransactionGood(d')
<1>1. Typed(d) /\ d.flip \in Port /\ \A q \in Port : PortGood(d, q)
  BY DEF CardInv, RequestsGood, Typed
<1>2. Moving(d) /\ Busy(d, d.flip)
  BY <1>1, Zenon
     DEF CardInv, CardInterrupt, TransactionGood, Moving, Underway
<1>3. PICK mc \in BOOLEAN : d' = mcHandler(d, line, mc)
  BY DEF CardInterrupt
<1>4. TransactionGood(d') /\ (Finished(d, d') \/ Quietly(d, d'))
  BY <1>2, <1>3, HandlerMoves
<1> QED BY <1>2, <1>4, HandledKeeps DEF CardInv

(* A step that leaves requests, status words and the transaction alone. *)
LEMMA SameRequests ==
  ASSUME NEW s, NEW t, NEW th, RequestsGood(s, th), Typed(t),
         t.flags = s.flags, t.bu = s.bu, t.state = s.state,
         t.answers = s.answers, t.triggers = s.triggers, SameStatus(s, t)
  PROVE  RequestsGood(t, th)
<1>1. /\ \A q \in Port : PortGood(t, q)
      /\ \A q : Busy(t, q) <=> Busy(s, q)
      /\ \A q : WaitGood(s, q) => WaitGood(t, q)
      /\ InsideGood(s) => InsideGood(t)
  <2>1. \A q \in Port : PortGood(s, q)
    BY DEF RequestsGood
  <2> QED BY <2>1, Zenon DEF PortGood, Busy, WaitGood, InsideGood, SameStatus
<1> QED BY <1>1, Zenon DEF RequestsGood

LEMMA QuietSteps ==
  ASSUME CardInv, FastTrack \/ StartCard \/ StopCard \/ AllowNewCard
  PROVE  RequestsGood(d', thread) /\ TransactionGood(d')
<1>1. Typed(d)
  BY DEF CardInv, RequestsGood
<1> DEFINE Same(t) ==
             /\ DOMAIN t = Fields
             /\ t.flip = d.flip
             /\ t.inProgress = d.inProgress /\ t.op = d.op /\ t.on = d.on
             /\ t.failed = d.failed /\ t.steps = d.steps
             /\ t.flags = d.flags /\ t.last = d.last /\ t.gotError = d.gotError
             /\ t.bu = d.bu /\ t.count = d.count
             /\ t.state = d.state /\ t.sector = d.sector /\ SameStatus(d, t)
             /\ t.answers = d.answers /\ t.triggers = d.triggers
<1>2. Same(d')
  <2>1. CASE FastTrack
    <3>1. d' = [d EXCEPT !.fast = FALSE]
      BY <2>1 DEF FastTrack
    <3> QED BY <1>1, <3>1, SMT DEF Typed, Fields, SameStatus
  <2>2. CASE StartCard
    BY <1>1, <2>2, SMT DEF Typed, Fields, SameStatus, StartCard
  <2>3. CASE StopCard
    BY <1>1, <2>3, SMT DEF Typed, Fields, SameStatus, StopCard
  <2>4. CASE AllowNewCard
    BY <1>1, <2>4, SMT DEF Typed, Fields, SameStatus, AllowNewCard
  <2> QED BY <2>1, <2>2, <2>3, <2>4
<1>3. /\ d'.fast = d.fast \/ d'.fast = FALSE
      /\ d'.skip \in BOOLEAN /\ d'.started \in BOOLEAN
  <2>1. CASE FastTrack
    <3>1. d'.fast = FALSE /\ d'.skip = d.skip /\ d'.started = d.started
      BY <1>1, <2>1, SMT DEF Typed, Fields, FastTrack
    <3> QED BY <1>1, <3>1, Zenon DEF Typed
  <2>2. CASE StartCard
    <3>1. d'.fast = d.fast /\ d'.skip = FALSE /\ d'.started = TRUE
      BY <1>1, <2>2, SMT DEF Typed, Fields, StartCard
    <3> QED BY <1>1, <3>1, Zenon DEF Typed
  <2>3. CASE StopCard
    <3>1. d'.fast = d.fast /\ d'.skip = d.skip /\ d'.started = FALSE
      BY <1>1, <2>3, SMT DEF Typed, Fields, StopCard
    <3> QED BY <1>1, <3>1, Zenon DEF Typed
  <2>4. CASE AllowNewCard
    <3>1. d'.fast = d.fast /\ d'.skip = TRUE /\ d'.started = d.started
      BY <1>1, <2>4, SMT DEF Typed, Fields, AllowNewCard
    <3> QED BY <1>1, <3>1, Zenon DEF Typed
  <2> QED BY <2>1, <2>2, <2>3, <2>4
<1>4. Typed(d')
  <2>1. d'.fast \in BOOLEAN
    BY <1>1, <1>3, Zenon DEF Typed
  <2> QED BY <1>1, <1>2, <1>3, <2>1, Zenon DEF Typed, SameStatus
<1>5. TransactionGood(d')
  BY <1>2, <1>3, Zenon DEF CardInv, TransactionGood, Busy
<1> QED BY <1>2, <1>4, <1>5, SameRequests DEF CardInv

-----------------------------------------------------------------------------
(* The calls of the program. *)

(* The driver has nothing to do, so nothing is on the lines. *)
LEMMA IdleDriver ==
  ASSUME CardInv, NEW p \in Port, ~Busy(d, p), ~Busy(d, 1 - p)
  PROVE  Over(d)
<1>1. Typed(d) /\ (d.flip = p \/ d.flip = 1 - p)
  BY OtherPort DEF CardInv, RequestsGood, Typed
<1>2. d.inProgress = FALSE
  BY <1>1, Zenon DEF CardInv, TransactionGood, Typed
<1> QED BY <1>2, Zenon DEF CardInv, TransactionGood, Over

(* A call begins a request of port p. *)
LEMMA BeginsGood ==
  ASSUME NEW s, NEW t, NEW p \in Port, NEW th, Typed(t), SameOthers(s, t, p),
         ~Busy(s, 1 - p), PortGood(s, 1 - p), Over(t), PortGood(t, p),
         th # INSIDE,
         th \in Port => /\ th = p /\ t.bu[p] \in {0, 1} /\ Busy(t, p)
                        /\ ~t.ok /\ t.errors = {} /\ t.result = 0
  PROVE  RequestsGood(t, th) /\ TransactionGood(t)
<1> DEFINE q == 1 - p
<1>1. q \in Port /\ q # p /\ \A r \in Port : r = p \/ r = q
  BY OtherPort
<1>2. SamePort(s, t, q)
  BY <1>1 DEF SameOthers
<1> HIDE DEF q
<1>3. PortGood(t, q) /\ ~Busy(t, q)
  BY <1>2, Zenon DEF PortGood, SamePort, Busy, q
<1>4. ~(Busy(t, 0) /\ Busy(t, 1))
  BY <1>1, <1>3, SMT DEF Port, q
<1>5. th \in Port => WaitGood(t, th)
  BY <1>3, Zenon DEF WaitGood, q
<1>6. \A r \in Port : PortGood(t, r)
  BY <1>1, <1>3
<1> QED BY <1>4, <1>5, <1>6, OverIsGood, Zenon DEF RequestsGood

(* mcResetStatus and the beginning of a chain. *)
LEMMA ResetFields ==
  ASSUME NEW s, Typed(s)
  PROVE  LET t == mcResetStatus(s)
         IN  /\ Typed(t) /\ SameTransaction(s, t) /\ t.op = s.op
             /\ t.steps = s.steps /\ t.fast = s.fast
             /\ t.flags = s.flags /\ t.bu = s.bu /\ t.state = s.state
             /\ t.answers = s.answers /\ t.triggers = s.triggers
             /\ t.ok = FALSE /\ t.errors = {} /\ t.result = 0
<1> DEFINE t == mcResetStatus(s)
<1>1. /\ DOMAIN t = Fields
      /\ t.ok = FALSE /\ t.errors = {} /\ t.result = 0
      /\ t.flags = s.flags /\ t.op = s.op
      /\ t.bu = s.bu /\ t.state = s.state /\ t.sector = s.sector
      /\ t.triggers = s.triggers /\ t.count = s.count
      /\ t.steps = s.steps /\ t.skip = s.skip /\ t.answers = s.answers
      /\ t.fast = s.fast /\ t.failed = s.failed
      /\ SameTransaction(s, t)
  BY SMT DEF mcResetStatus, Typed, Fields, SameTransaction
<1> HIDE DEF t
<1>2. Typed(t)
  <2>1. 0 \in 0 .. 3
    BY SMT
  <2> QED BY <1>1, <2>1, Zenon DEF Typed, SameTransaction
<1> QED BY <1>1, <1>2 DEF t

LEMMA BegunFields ==
  ASSUME NEW s, Typed(s), NEW p \in Port, NEW op \in {1, 2, 3, 4}
  PROVE  LET t == Begun(s, p, op)
         IN  /\ Typed(t) /\ SameTransaction(s, t) /\ SameStatus(s, t)
             /\ SameOthers(s, t, p)
             /\ t.flags = s.flags /\ t.answers = s.answers /\ t.count = s.count
             /\ t.state = s.state /\ t.bu[p] = op /\ t.triggers[p] = 0
<1> DEFINE t == Begun(s, p, op)
<1>1. /\ DOMAIN t = Fields
      /\ t.bu = [s.bu EXCEPT ![p] = op]
      /\ t.triggers = [s.triggers EXCEPT ![p] = 0]
      /\ t.flags = s.flags /\ t.op = s.op
      /\ t.state = s.state /\ t.sector = s.sector
      /\ t.count = s.count
      /\ t.steps = s.steps /\ t.skip = s.skip /\ t.answers = s.answers
      /\ t.fast = s.fast /\ t.failed = s.failed
      /\ SameTransaction(s, t) /\ SameStatus(s, t)
  BY SMT DEF Begun, Typed, Fields, SameTransaction, SameStatus
<1> HIDE DEF t
<1>2. t.bu \in [Port -> {0, 1, 2, 3, 4, 7}] /\ t.triggers \in [Port -> Nat]
  BY <1>1, SMT DEF Typed
<1>3. Typed(t)
  BY <1>1, <1>2, Zenon DEF Typed, SameTransaction, SameStatus
<1>4. SameOthers(s, t, p) /\ t.bu[p] = op /\ t.triggers[p] = 0
  BY <1>1, SMT DEF Typed, Port, SameOthers, SamePort
<1> QED BY <1>1, <1>3, <1>4 DEF t

(* What a call of the program finds when the port is free for it. *)
LEMMA FreeFacts ==
  ASSUME CardInv, OnePortAtATime, NEW p \in Port, OtherFree(p), ~Busy(d, p)
  PROVE  /\ Typed(d) /\ ~Busy(d, 1 - p) /\ PortGood(d, 1 - p) /\ Over(d)
         /\ d.bu[p] = 0 /\ d.triggers[p] = 1
<1>1. Typed(d) /\ ~Busy(d, 1 - p)
  BY DEF CardInv, RequestsGood, OtherFree
<1>2. PortGood(d, p) /\ PortGood(d, 1 - p)
  BY OtherPort DEF CardInv, RequestsGood
<1>3. Over(d)
  BY <1>1, IdleDriver
<1> QED BY <1>1, <1>2, <1>3 DEF PortGood

LEMMA SectorKeeps ==
  ASSUME CardInv, OnePortAtATime, NEW p \in Port, NEW what \in {READ, WRITE},
         McSector(p, what)
  PROVE  RequestsGood(d', thread') /\ TransactionGood(d')
<1>1. /\ d' = Issue(d, p, what) /\ thread' = thread /\ thread = OUTSIDE
      /\ OtherFree(p)
  BY DEF McSector
<1>2. CASE Busy(d, p)
  <2>1. d' = d
    BY <1>1, <1>2 DEF Issue, Accepts
  <2> QED BY <1>1, <2>1 DEF CardInv
<1>3. CASE ~Busy(d, p)
  <2>1. /\ Typed(d) /\ ~Busy(d, 1 - p) /\ PortGood(d, 1 - p) /\ Over(d)
        /\ d.bu[p] = 0 /\ d.triggers[p] = 1
    BY <1>1, <1>3, FreeFacts
  <2>2. what \in Asked
    BY DEF Asked
  <2>3. /\ Typed(d') /\ SameTransaction(d, d') /\ SameOthers(d, d', p)
        /\ d'.bu = d.bu /\ d'.triggers = d.triggers
        /\ d'.flags[p] = what /\ d'.answers[p] = 0
    BY <1>1, <1>3, <2>1, <2>2, IssueFields
  <2>4. PortGood(d', p)
    BY <2>1, <2>2, <2>3, SMT DEF PortGood, Busy
  <2>5. Over(d')
    BY <2>1, <2>3 DEF Over, SameTransaction
  <2>6. OUTSIDE # INSIDE /\ OUTSIDE \notin Port
    BY SMT DEF OUTSIDE, INSIDE, Port
  <2> QED BY <1>1, <2>1, <2>3, <2>4, <2>5, <2>6, BeginsGood
<1> QED BY <1>2, <1>3

LEMMA InfoKeeps ==
  ASSUME CardInv, OnePortAtATime, NEW p \in Port, CardInfo(p)
  PROVE  RequestsGood(d', thread') /\ TransactionGood(d')
<1> DEFINE b == Begun(d, p, 1)
<1>1. /\ d' = Issue(b, p, INFO) /\ thread' = thread /\ thread = OUTSIDE
      /\ OtherFree(p) /\ ~Busy(d, p) /\ INFO \in Asked
  BY DEF CardInfo, Free, Asked
<1>2. /\ Typed(d) /\ ~Busy(d, 1 - p) /\ PortGood(d, 1 - p) /\ Over(d)
  BY <1>1, FreeFacts
<1>3. /\ Typed(b) /\ SameTransaction(d, b) /\ SameOthers(d, b, p)
      /\ b.flags = d.flags /\ b.bu[p] = 1 /\ b.triggers[p] = 0
  <2>1. 1 \in {1, 2, 3, 4}
    OBVIOUS
  <2> QED BY <1>2, <2>1, BegunFields
<1> HIDE DEF b
<1>4. /\ Typed(d') /\ SameTransaction(b, d') /\ SameOthers(b, d', p)
      /\ d'.bu = b.bu /\ d'.triggers = b.triggers
      /\ d'.flags[p] = INFO /\ d'.answers[p] = 0
  <2>1. ~Busy(b, p)
    BY <1>1, <1>3 DEF Busy
  <2> QED BY <1>1, <1>3, <2>1, IssueFields
<1>5. SameOthers(d, d', p) /\ Over(d')
  BY <1>2, <1>3, <1>4 DEF SameOthers, SamePort, Over, SameTransaction
<1>6. PortGood(d', p)
  BY <1>1, <1>3, <1>4, SMT DEF PortGood, Busy
<1>7. OUTSIDE # INSIDE /\ OUTSIDE \notin Port
  BY SMT DEF OUTSIDE, INSIDE, Port
<1> QED BY <1>1, <1>2, <1>4, <1>5, <1>6, <1>7, BeginsGood

LEMMA TOCKeeps ==
  ASSUME CardInv, OnePortAtATime, NEW p \in Port, BuReadTOC(p)
  PROVE  RequestsGood(d', thread') /\ TransactionGood(d')
<1> DEFINE b == Begun(d, p, 4)
           v == Issue(b, p, READ)
<1>1. /\ d' = [v EXCEPT !.state[p] = 1] /\ thread' = thread /\ thread = OUTSIDE
      /\ OtherFree(p) /\ ~Busy(d, p) /\ READ \in Asked
  BY DEF BuReadTOC, Free, Asked
<1>2. /\ Typed(d) /\ ~Busy(d, 1 - p) /\ PortGood(d, 1 - p) /\ Over(d)
  BY <1>1, FreeFacts
<1>3. /\ Typed(b) /\ SameTransaction(d, b) /\ SameOthers(d, b, p)
      /\ b.flags = d.flags /\ b.bu[p] = 4 /\ b.triggers[p] = 0
  <2>1. 4 \in {1, 2, 3, 4}
    OBVIOUS
  <2> QED BY <1>2, <2>1, BegunFields
<1> HIDE DEF b
<1>4. /\ Typed(v) /\ SameTransaction(b, v) /\ SameOthers(b, v, p)
      /\ v.bu = b.bu /\ v.triggers = b.triggers
      /\ v.flags[p] = READ /\ v.answers[p] = 0
  <2>1. ~Busy(b, p)
    BY <1>1, <1>3 DEF Busy
  <2> QED BY <1>1, <1>3, <2>1, IssueFields
<1> HIDE DEF v
<1>5. /\ DOMAIN d' = Fields /\ d'.state = [v.state EXCEPT ![p] = 1]
      /\ d'.sector = v.sector
      /\ SameTransaction(v, d') /\ SameStatus(v, d')
      /\ d'.flags = v.flags /\ d'.answers = v.answers /\ d'.bu = v.bu
      /\ d'.triggers = v.triggers /\ d'.count = v.count
      /\ d'.op = v.op /\ d'.steps = v.steps /\ d'.skip = v.skip
      /\ d'.fast = v.fast /\ d'.failed = v.failed
  BY <1>1, <1>4, SMT DEF Typed, Fields, SameTransaction, SameStatus
<1>6. Typed(d')
  <2>1. d'.state \in [Port -> 0 .. 3]
    BY <1>4, <1>5, SMT DEF Typed
  <2> QED BY <1>4, <1>5, <2>1, Zenon DEF Typed, SameTransaction, SameStatus
<1>7. Over(d')
  BY <1>2, <1>3, <1>4, <1>5 DEF Over, SameTransaction
<1>8. SameOthers(d, d', p) /\ d'.state[p] = 1
  BY <1>3, <1>4, <1>5, SMT DEF SameOthers, SamePort, Typed
<1>9. PortGood(d', p)
  BY <1>1, <1>3, <1>4, <1>5, <1>8, SMT DEF PortGood, Busy
<1>10. OUTSIDE # INSIDE /\ OUTSIDE \notin Port
  BY SMT DEF OUTSIDE, INSIDE, Port
<1> QED BY <1>1, <1>2, <1>6, <1>7, <1>8, <1>9, <1>10, BeginsGood

LEMMA TransferKeeps ==
  ASSUME CardInv, OnePortAtATime, NEW p \in Port, NEW what \in {READ, WRITE},
         NEW n \in Counts, Transfer(p, what, n)
  PROVE  RequestsGood(d', thread') /\ TransactionGood(d')
<1> DEFINE r == mcResetStatus(d)
           op == IF what = READ THEN 2 ELSE 3
           b == Begun(r, p, op)
           s == [b EXCEPT !.count[p] = n]
           e == [s EXCEPT !.ok = TRUE]
<1>1. /\ d' = IF n = 0 THEN buFinishAndTrigger(e, p) ELSE Issue(s, p, what)
      /\ thread' = thread /\ thread = OUTSIDE
      /\ OtherFree(p) /\ ~Busy(d, p) /\ what \in Asked /\ n \in Nat
      /\ op \in {1, 2, 3, 4} /\ op # 0 /\ op # 4
  <2>1. op \in {1, 2, 3, 4} /\ op # 0 /\ op # 4
    OBVIOUS
  <2> QED BY <2>1, CardAssumption DEF Transfer, Free, Asked
<1> HIDE DEF op
<1>2. /\ Typed(d) /\ ~Busy(d, 1 - p) /\ PortGood(d, 1 - p) /\ Over(d)
      /\ d.answers[p] = 1
  <2>1. PortGood(d, p)
    BY DEF CardInv, RequestsGood
  <2> QED BY <1>1, <2>1, FreeFacts DEF PortGood
<1>3. /\ Typed(r) /\ SameTransaction(d, r) /\ SameOthers(d, r, p)
      /\ r.flags = d.flags /\ r.answers = d.answers
  BY <1>2, ResetFields DEF SameOthers, SamePort
<1> HIDE DEF r
<1>4. /\ Typed(b) /\ SameTransaction(r, b) /\ SameOthers(r, b, p)
      /\ b.flags = d.flags /\ b.answers = d.answers
      /\ b.bu[p] = op /\ b.triggers[p] = 0
  BY <1>1, <1>3, BegunFields
<1> HIDE DEF b
<1>5. /\ DOMAIN s = Fields /\ s.count = [b.count EXCEPT ![p] = n]
      /\ s.sector = b.sector /\ s.state = b.state
      /\ SameTransaction(b, s) /\ SameStatus(b, s)
      /\ s.flags = b.flags /\ s.answers = b.answers /\ s.bu = b.bu
      /\ s.triggers = b.triggers
      /\ s.op = b.op /\ s.steps = b.steps /\ s.skip = b.skip
      /\ s.fast = b.fast /\ s.failed = b.failed
  BY <1>4, SMT DEF Typed, Fields, SameTransaction, SameStatus
<1> HIDE DEF s
<1>6. Typed(s)
  <2>1. s.count \in [Port -> Nat]
    BY <1>1, <1>4, <1>5, SMT DEF Typed
  <2> QED BY <1>4, <1>5, <2>1, Zenon DEF Typed, SameTransaction, SameStatus
<1>7. /\ SameOthers(d, s, p) /\ Over(s) /\ ~Busy(s, p)
      /\ s.bu[p] = op /\ s.triggers[p] = 0 /\ s.answers[p] = 1
  <2>1. SameOthers(d, b, p)
    BY <1>3, <1>4 DEF SameOthers, SamePort
  <2>2. SameOthers(d, s, p)
    BY <1>5, <2>1 DEF SameOthers, SamePort
  <2>3. Over(s)
    BY <1>2, <1>3, <1>4, <1>5 DEF Over, SameTransaction
  <2>4. ~Busy(s, p)
    BY <1>1, <1>4, <1>5 DEF Busy
  <2> QED BY <1>2, <1>4, <1>5, <2>2, <2>3, <2>4
<1>8. OUTSIDE # INSIDE /\ OUTSIDE \notin Port
  BY SMT DEF OUTSIDE, INSIDE, Port
<1>9. CASE n # 0
  <2>1. d' = Issue(s, p, what)
    BY <1>1, <1>9
  <2>2. /\ Typed(d') /\ SameTransaction(s, d') /\ SameOthers(s, d', p)
        /\ d'.bu = s.bu /\ d'.triggers = s.triggers
        /\ d'.flags[p] = what /\ d'.answers[p] = 0
    BY <1>1, <1>6, <1>7, <2>1, IssueFields
  <2>3. SameOthers(d, d', p) /\ Over(d')
    BY <1>7, <2>2 DEF SameOthers, SamePort, Over, SameTransaction
  <2>4. PortGood(d', p)
    BY <1>1, <1>7, <2>2, SMT DEF PortGood, Busy
  <2> QED BY <1>1, <1>2, <1>8, <2>2, <2>3, <2>4, BeginsGood
<1>10. CASE n = 0
  <2>1. d' = buFinishAndTrigger(e, p)
    BY <1>1, <1>10
  <2>2. /\ DOMAIN e = Fields /\ e.count = s.count /\ e.ok = TRUE
        /\ e.errors = s.errors /\ e.result = s.result
        /\ e.sector = s.sector /\ e.state = s.state
        /\ SameTransaction(s, e)
        /\ e.flags = s.flags /\ e.answers = s.answers /\ e.bu = s.bu
        /\ e.triggers = s.triggers
        /\ e.op = s.op /\ e.steps = s.steps /\ e.skip = s.skip
        /\ e.fast = s.fast /\ e.failed = s.failed
    BY <1>6, SMT DEF Typed, Fields, SameTransaction
  <2> HIDE DEF e
  <2>3. Typed(e)
    BY <1>6, <2>2, Zenon DEF Typed, SameTransaction
  <2>4. /\ Typed(d') /\ SameTransaction(e, d') /\ SameOthers(e, d', p)
        /\ d'.flags = e.flags /\ d'.answers = e.answers
        /\ d'.bu[p] = 0 /\ d'.triggers[p] = e.triggers[p] + 1
    BY <2>1, <2>3, FinishFields
  <2>5. SameOthers(d, d', p) /\ Over(d')
    BY <1>7, <2>2, <2>4 DEF SameOthers, SamePort, Over, SameTransaction
  <2>6. PortGood(d', p)
    BY <1>7, <2>2, <2>4, SMT DEF PortGood, Busy
  <2> QED BY <1>1, <1>2, <1>8, <2>4, <2>5, <2>6, BeginsGood
<1> QED BY <1>9, <1>10

LEMMA EntersKeeps ==
  ASSUME CardInv, OnePortAtATime, NEW p \in Port, Enters(p)
  PROVE  RequestsGood(d', thread') /\ TransactionGood(d')
<1>1. /\ d' = mcResetStatus(d) /\ thread' = INSIDE
      /\ OtherFree(p) /\ ~Busy(d, p)
  BY DEF Enters, Enter, Free
<1>2. /\ Typed(d) /\ ~Busy(d, 1 - p) /\ Over(d)
      /\ \A q \in Port : PortGood(d, q) /\ ~Busy(d, q)
  BY <1>1, FreeFacts, OtherPort DEF CardInv, RequestsGood
<1>3. /\ Typed(d') /\ SameTransaction(d, d')
      /\ d'.flags = d.flags /\ d'.bu = d.bu /\ d'.state = d.state
      /\ d'.answers = d.answers /\ d'.triggers = d.triggers
      /\ d'.ok = FALSE /\ d'.errors = {} /\ d'.result = 0
  BY <1>1, <1>2, ResetFields
<1>4. \A q \in Port : PortGood(d', q) /\ ~Busy(d', q)
  BY <1>2, <1>3, Zenon DEF PortGood, Busy
<1>5. Over(d')
  BY <1>2, <1>3 DEF SameTransaction, Over
<1>6. INSIDE \notin Port /\ 0 \in Port
  BY SMT DEF INSIDE, Port
<1> QED BY <1>1, <1>3, <1>4, <1>5, <1>6, OverIsGood, Zenon
        DEF RequestsGood, InsideGood

LEMMA SyncKeeps ==
  ASSUME CardInv, OnePortAtATime, NEW p \in Port, NEW what \in Asked,
         SyncCall(p, what)
  PROVE  RequestsGood(d', thread') /\ TransactionGood(d')
<1> DEFINE b == IF what = INFO THEN Begun(d, p, 1) ELSE d
<1>1. /\ d' = Issue(b, p, what) /\ thread' = p
      /\ OtherFree(p) /\ ~Busy(d, p) /\ InsideGood(d)
  BY DEF SyncCall, Free, CardInv, RequestsGood
<1>2. /\ Typed(d) /\ ~Busy(d, 1 - p) /\ PortGood(d, 1 - p) /\ Over(d)
      /\ d.bu[p] = 0 /\ d.triggers[p] = 1
  BY <1>1, FreeFacts
<1>3. /\ Typed(b) /\ SameTransaction(d, b) /\ SameOthers(d, b, p)
      /\ SameStatus(d, b) /\ b.flags = d.flags
      /\ \/ b.bu[p] = 1 /\ b.triggers[p] = 0
         \/ b.bu[p] = 0 /\ b.triggers[p] = 1
  <2>1. CASE what = INFO
    <3>1. 1 \in {1, 2, 3, 4}
      OBVIOUS
    <3> QED BY <1>2, <2>1, <3>1, BegunFields
  <2>2. CASE what # INFO
    BY <1>2, <2>2 DEF SameTransaction, SameOthers, SamePort, SameStatus
  <2> QED BY <2>1, <2>2
<1> HIDE DEF b
<1>4. /\ Typed(d') /\ SameTransaction(b, d') /\ SameOthers(b, d', p)
      /\ SameStatus(b, d') /\ d'.bu = b.bu /\ d'.triggers = b.triggers
      /\ d'.flags[p] = what /\ d'.answers[p] = 0
  <2>1. ~Busy(b, p)
    BY <1>1, <1>3 DEF Busy
  <2> QED BY <1>1, <1>3, <2>1, IssueFields
<1>5. SameOthers(d, d', p) /\ Over(d')
  BY <1>2, <1>3, <1>4 DEF SameOthers, SamePort, Over, SameTransaction
<1>6. PortGood(d', p) /\ Busy(d', p) /\ d'.bu[p] \in {0, 1}
  BY <1>3, <1>4, SMT DEF PortGood, Busy
<1>7. ~d'.ok /\ d'.errors = {} /\ d'.result = 0
  BY <1>1, <1>3, <1>4, Zenon DEF SameStatus, InsideGood
<1>8. p # INSIDE
  BY SMT DEF INSIDE, Port
<1> QED BY <1>1, <1>2, <1>4, <1>5, <1>6, <1>7, <1>8, BeginsGood

LEMMA WaitKeeps ==
  ASSUME CardInv, McWaitForStatus
  PROVE  RequestsGood(d', thread') /\ TransactionGood(d')
<1>1. /\ d' = mcResetStatus(d) /\ thread' = INSIDE
      /\ thread \in Port /\ (d.ok \/ d.errors # {}) /\ WaitGood(d, thread)
  BY DEF McWaitForStatus, CardInv, RequestsGood
<1>2. /\ Typed(d) /\ \A q \in Port : PortGood(d, q)
  BY DEF CardInv, RequestsGood
<1>3. ~Busy(d, thread) /\ ~Busy(d, 1 - thread)
  BY <1>1 DEF WaitGood
<1>4. Over(d)
  BY <1>1, <1>3, IdleDriver
<1>5. /\ Typed(d') /\ SameTransaction(d, d')
      /\ d'.flags = d.flags /\ d'.bu = d.bu /\ d'.state = d.state
      /\ d'.answers = d.answers /\ d'.triggers = d.triggers
      /\ d'.ok = FALSE /\ d'.errors = {} /\ d'.result = 0
  BY <1>1, <1>2, ResetFields
<1>6. \A q \in Port : ~Busy(d, q)
  BY <1>1, <1>3, OtherPort
<1>7. \A q \in Port : PortGood(d', q) /\ ~Busy(d', q)
  BY <1>2, <1>5, <1>6, Zenon DEF PortGood, Busy
<1>8. Over(d')
  BY <1>4, <1>5 DEF SameTransaction, Over
<1>9. INSIDE \notin Port /\ 0 \in Port
  BY SMT DEF INSIDE, Port
<1> QED BY <1>1, <1>5, <1>7, <1>8, <1>9, OverIsGood, Zenon
        DEF RequestsGood, InsideGood

LEMMA NextCardInv ==
  ASSUME OnePortAtATime, CardInv, [Next]_vars
  PROVE  CardInv'
<1> DEFINE Lines == {"quiet", "sent", "good", "new", "failed", "wrong", "refused"}
           Places == {OUTSIDE, INSIDE} \cup Port
           Goal == /\ line' \in Lines /\ thread' \in Places
                   /\ RequestsGood(d', thread') /\ TransactionGood(d')
<1>0. /\ line \in Lines /\ thread \in Places
      /\ RequestsGood(d, thread) /\ TransactionGood(d)
      /\ "quiet" \in Lines /\ "sent" \in Lines
  BY DEF CardInv
<1> SUFFICES Goal
  BY DEF CardInv
<1>1. CASE VBlank
  BY <1>0, <1>1, BlankKeeps DEF VBlank
<1>2. CASE CardInterrupt
  BY <1>0, <1>2, ByteKeeps DEF CardInterrupt
<1>3. CASE FastTrack
  BY <1>0, <1>3, QuietSteps DEF FastTrack
<1>4. CASE PadsRead
  BY <1>0, <1>4 DEF PadsRead
<1>5. CASE CardAcknowledges
  <2>1. line' \in Lines
    BY <1>5 DEF CardAcknowledges, Replies
  <2> QED BY <1>0, <1>5, <2>1 DEF CardAcknowledges
<1>6. CASE StartCard
  BY <1>0, <1>6, QuietSteps DEF StartCard
<1>7. CASE StopCard
  BY <1>0, <1>7, QuietSteps DEF StopCard
<1>8. CASE AllowNewCard
  BY <1>0, <1>8, QuietSteps DEF AllowNewCard
<1>9. ASSUME NEW p \in Port, Calls(p) PROVE Goal
  <2>1. ASSUME NEW what \in {READ, WRITE}, McSector(p, what) PROVE Goal
    BY <1>0, <2>1, SectorKeeps DEF McSector
  <2>2. CASE CardInfo(p)
    BY <1>0, <2>2, InfoKeeps DEF CardInfo
  <2>3. CASE BuReadTOC(p)
    BY <1>0, <2>3, TOCKeeps DEF BuReadTOC
  <2>4. CASE Enters(p)
    BY <1>0, <2>4, EntersKeeps DEF Enters
  <2>5. ASSUME NEW what \in {READ, WRITE}, NEW n \in Counts, Transfer(p, what, n)
        PROVE  Goal
    BY <1>0, <2>5, TransferKeeps DEF Transfer
  <2>6. ASSUME NEW what \in Asked, SyncCall(p, what) PROVE Goal
    BY <1>0, <2>6, SyncKeeps DEF SyncCall
  <2> QED BY <1>9, <2>1, <2>2, <2>3, <2>4, <2>5, <2>6 DEF Calls
<1>10. CASE McWaitForStatus
  BY <1>0, <1>10, WaitKeeps DEF McWaitForStatus
<1>11. CASE Leave
  <2>1. OUTSIDE # INSIDE /\ OUTSIDE \notin Port
    BY SMT DEF OUTSIDE, INSIDE, Port
  <2> QED BY <1>0, <1>11, <2>1 DEF Leave, RequestsGood
<1>12. CASE UNCHANGED vars
  BY <1>0, <1>12 DEF vars
<1> QED BY <1>1, <1>2, <1>3, <1>4, <1>5, <1>6, <1>7, <1>8, <1>9, <1>10, <1>11,
           <1>12 DEF Next, Interrupt

(* While the program leaves one port alone until the other has its answer,  *)
(* every request is answered once, no chain of sectors stops in the middle, *)
(* its event comes once, every byte is in its place, and a waiting program  *)
(* is told of its own request, whatever the card replies and whenever the   *)
(* blanks come (sio0/driver.c, sio0/card.c, card/backupunit.c).             *)
THEOREM CardAnswers ==
  ASSUME OnePortAtATime
  PROVE  Spec => []RequestsAreAnswered
<1>1. Init => CardInv
  BY InitCardInv
<1>2. CardInv /\ [Next]_vars => CardInv'
  BY NextCardInv
<1>3. CardInv => RequestsAreAnswered
  <2> SUFFICES ASSUME CardInv PROVE RequestsAreAnswered
    OBVIOUS
  <2>1. /\ Typed(d) /\ \A p \in Port : PortGood(d, p)
        /\ TransactionGood(d)
        /\ thread \in Port => WaitGood(d, thread)
    BY DEF CardInv, RequestsGood
  <2>2. TypeOK
    <3>1. /\ d.inProgress \in BOOLEAN /\ d.gotError \in BOOLEAN /\ d.skip \in BOOLEAN
          /\ d.fast \in BOOLEAN /\ d.on \in BOOLEAN /\ d.ok \in BOOLEAN
          /\ d.started \in BOOLEAN /\ d.failed \in BOOLEAN
      BY <2>1, Zenon DEF Typed
    <3>2. {d.inProgress, d.gotError, d.skip, d.fast, d.on, d.ok, d.started}
            \subseteq BOOLEAN
      BY <3>1, Zenon
    <3>3. /\ \A p \in Port :
               /\ d.flags[p] \in Asked \cup {IDLE}
               /\ d.bu[p] \in {0, 1, 2, 3, 4, 7} /\ d.count[p] \in Nat
               /\ d.state[p] \in 0 .. 3
               /\ d.sector[p] \in 0 .. DirSectors + BrokenSectors
          /\ d.op \in 0 .. 13 /\ {d.flip, d.last} \subseteq Port
          /\ d.errors \subseteq 0 .. 2 /\ d.result \in 0 .. 3
      BY <2>1, SMT DEF Typed
    <3> QED BY <3>1, <3>2, <3>3, Zenon DEF TypeOK, CardInv
  <2>3. AnsweredOnce /\ ChainsGoOn /\ TriggeredOnce
    BY <2>1 DEF PortGood, AnsweredOnce, ChainsGoOn, TriggeredOnce
  <2>4. BytesInOrder /\ InterruptOnlyInTransaction
    BY <2>1, Zenon DEF TransactionGood, BytesInOrder, InterruptOnlyInTransaction
  <2>5. WaitTellsOwn
    BY <2>1, Zenon DEF WaitTellsOwn, WaitGood
  <2> QED BY <2>2, <2>3, <2>4, <2>5 DEF RequestsAreAnswered
<1> QED BY <1>1, <1>2, <1>3, PTL DEF Spec

-----------------------------------------------------------------------------
(* The allocator. *)
(* A set of numbers that is not empty has a least member. *)
LEMMA LeastExists ==
  ASSUME NEW S, S \subseteq Nat, S # {}
  PROVE  \E m \in S : \A n \in S : m =< n
<1> DEFINE R == OpToRel(<, Nat)
<1>1. \A m, n \in Nat : <<m, n>> \in R <=> m < n
  BY DEF OpToRel
<1> HIDE DEF R
<1>2. PICK m \in S : \A n \in S : ~(<<n, m>> \in R)
  BY NatLessThanWellFounded, WFMin DEF R
<1>3. \A n \in S : ~(n < m)
  BY <1>1, <1>2
<1>4. \A n \in S : m =< n
  BY <1>3, SMT
<1> QED BY <1>4

-----------------------------------------------------------------------------
(* The list of blocks. *)
Blocks == [at : Nat, size : Nat]

(* Blocks are in the order of the heap and in its used part. *)
HeapListed(h) ==
  /\ h.blocks \in Seq(Blocks) /\ h.bottom \in 0 .. HeapSize
  /\ \A i \in 1 .. Len(h.blocks) : End(h.blocks[i]) =< h.bottom
  /\ \A i, j \in 1 .. Len(h.blocks) : i < j => h.blocks[i].at < h.blocks[j].at
  /\ h.bottom = IF h.blocks = <<>> THEN 0 ELSE End(h.blocks[Len(h.blocks)])

(* No block reaches into a later one. *)
HeapOrdered(h) ==
  \A i, j \in 1 .. Len(h.blocks) :
    i < j => End(h.blocks[i]) =< h.blocks[j].at

(* The blocks are what f says is held. *)
HeapHeld(h, f) ==
  /\ \A i \in 1 .. Len(h.blocks) :
       /\ Ptr(h.blocks[i]) \in DOMAIN f
       /\ f[Ptr(h.blocks[i])] =< h.blocks[i].size
  /\ \A p \in DOMAIN f : \E i \in 1 .. Len(h.blocks) : Ptr(h.blocks[i]) = p
  /\ \A p \in DOMAIN f : f[p] \in Sizes

Inserted(bs, cs, k, b) ==
  /\ cs \in Seq(Blocks) /\ Len(cs) = Len(bs) + 1
  /\ \A i \in 1 .. Len(cs) :
       cs[i] = IF i =< k THEN bs[i] ELSE IF i = k + 1 THEN b ELSE bs[i - 1]

Removed(bs, cs, k) ==
  /\ cs \in Seq(Blocks) /\ Len(cs) = Len(bs) - 1
  /\ \A i \in 1 .. Len(cs) : cs[i] = IF i < k THEN bs[i] ELSE bs[i + 1]

LEMMA InsertsAt ==
  ASSUME NEW bs \in Seq(Blocks), NEW k \in 0 .. Len(bs), NEW b \in Blocks
  PROVE  Inserted(bs, InsertAt(bs, k + 1, b), k, b)
<1> DEFINE N == Len(bs)
           s == SubSeq(bs, 1, k)
           t == SubSeq(bs, k + 1, N)
           u == s \o <<b>>
<1>1. N \in Nat /\ k \in Int /\ \A i \in 1 .. N : bs[i] \in Blocks
  BY LenProperties, ElementOfSeq
<1>2. /\ s \in Seq(Blocks) /\ Len(s) = k
      /\ \A i \in 1 .. k : s[i] = bs[i]
  <2>1. \A i \in 1 .. k : bs[i] \in Blocks
    BY <1>1, SMT
  <2> HIDE DEF s, N
  <2>2. /\ SubSeq(bs, 1, k) \in Seq(Blocks)
        /\ Len(SubSeq(bs, 1, k)) = IF 1 =< k THEN k - 1 + 1 ELSE 0
        /\ \A i \in 1 .. k - 1 + 1 : SubSeq(bs, 1, k)[i] = bs[1 + i - 1]
    BY <1>1, <2>1, SubSeqProperties
  <2> QED BY <2>2, SMT DEF s
<1>3. /\ t \in Seq(Blocks) /\ Len(t) = N - k
      /\ \A i \in 1 .. N - k : t[i] = bs[k + i]
  <2>1. \A i \in k + 1 .. N : bs[i] \in Blocks
    BY <1>1, SMT
  <2> HIDE DEF t, N
  <2>2. k + 1 \in Int /\ N \in Int
    BY <1>1, SMT
  <2>3. /\ SubSeq(bs, k + 1, N) \in Seq(Blocks)
        /\ Len(SubSeq(bs, k + 1, N))
             = IF k + 1 =< N THEN N - (k + 1) + 1 ELSE 0
        /\ \A i \in 1 .. N - (k + 1) + 1 :
             SubSeq(bs, k + 1, N)[i] = bs[k + 1 + i - 1]
    BY <2>1, <2>2, SubSeqProperties
  <2> QED BY <1>1, <2>3, SMT DEF t, N
<1> HIDE DEF s, t
<1>4. <<b>> \in Seq(Blocks) /\ Len(<<b>>) = 1 /\ <<b>>[1] = b
  BY SMT
<1>5. /\ u \in Seq(Blocks) /\ Len(u) = k + 1
      /\ \A i \in 1 .. k + 1 : u[i] = IF i =< k THEN bs[i] ELSE b
  <2>1. /\ u \in Seq(Blocks) /\ Len(u) = Len(s) + 1
        /\ \A i \in 1 .. Len(s) + 1 : u[i] = IF i =< Len(s) THEN s[i] ELSE <<b>>[i - Len(s)]
    BY <1>2, <1>4, ConcatProperties
  <2> HIDE DEF u
  <2> QED BY <1>2, <1>4, <2>1, SMT
<1> HIDE DEF u
<1>6. /\ u \o t \in Seq(Blocks) /\ Len(u \o t) = Len(u) + Len(t)
      /\ \A i \in 1 .. Len(u) + Len(t) :
           (u \o t)[i] = IF i =< Len(u) THEN u[i] ELSE t[i - Len(u)]
  BY <1>3, <1>5, ConcatProperties
<1>7. InsertAt(bs, k + 1, b) = u \o t
  <2> DEFINE j == k + 1
  <2>1. j - 1 = k
    BY <1>1, SMT
  <2> HIDE DEF j
  <2>2. InsertAt(bs, j, b) = (SubSeq(bs, 1, k) \o <<b>>) \o SubSeq(bs, j, Len(bs))
    BY <2>1, Zenon DEF InsertAt
  <2> QED BY <2>2, Zenon DEF u, s, t, j
<1> DEFINE c == u \o t
<1> HIDE DEF c
<1>8. /\ c \in Seq(Blocks) /\ Len(c) = N + 1
      /\ \A i \in 1 .. N + 1 : c[i] = IF i =< k + 1 THEN u[i] ELSE t[i - (k + 1)]
  BY <1>1, <1>3, <1>5, <1>6, SMT DEF c
<1>9. ASSUME NEW i \in 1 .. N + 1
      PROVE  c[i] = IF i =< k THEN bs[i] ELSE IF i = k + 1 THEN b ELSE bs[i - 1]
  <2>1. CASE i =< k + 1
    BY <1>1, <1>5, <1>8, <2>1, SMT
  <2>2. CASE i > k + 1
    <3>1. i - (k + 1) \in 1 .. N - k /\ k + (i - (k + 1)) = i - 1
      BY <1>1, <2>2, SMT
    <3>2. c[i] = t[i - (k + 1)]
      BY <1>1, <1>8, <2>2, SMT
    <3>3. c[i] = bs[i - 1]
      BY <1>3, <3>1, <3>2
    <3> QED BY <1>1, <2>2, <3>3, SMT
  <2> QED BY <1>1, <2>1, <2>2, SMT
<1>10. Inserted(bs, c, k, b)
  BY <1>8, <1>9 DEF Inserted
<1> QED BY <1>7, <1>10 DEF c

LEMMA InsertsFront ==
  ASSUME NEW bs \in Seq(Blocks), NEW b \in Blocks
  PROVE  Inserted(bs, <<b>> \o bs, 0, b)
<1>1. <<b>> \in Seq(Blocks) /\ Len(<<b>>) = 1 /\ <<b>>[1] = b /\ Len(bs) \in Nat
  BY LenProperties, SMT
<1>2. /\ <<b>> \o bs \in Seq(Blocks) /\ Len(<<b>> \o bs) = 1 + Len(bs)
      /\ \A i \in 1 .. 1 + Len(bs) :
           (<<b>> \o bs)[i] = IF i =< 1 THEN <<b>>[i] ELSE bs[i - 1]
  BY <1>1, ConcatProperties
<1> DEFINE c == <<b>> \o bs
<1> HIDE DEF c
<1>3. /\ Len(c) = Len(bs) + 1
      /\ \A i \in 1 .. Len(c) :
           c[i] = IF i =< 0 THEN bs[i] ELSE IF i = 0 + 1 THEN b ELSE bs[i - 1]
  BY <1>1, <1>2, SMT DEF c
<1> QED BY <1>2, <1>3 DEF Inserted, c

LEMMA InsertsLast ==
  ASSUME NEW bs \in Seq(Blocks), NEW b \in Blocks
  PROVE  Inserted(bs, Append(bs, b), Len(bs), b)
<1>1. Len(bs) \in Nat
  BY LenProperties
<1>2. /\ Append(bs, b) \in Seq(Blocks) /\ Len(Append(bs, b)) = Len(bs) + 1
      /\ \A i \in 1 .. Len(bs) : Append(bs, b)[i] = bs[i]
      /\ Append(bs, b)[Len(bs) + 1] = b
  BY AppendProperties
<1> DEFINE c == Append(bs, b)
<1> HIDE DEF c
<1>3. \A i \in 1 .. Len(c) :
        c[i] = IF i =< Len(bs) THEN bs[i]
               ELSE IF i = Len(bs) + 1 THEN b ELSE bs[i - 1]
  BY <1>1, <1>2, SMT DEF c
<1> QED BY <1>2, <1>3 DEF Inserted, c

LEMMA RemovesAt ==
  ASSUME NEW bs \in Seq(Blocks), NEW k \in 1 .. Len(bs)
  PROVE  Removed(bs, RemoveAt(bs, k), k)
<1> DEFINE N == Len(bs)
           s == SubSeq(bs, 1, k - 1)
           t == SubSeq(bs, k + 1, N)
           c == s \o t
<1>1. N \in Nat /\ k \in Int /\ \A i \in 1 .. N : bs[i] \in Blocks
  BY LenProperties, ElementOfSeq
<1>2. /\ s \in Seq(Blocks) /\ Len(s) = k - 1
      /\ \A i \in 1 .. k - 1 : s[i] = bs[i]
  <2>1. (\A i \in 1 .. k - 1 : bs[i] \in Blocks) /\ k - 1 \in Int
    BY <1>1, SMT
  <2> HIDE DEF s, N
  <2>2. /\ SubSeq(bs, 1, k - 1) \in Seq(Blocks)
        /\ Len(SubSeq(bs, 1, k - 1)) = IF 1 =< k - 1 THEN k - 1 - 1 + 1 ELSE 0
        /\ \A i \in 1 .. k - 1 - 1 + 1 : SubSeq(bs, 1, k - 1)[i] = bs[1 + i - 1]
    BY <1>1, <2>1, SubSeqProperties
  <2> QED BY <2>2, SMT DEF s
<1>3. /\ t \in Seq(Blocks) /\ Len(t) = N - k
      /\ \A i \in 1 .. N - k : t[i] = bs[k + i]
  <2>1. \A i \in k + 1 .. N : bs[i] \in Blocks
    BY <1>1, SMT
  <2> HIDE DEF t, N
  <2>2. k + 1 \in Int /\ N \in Int
    BY <1>1, SMT
  <2>3. /\ SubSeq(bs, k + 1, N) \in Seq(Blocks)
        /\ Len(SubSeq(bs, k + 1, N))
             = IF k + 1 =< N THEN N - (k + 1) + 1 ELSE 0
        /\ \A i \in 1 .. N - (k + 1) + 1 :
             SubSeq(bs, k + 1, N)[i] = bs[k + 1 + i - 1]
    BY <2>1, <2>2, SubSeqProperties
  <2> QED BY <1>1, <2>3, SMT DEF t, N
<1> HIDE DEF s, t
<1>4. /\ c \in Seq(Blocks) /\ Len(c) = Len(s) + Len(t)
      /\ \A i \in 1 .. Len(s) + Len(t) :
           c[i] = IF i =< Len(s) THEN s[i] ELSE t[i - Len(s)]
  BY <1>2, <1>3, ConcatProperties
<1> HIDE DEF c
<1>5. /\ Len(c) = N - 1
      /\ \A i \in 1 .. N - 1 : c[i] = IF i =< k - 1 THEN s[i] ELSE t[i - (k - 1)]
  BY <1>1, <1>2, <1>3, <1>4, SMT
<1>6. ASSUME NEW i \in 1 .. N - 1
      PROVE  c[i] = IF i < k THEN bs[i] ELSE bs[i + 1]
  <2>1. CASE i < k
    BY <1>1, <1>2, <1>5, <2>1, SMT
  <2>2. CASE i >= k
    <3>1. i - (k - 1) \in 1 .. N - k /\ k + (i - (k - 1)) = i + 1
      BY <1>1, <2>2, SMT
    <3>2. c[i] = t[i - (k - 1)]
      BY <1>1, <1>5, <2>2, SMT
    <3>3. c[i] = bs[i + 1]
      BY <1>3, <3>1, <3>2
    <3> QED BY <1>1, <2>2, <3>3, SMT
  <2> QED BY <1>1, <2>1, <2>2, SMT
<1> QED BY <1>4, <1>5, <1>6 DEF Removed, c, s, t, RemoveAt

-----------------------------------------------------------------------------
(* What the searches of the list find. *)

LEMMA LeastFound ==
  ASSUME NEW S, S \subseteq Nat, S # {}
  PROVE  Min(S) \in S
<1>1. \E m \in S : \A n \in S : m =< n
  BY LeastExists
<1> QED BY <1>1, Zenon DEF Min

(* What there is to know of a block. *)
Sound(b) ==
  /\ b.at \in Nat /\ b.size \in Nat
  /\ Ptr(b) = b.at + 2 /\ End(b) = b.at + 2 + b.size

LEMMA BlockSound ==
  ASSUME NEW b \in Blocks PROVE Sound(b)
<1>1. b.at \in Nat /\ b.size \in Nat
  BY DEF Blocks
<1> QED BY <1>1, SMT DEF Sound, Ptr, End, HEADER

LEMMA BlockFields ==
  ASSUME NEW bs \in Seq(Blocks)
  PROVE  /\ Len(bs) \in Nat
         /\ \A i \in 1 .. Len(bs) : Sound(bs[i])
<1>1. Len(bs) \in Nat /\ \A i \in 1 .. Len(bs) : bs[i] \in Blocks
  BY LenProperties, ElementOfSeq
<1> QED BY <1>1, BlockSound

LEMMA SoundEnd ==
  ASSUME NEW x, Sound(x) PROVE End(x) \in Nat /\ Ptr(x) \in Nat
  BY SMT DEF Sound

LEMMA BlocksFollow ==
  ASSUME NEW x, NEW y, Sound(x), Sound(y), End(x) =< y.at
  PROVE  /\ x.at < y.at /\ Ptr(x) # Ptr(y)
         /\ End(x) < End(y)
         /\ \A z : Sound(z) /\ End(y) =< z.at => End(x) =< z.at
  BY SMT DEF Sound

LEMMA PiecesFollow ==
  ASSUME NEW x, NEW y, Sound(x), Sound(y)
  PROVE  /\ Ptr(x) =< End(x)
         /\ x.at < y.at => Ptr(x) < Ptr(y)
         /\ \A m \in Nat : End(x) =< y.at => End(x) =< Ptr(y) + m + 2
         /\ \A m \in Nat : End(x) =< y.at /\ m =< x.size
                             => Ptr(x) + m =< Ptr(y)
  BY SMT DEF Sound

LEMMA FitFound ==
  ASSUME NEW h, h.blocks \in Seq(Blocks), NEW n \in Nat
  PROVE  LET k == find_fit(h, n)
         IN  /\ k # 0 => k \in 1 .. Len(h.blocks) - 1 /\ Gap(h, k) >= n
             /\ k = 0 => \A j \in 1 .. Len(h.blocks) - 1 : Gap(h, j) < n
<1> DEFINE N == Len(h.blocks) - 1
           gs == [k \in 1 .. N |-> Gap(h, k)]
           I == {i \in 1 .. Len(gs) : gs[i] >= n}
           k == find_fit(h, n)
<1>1. k = IF I # {} THEN Min(I) ELSE 0
  BY DEF find_fit, SelectInSeq
<1>2. /\ Len(h.blocks) \in Nat
      /\ \A j \in 1 .. N : Gap(h, j) \in Int
  <2>1. /\ Len(h.blocks) \in Nat
        /\ \A i \in 1 .. Len(h.blocks) : Sound(h.blocks[i])
    BY BlockFields DEF Sound
  <2>2. ASSUME NEW j \in 1 .. N PROVE Gap(h, j) \in Int
    <3>1. j \in 1 .. Len(h.blocks) /\ j + 1 \in 1 .. Len(h.blocks)
      BY <2>1, SMT
    <3>2. /\ h.blocks[j].at \in Nat /\ h.blocks[j].size \in Nat
          /\ h.blocks[j + 1].at \in Nat
      BY <2>1, <3>1 DEF Sound
    <3> QED BY <3>2, SMTT(30) DEF Gap, End, Ptr, HEADER
  <2> QED BY <2>1, <2>2
<1> DEFINE M == IF N < 0 THEN 0 ELSE N
<1>3. M \in Nat /\ 1 .. M = 1 .. N
  BY <1>2, SMT
<1> HIDE DEF k, M
<1>4. gs \in Seq(Int) /\ DOMAIN gs = 1 .. N /\ \A j \in 1 .. N : gs[j] = Gap(h, j)
  <2>1. gs \in [1 .. M -> Int]
    BY <1>2, <1>3
  <2>2. gs \in Seq(Int)
    BY <1>3, <2>1, SeqDef
  <2> QED BY <2>2
<1> HIDE DEF gs
<1>5. 1 .. Len(gs) = 1 .. N
  BY <1>4, LenProperties
<1>6. I = {i \in 1 .. N : Gap(h, i) >= n}
  BY <1>4, <1>5
<1> HIDE DEF I
<1>7. I \subseteq Nat
  BY <1>2, <1>6, SMT
<1>8. CASE I # {}
  <2>1. k \in I
    BY <1>1, <1>7, <1>8, LeastFound
  <2>2. k # 0
    BY <1>2, <1>6, <2>1, SMT
  <2> QED BY <1>6, <2>1, <2>2 DEF k
<1>9. CASE I = {}
  <2>1. k = 0
    BY <1>1, <1>9
  <2>2. \A j \in 1 .. N : Gap(h, j) < n
    BY <1>2, <1>6, <1>9, SMT
  <2> QED BY <2>1, <2>2 DEF k
<1> QED BY <1>8, <1>9

LEMMA IndexFound ==
  ASSUME NEW h, h.blocks \in Seq(Blocks), NEW ptr,
         \E i \in 1 .. Len(h.blocks) : Ptr(h.blocks[i]) = ptr
  PROVE  LET k == Index(h, ptr)
         IN  k \in 1 .. Len(h.blocks) /\ k # 0 /\ Ptr(h.blocks[k]) = ptr
<1> DEFINE I == {i \in 1 .. Len(h.blocks) : Ptr(h.blocks[i]) = ptr}
<1>1. Index(h, ptr) = IF I # {} THEN Min(I) ELSE 0
  BY DEF Index, SelectInSeq
<1>2. Len(h.blocks) \in Nat
  BY LenProperties
<1>3. I \subseteq Nat /\ I # {} /\ 0 \notin I
  BY <1>2, SMT
<1>4. Index(h, ptr) \in I
  BY <1>1, <1>3, LeastFound
<1> QED BY <1>3, <1>4

-----------------------------------------------------------------------------
(* What an insertion, a removal and a change of a block's size leave of the *)
(* list.                                                                    *)

LEMMA InsertKeeps ==
  ASSUME HeapSize \in Nat,
         NEW h, NEW f, HeapListed(h), HeapOrdered(h), HeapHeld(h, f),
         NEW k \in 0 .. Len(h.blocks), NEW b \in Blocks, NEW g,
         Inserted(h.blocks, g.blocks, k, b),
         k > 0 => End(h.blocks[k]) =< b.at,
         k < Len(h.blocks) => /\ End(b) =< h.blocks[k + 1].at
                              /\ g.bottom = h.bottom,
         k = Len(h.blocks) => g.bottom = End(b) /\ g.bottom =< HeapSize,
         NEW n \in Sizes, n =< b.size
  PROVE  /\ HeapListed(g) /\ HeapOrdered(g)
         /\ HeapHeld(g, With(f, Ptr(b), n))
         /\ Ptr(b) \notin DOMAIN f
<1> DEFINE bs == h.blocks
           cs == g.blocks
           N == Len(bs)
           e == With(f, Ptr(b), n)
<1>1. /\ N \in Nat /\ Len(cs) = N + 1 /\ k \in Nat /\ k =< N
      /\ \A i \in 1 .. N : Sound(bs[i])
      /\ \A i \in 1 .. N + 1 : Sound(cs[i])
      /\ Sound(b) /\ h.bottom \in Nat
  <2>1. /\ bs \in Seq(Blocks) /\ cs \in Seq(Blocks) /\ Len(cs) = N + 1
        /\ h.bottom \in 0 .. HeapSize
    BY DEF HeapListed, Inserted
  <2>2. /\ N \in Nat /\ \A i \in 1 .. N : Sound(bs[i])
        /\ \A i \in 1 .. N + 1 : Sound(cs[i]) /\ Sound(b)
    BY <2>1, BlockFields, BlockSound
  <2> QED BY <2>1, <2>2, BlockSound, SMT
<1>2. \A i \in 1 .. N + 1 :
        cs[i] = IF i =< k THEN bs[i] ELSE IF i = k + 1 THEN b ELSE bs[i - 1]
  BY <1>1 DEF Inserted
<1>3. \A i, j \in 1 .. N : i < j => End(bs[i]) =< bs[j].at
  BY DEF HeapOrdered
<1>4. \A i \in 1 .. N : End(bs[i]) =< h.bottom
  BY DEF HeapListed
<1> HIDE DEF bs, cs, N
<1>5. \A i \in 1 .. N : i =< k => End(bs[i]) =< b.at
  <2> SUFFICES ASSUME NEW i \in 1 .. N, i =< k PROVE End(bs[i]) =< b.at
    OBVIOUS
  <2>1. k \in 1 .. N /\ End(bs[k]) =< b.at
    BY <1>1, SMT DEF bs
  <2>2. CASE i = k
    BY <2>1, <2>2
  <2>3. CASE i < k
    <3>1. End(bs[i]) =< bs[k].at
      BY <1>3, <2>1, <2>3
    <3>2. Sound(bs[i]) /\ Sound(bs[k]) /\ Sound(b)
      BY <1>1, <2>1
    <3> QED BY <2>1, <3>1, <3>2, BlocksFollow
  <2> QED BY <1>1, <2>2, <2>3, SMT
<1>6. \A i \in 1 .. N : i > k => End(b) =< bs[i].at
  <2> SUFFICES ASSUME NEW i \in 1 .. N, i > k PROVE End(b) =< bs[i].at
    OBVIOUS
  <2>1. k + 1 \in 1 .. N /\ End(b) =< bs[k + 1].at
    BY <1>1, SMT DEF bs, N
  <2>2. CASE i = k + 1
    BY <2>1, <2>2
  <2>3. CASE i > k + 1
    <3>1. End(bs[k + 1]) =< bs[i].at
      BY <1>3, <2>1, <2>3
    <3>2. Sound(bs[i]) /\ Sound(bs[k + 1]) /\ Sound(b)
      BY <1>1, <2>1
    <3> QED BY <2>1, <3>1, <3>2, BlocksFollow
  <2> QED BY <1>1, <2>2, <2>3, SMT
<1>7. \A i, j \in 1 .. N + 1 : i < j => End(cs[i]) =< cs[j].at
  <2> SUFFICES ASSUME NEW i \in 1 .. N + 1, NEW j \in 1 .. N + 1, i < j
               PROVE  End(cs[i]) =< cs[j].at
    OBVIOUS
  <2>1. CASE j =< k
    <3>1. i \in 1 .. N /\ j \in 1 .. N /\ cs[i] = bs[i] /\ cs[j] = bs[j]
      BY <1>1, <1>2, <2>1, SMT
    <3> QED BY <1>3, <3>1
  <2>2. CASE j = k + 1
    <3>1. i \in 1 .. N /\ i =< k /\ cs[i] = bs[i] /\ cs[j] = b
      BY <1>1, <1>2, <2>2, SMT
    <3> QED BY <1>5, <3>1
  <2>3. CASE j > k + 1 /\ i =< k
    <3>1. i \in 1 .. N /\ j - 1 \in 1 .. N /\ i < j - 1 /\ cs[i] = bs[i] /\ cs[j] = bs[j - 1]
      BY <1>1, <1>2, <2>3, SMT
    <3> QED BY <1>3, <3>1
  <2>4. CASE j > k + 1 /\ i = k + 1
    <3>1. j - 1 \in 1 .. N /\ j - 1 > k /\ cs[i] = b /\ cs[j] = bs[j - 1]
      BY <1>1, <1>2, <2>4, SMT
    <3> QED BY <1>6, <3>1
  <2>5. CASE j > k + 1 /\ i > k + 1
    <3>1. /\ i - 1 \in 1 .. N /\ j - 1 \in 1 .. N /\ i - 1 < j - 1
          /\ cs[i] = bs[i - 1] /\ cs[j] = bs[j - 1]
      BY <1>1, <1>2, <2>5, SMT
    <3> QED BY <1>3, <3>1
  <2> QED BY <1>1, <2>1, <2>2, <2>3, <2>4, <2>5, SMT
<1>8. \A i \in 1 .. N : bs[i] = IF i =< k THEN cs[i] ELSE cs[i + 1]
  <2> SUFFICES ASSUME NEW i \in 1 .. N
               PROVE  bs[i] = IF i =< k THEN cs[i] ELSE cs[i + 1]
    OBVIOUS
  <2>1. CASE i =< k
    BY <1>1, <1>2, <2>1, SMT
  <2>2. CASE i > k
    <3>1. i + 1 \in 1 .. N + 1 /\ ~(i + 1 =< k) /\ i + 1 # k + 1 /\ i + 1 - 1 = i
      BY <1>1, <2>2, SMT
    <3>2. cs[i + 1] = bs[i + 1 - 1]
      BY <1>2, <3>1
    <3> QED BY <1>1, <2>2, <3>1, <3>2, SMT
  <2> QED BY <1>1, <2>1, <2>2, SMT
<1>9. k + 1 \in 1 .. N + 1 /\ cs[k + 1] = b
  BY <1>1, <1>2, SMT
<1>10. HeapListed(g)
  <2>1. g.bottom \in 0 .. HeapSize /\ g.bottom >= h.bottom
    <3>1. CASE k < N
      BY <1>1, <3>1, SMT DEF HeapListed, N, bs
    <3>2. CASE k = N
      <4>1. g.bottom = End(b) /\ g.bottom =< HeapSize /\ HeapSize \in Int
        BY <3>2 DEF N, bs
      <4>2. g.bottom \in 0 .. HeapSize
        BY <1>1, <4>1, SMT DEF Sound
      <4>3. CASE N = 0
        <5>1. bs = <<>>
          BY <4>3, EmptySeq DEF HeapListed, bs, N
        <5> QED BY <4>2, <5>1, SMT DEF HeapListed, bs
      <4>4. CASE N # 0
        <5>1. N \in 1 .. N /\ bs # <<>>
          BY <1>1, <4>4, EmptySeq, SMT DEF bs, N
        <5>2. h.bottom = End(bs[N])
          BY <5>1 DEF HeapListed, bs, N
        <5>3. h.bottom =< b.at
          BY <1>5, <3>2, <5>1, <5>2
        <5> QED BY <1>1, <4>1, <4>2, <5>3, SMT DEF Sound
      <4> QED BY <4>3, <4>4
    <3> QED BY <1>1, <3>1, <3>2, SMT
  <2>2. \A i \in 1 .. N + 1 : End(cs[i]) =< g.bottom
    <3> SUFFICES ASSUME NEW i \in 1 .. N + 1 PROVE End(cs[i]) =< g.bottom
      OBVIOUS
    <3>1. CASE i = k + 1
      <4>1. CASE k = N
        <5>1. g.bottom = End(b) /\ Sound(b)
          BY <1>1, <4>1 DEF N, bs
        <5> QED BY <1>9, <3>1, <5>1, SMT DEF Sound
      <4>2. CASE k < N
        <5>1. k + 1 \in 1 .. N /\ k + 1 > k
          BY <1>1, <4>2, SMT
        <5>2. End(b) =< bs[k + 1].at /\ End(bs[k + 1]) =< h.bottom
          BY <1>4, <1>6, <5>1
        <5>3. Sound(bs[k + 1]) /\ Sound(b)
          BY <1>1, <5>1
        <5>4. End(b) =< g.bottom
          <6>1. End(b) < End(bs[k + 1])
            BY <5>2, <5>3, BlocksFollow
          <6>2. /\ End(b) \in Nat /\ End(bs[k + 1]) \in Nat
                /\ g.bottom \in Nat /\ h.bottom \in Nat
            <7>1. End(b) \in Nat /\ End(bs[k + 1]) \in Nat
              BY <5>3, SoundEnd
            <7>2. g.bottom \in Nat
              BY <2>1, SMT
            <7> QED BY <1>1, <7>1, <7>2
          <6> HIDE DEF e
          <6> QED BY <2>1, <5>2, <6>1, <6>2, SMT
        <5> QED BY <1>9, <3>1, <5>4
      <4> QED BY <1>1, <4>1, <4>2, SMT
    <3>2. CASE i # k + 1
      <4>1. \E j \in 1 .. N : cs[i] = bs[j]
        <5>1. CASE i =< k
          <6>1. i \in 1 .. N /\ cs[i] = bs[i]
            BY <1>1, <1>2, <5>1, SMT
          <6> QED BY <6>1
        <5>2. CASE i > k + 1
          <6>1. i - 1 \in 1 .. N /\ cs[i] = bs[i - 1]
            BY <1>1, <1>2, <5>2, SMT
          <6> QED BY <6>1
        <5> QED BY <1>1, <3>2, <5>1, <5>2, SMT
      <4>2. PICK j \in 1 .. N : cs[i] = bs[j]
        BY <4>1
      <4>3. End(bs[j]) =< h.bottom /\ Sound(bs[j])
        BY <1>1, <1>4
      <4>4. End(bs[j]) =< g.bottom
        BY <1>1, <2>1, <4>3, SMTT(30) DEF Sound
      <4> QED BY <4>2, <4>4
    <3> QED BY <3>1, <3>2
  <2>3. \A i, j \in 1 .. N + 1 : i < j => cs[i].at < cs[j].at
    <3> SUFFICES ASSUME NEW i \in 1 .. N + 1, NEW j \in 1 .. N + 1, i < j
                 PROVE  cs[i].at < cs[j].at
      OBVIOUS
    <3>1. End(cs[i]) =< cs[j].at /\ Sound(cs[i]) /\ Sound(cs[j])
      BY <1>1, <1>7
    <3> QED BY <3>1, SMT DEF Sound
  <2>4. cs \in Seq(Blocks) /\ cs # <<>>
    BY <1>1, EmptySeq, SMT DEF Inserted, cs
  <2>5. g.bottom = End(cs[N + 1])
    <3>1. CASE k = N
      BY <1>9, <3>1 DEF N, bs
    <3>2. CASE k < N
      <4>1. N \in 1 .. N /\ bs # <<>> /\ N + 1 \in 1 .. N + 1
            /\ ~(N + 1 =< k) /\ N + 1 # k + 1 /\ N + 1 - 1 = N
        BY <1>1, <3>2, EmptySeq, SMT DEF bs, N
      <4>2. h.bottom = End(bs[N]) /\ g.bottom = h.bottom
        BY <3>2, <4>1 DEF HeapListed, bs, N
      <4>3. cs[N + 1] = bs[N + 1 - 1]
        BY <1>2, <4>1
      <4> QED BY <4>1, <4>2, <4>3
    <3> QED BY <1>1, <3>1, <3>2, SMT
  <2> QED BY <1>1, <2>1, <2>2, <2>3, <2>4, <2>5 DEF HeapListed, cs
<1>11. HeapOrdered(g)
  BY <1>1, <1>7 DEF HeapOrdered, cs
<1>12. Ptr(b) \notin DOMAIN f
  <2> SUFFICES ASSUME Ptr(b) \in DOMAIN f PROVE FALSE
    OBVIOUS
  <2>1. PICK i \in 1 .. N : Ptr(bs[i]) = Ptr(b)
    BY DEF HeapHeld, bs, N
  <2>2. Sound(bs[i]) /\ Sound(b)
    BY <1>1
  <2>3. CASE i =< k
    <3>1. End(bs[i]) =< b.at
      BY <1>5, <2>3
    <3> QED BY <2>1, <2>2, <3>1, BlocksFollow
  <2>4. CASE i > k
    <3>1. End(b) =< bs[i].at
      BY <1>6, <2>4
    <3> QED BY <2>1, <2>2, <3>1, BlocksFollow
  <2> QED BY <1>1, <2>3, <2>4, SMT
<1>13. HeapHeld(g, e)
  <2>1. /\ DOMAIN e = DOMAIN f \cup {Ptr(b)}
        /\ \A p \in DOMAIN f : e[p] = f[p]
        /\ e[Ptr(b)] = n
    BY <1>12 DEF With
  <2> HIDE DEF e
  <2>2. ASSUME NEW i \in 1 .. N + 1
        PROVE  /\ Ptr(cs[i]) \in DOMAIN e
               /\ e[Ptr(cs[i])] =< cs[i].size
    <3>1. CASE i = k + 1
      BY <1>9, <2>1, <3>1
    <3>2. CASE i # k + 1
      <4>1. PICK j \in 1 .. N : cs[i] = bs[j]
        <5>1. CASE i =< k
          <6>1. i \in 1 .. N /\ cs[i] = bs[i]
            BY <1>1, <1>2, <5>1, SMT
          <6> QED BY <6>1
        <5>2. CASE i > k + 1
          <6>1. i - 1 \in 1 .. N /\ cs[i] = bs[i - 1]
            BY <1>1, <1>2, <5>2, SMT
          <6> QED BY <6>1
        <5> QED BY <1>1, <3>2, <5>1, <5>2, SMT
      <4>2. /\ Ptr(bs[j]) \in DOMAIN f
            /\ f[Ptr(bs[j])] =< bs[j].size
        BY DEF HeapHeld, bs, N
      <4> QED BY <2>1, <4>1, <4>2
    <3> QED BY <3>1, <3>2
  <2>3. ASSUME NEW p \in DOMAIN e
        PROVE  \E i \in 1 .. N + 1 : Ptr(cs[i]) = p
    <3>1. CASE p = Ptr(b)
      BY <1>9, <3>1
    <3>2. CASE p \in DOMAIN f
      <4>1. PICK i \in 1 .. N : Ptr(bs[i]) = p
        BY <3>2 DEF HeapHeld, bs, N
      <4>2. i \in 1 .. N + 1 /\ i + 1 \in 1 .. N + 1
        BY <1>1, SMT
      <4> QED BY <1>8, <4>1, <4>2
    <3> QED BY <2>1, <3>1, <3>2
  <2>4. \A p \in DOMAIN e : e[p] \in Sizes
    BY <2>1 DEF HeapHeld
  <2> QED BY <1>1, <2>2, <2>3, <2>4 DEF HeapHeld, cs
<1> QED BY <1>10, <1>11, <1>12, <1>13

LEMMA RemoveKeeps ==
  ASSUME HeapSize \in Nat,
         NEW h, NEW f, HeapListed(h), HeapOrdered(h), HeapHeld(h, f),
         NEW k \in 1 .. Len(h.blocks), NEW g, Removed(h.blocks, g.blocks, k),
         g.bottom = BottomAfter(h, k)
  PROVE  /\ HeapListed(g) /\ HeapOrdered(g)
         /\ HeapHeld(g, Without(f, Ptr(h.blocks[k])))
<1> DEFINE bs == h.blocks
           cs == g.blocks
           N == Len(bs)
           Old(i) == IF i < k THEN i ELSE i + 1
           p0 == Ptr(bs[k])
           e == Without(f, p0)
<1>1. /\ N \in Nat /\ k \in Nat /\ 1 =< k /\ k =< N /\ Len(cs) = N - 1
      /\ \A i \in 1 .. N : Sound(bs[i])
      /\ cs \in Seq(Blocks) /\ h.bottom \in 0 .. HeapSize
  <2>1. /\ bs \in Seq(Blocks) /\ cs \in Seq(Blocks) /\ Len(cs) = N - 1
        /\ h.bottom \in 0 .. HeapSize
    BY DEF HeapListed, Removed
  <2>2. N \in Nat /\ \A i \in 1 .. N : Sound(bs[i])
    BY <2>1, BlockFields
  <2> QED BY <2>1, <2>2, SMT
<1>2. \A i \in 1 .. N - 1 : cs[i] = bs[Old(i)]
  BY <1>1 DEF Removed
<1>3. \A i, j \in 1 .. N : i < j => End(bs[i]) =< bs[j].at
  BY DEF HeapOrdered
<1>4. /\ \A i \in 1 .. N : End(bs[i]) =< h.bottom
      /\ h.bottom = IF bs = <<>> THEN 0 ELSE End(bs[N])
      /\ \A i, j \in 1 .. N : i < j => bs[i].at < bs[j].at
  BY DEF HeapListed
<1>5. \A i \in 1 .. N - 1 : Old(i) \in 1 .. N /\ Old(i) # k
  BY <1>1, SMT
<1>6. \A i, j \in 1 .. N - 1 : i < j => Old(i) < Old(j)
  BY <1>1, SMT
<1>7. \A i \in 1 .. N : i = k \/ \E j \in 1 .. N - 1 : Old(j) = i
  <2> SUFFICES ASSUME NEW i \in 1 .. N, i # k
               PROVE  \E j \in 1 .. N - 1 : Old(j) = i
    OBVIOUS
  <2>1. CASE i < k
    <3>1. i \in 1 .. N - 1 /\ Old(i) = i
      BY <1>1, <2>1, SMT
    <3> QED BY <3>1
  <2>2. CASE i > k
    <3>1. i - 1 \in 1 .. N - 1 /\ Old(i - 1) = i
      BY <1>1, <2>2, SMT
    <3> QED BY <3>1
  <2> QED BY <1>1, <2>1, <2>2, SMT
<1> HIDE DEF bs, cs, N, Old
<1>8. HeapOrdered(g)
  <2>1. \A i, j \in 1 .. N - 1 : i < j => End(cs[i]) =< cs[j].at
    BY <1>2, <1>3, <1>5, <1>6, Zenon
  <2> QED BY <1>1, <2>1 DEF HeapOrdered, cs
<1>9. /\ g.bottom \in 0 .. HeapSize
      /\ g.bottom = IF cs = <<>> THEN 0 ELSE End(cs[N - 1])
      /\ \A i \in 1 .. N - 1 : End(cs[i]) =< g.bottom
  <2>1. CASE N = 1
    <3>1. g.bottom = 0 /\ cs = <<>> /\ 1 .. N - 1 = {}
      BY <1>1, <2>1, EmptySeq, SMT DEF BottomAfter, N, bs
    <3> QED BY <3>1, SMT
  <2>2. CASE N # 1
    <3>1. cs # <<>> /\ bs # <<>> /\ N - 1 \in 1 .. N - 1
      BY <1>1, <2>2, EmptySeq, SMT DEF N
    <3>2. CASE k = N
      <4>1. N - 1 \in 1 .. N /\ Old(N - 1) = N - 1
        BY <1>1, <2>2, <3>2, SMT DEF Old
      <4>2. g.bottom = End(bs[N - 1])
        BY <2>2, <3>2 DEF BottomAfter, N, bs
      <4>3. cs[N - 1] = bs[N - 1]
        BY <1>2, <3>1, <4>1
      <4>4. End(bs[N - 1]) =< h.bottom /\ End(bs[N - 1]) \in Nat
        BY <1>1, <1>4, <4>1, SoundEnd
      <4>5. g.bottom \in 0 .. HeapSize
        BY <1>1, <4>2, <4>4, SMT
      <4>6. ASSUME NEW i \in 1 .. N - 1 PROVE End(cs[i]) =< g.bottom
        <5>1. Old(i) \in 1 .. N /\ (Old(i) = N - 1 \/ Old(i) < N - 1)
          BY <1>1, <1>5, <3>2, SMT DEF Old
        <5>2. CASE Old(i) = N - 1
          BY <1>2, <4>2, <4>4, <5>2, SMT
        <5>3. CASE Old(i) < N - 1
          <6>1. End(bs[Old(i)]) =< bs[N - 1].at
            BY <1>3, <4>1, <5>1, <5>3
          <6>2. Sound(bs[Old(i)]) /\ Sound(bs[N - 1])
            BY <1>1, <4>1, <5>1
          <6>3. End(bs[Old(i)]) < End(bs[N - 1])
            BY <6>1, <6>2, BlocksFollow
          <6>4. End(bs[Old(i)]) \in Nat
            BY <6>2, SoundEnd
          <6>5. End(bs[Old(i)]) =< End(bs[N - 1])
            BY <4>4, <6>3, <6>4, SMT
          <6> QED BY <1>2, <4>2, <6>5
        <5> QED BY <5>1, <5>2, <5>3
      <4> QED BY <3>1, <4>2, <4>3, <4>5, <4>6
    <3>3. CASE k # N
      <4>1. g.bottom = h.bottom
        BY <2>2, <3>3 DEF BottomAfter, N, bs
      <4>2. Old(N - 1) = N
        BY <1>1, <3>3, SMT DEF Old
      <4>3. h.bottom = End(cs[N - 1])
        BY <1>2, <1>4, <3>1, <4>2
      <4> QED BY <1>1, <1>2, <1>4, <1>5, <3>1, <4>1, <4>3
    <3> QED BY <3>2, <3>3
  <2> QED BY <2>1, <2>2
<1>10. HeapListed(g)
  <2>1. \A i, j \in 1 .. N - 1 : i < j => cs[i].at < cs[j].at
    BY <1>2, <1>4, <1>5, <1>6, Zenon
  <2> QED BY <1>1, <1>9, <2>1 DEF HeapListed, cs
<1>11. HeapHeld(g, e)
  <2>1. /\ DOMAIN e = DOMAIN f \ {p0}
        /\ \A p \in DOMAIN e : e[p] = f[p]
    BY DEF Without
  <2> HIDE DEF e
  <2>2. \A i \in 1 .. N : i # k => Ptr(bs[i]) # p0
    <3> SUFFICES ASSUME NEW i \in 1 .. N, i # k PROVE Ptr(bs[i]) # p0
      OBVIOUS
    <3>1. k \in 1 .. N
      BY <1>1, SMT
    <3>2. Sound(bs[i]) /\ Sound(bs[k])
      BY <1>1, <3>1
    <3>3. CASE i < k
      <4>1. End(bs[i]) =< bs[k].at
        BY <1>3, <3>1, <3>3
      <4> QED BY <3>2, <4>1, BlocksFollow
    <3>4. CASE k < i
      <4>1. End(bs[k]) =< bs[i].at
        BY <1>3, <3>1, <3>4
      <4> QED BY <3>2, <4>1, BlocksFollow
    <3> QED BY <1>1, <3>3, <3>4, SMT
  <2>3. ASSUME NEW i \in 1 .. N - 1
        PROVE  /\ Ptr(cs[i]) \in DOMAIN e
               /\ e[Ptr(cs[i])] =< cs[i].size
    <3>1. Old(i) \in 1 .. N /\ Old(i) # k /\ cs[i] = bs[Old(i)]
      BY <1>2, <1>5
    <3>2. /\ Ptr(cs[i]) \in DOMAIN f
          /\ f[Ptr(cs[i])] =< cs[i].size
      BY <3>1 DEF HeapHeld, bs, N
    <3>3. Ptr(cs[i]) # p0
      BY <2>2, <3>1
    <3> QED BY <2>1, <3>2, <3>3
  <2>4. ASSUME NEW p \in DOMAIN e
        PROVE  \E i \in 1 .. N - 1 : Ptr(cs[i]) = p
    <3>1. PICK i \in 1 .. N : Ptr(bs[i]) = p
      BY <2>1 DEF HeapHeld, bs, N
    <3>2. i # k
      BY <2>1, <3>1
    <3>3. PICK j \in 1 .. N - 1 : Old(j) = i
      BY <1>7, <3>2
    <3> QED BY <1>2, <3>1, <3>3
  <2>5. \A p \in DOMAIN e : e[p] \in Sizes
    BY <2>1 DEF HeapHeld
  <2> QED BY <1>1, <2>3, <2>4, <2>5 DEF HeapHeld, cs
<1> QED BY <1>8, <1>10, <1>11 DEF bs

-----------------------------------------------------------------------------
(* The pieces of memory that f says is held are apart. *)
HeapApart(h, f) ==
  \A i, j \in 1 .. Len(h.blocks) :
    i < j => Ptr(h.blocks[i]) + f[Ptr(h.blocks[i])]
               =< Ptr(h.blocks[j])

LEMMA OrderedApart ==
  ASSUME NEW h, NEW f, HeapListed(h), HeapOrdered(h), HeapHeld(h, f),
         Sizes \subseteq Nat
  PROVE  HeapApart(h, f)
<1> SUFFICES ASSUME NEW i \in 1 .. Len(h.blocks), NEW j \in 1 .. Len(h.blocks),
                    i < j
             PROVE  Ptr(h.blocks[i]) + f[Ptr(h.blocks[i])]
                      =< Ptr(h.blocks[j])
  BY DEF HeapApart
<1> DEFINE x == h.blocks[i]
           y == h.blocks[j]
           m == f[Ptr(x)]
<1>1. Sound(x) /\ Sound(y) /\ End(x) =< y.at
  BY BlockFields DEF HeapListed, HeapOrdered
<1>2. m \in Nat /\ m =< x.size
  BY DEF HeapHeld
<1> HIDE DEF x, y, m
<1>3. Ptr(x) + m =< Ptr(y)
  BY <1>1, <1>2, SMT DEF Sound
<1> QED BY <1>3 DEF x, y, m

(* realloc in its place: the block grows or shrinks, up to one unit into    *)
(* the header of the next, and then it is crossed.                          *)
LEMMA ResizeKeeps ==
  ASSUME HeapSize \in Nat, Sizes \subseteq Nat,
         NEW h, NEW f, HeapListed(h), HeapOrdered(h), HeapHeld(h, f),
         NEW k \in 1 .. Len(h.blocks), NEW n \in Sizes, NEW bottom,
         k = Len(h.blocks) =>
           bottom = Ptr(h.blocks[k]) + n + 2 /\ bottom =< HeapSize,
         k # Len(h.blocks) =>
           /\ bottom = h.bottom
           /\ Ptr(h.blocks[k]) + n + 2 < Ptr(h.blocks[k + 1])
  PROVE  LET p0 == Ptr(h.blocks[k])
             g == Resized(h, k, n + 2, bottom)
             e == With(Without(f, p0), p0, n)
         IN  /\ HeapListed(g) /\ HeapHeld(g, e) /\ HeapApart(g, e)
             /\ ~Crossed(g) => HeapOrdered(g)
<1> DEFINE bs == h.blocks
           N == Len(bs)
           p0 == Ptr(bs[k])
           new == Block(bs[k].at, n + 2)
           g == Resized(h, k, n + 2, bottom)
           cs == g.blocks
           e == With(Without(f, p0), p0, n)
<1>1. /\ N \in Nat /\ k \in 1 .. N /\ n \in Nat /\ h.bottom \in 0 .. HeapSize
      /\ bs \in Seq(Blocks) /\ \A i \in 1 .. N : Sound(bs[i])
  BY BlockFields DEF HeapListed
<1>2. /\ new \in Blocks /\ Sound(new) /\ new.at = bs[k].at
      /\ Ptr(new) = p0 /\ End(new) = p0 + n + 2 /\ new.size = n + 2
  <2>1. Sound(bs[k])
    BY <1>1
  <2>2. new \in Blocks /\ new.at = bs[k].at /\ new.size = n + 2
    BY <1>1, <2>1, SMT DEF Sound, Blocks, Block
  <2>3. Sound(new)
    BY <2>2, BlockSound
  <2> HIDE DEF new
  <2>4. Ptr(new) = p0 /\ End(new) = p0 + n + 2
    BY <1>1, <2>1, <2>2, <2>3, SMTT(30) DEF Sound
  <2> QED BY <2>2, <2>3, <2>4
<1> HIDE DEF new
<1>3. /\ g.bottom = bottom /\ cs = [bs EXCEPT ![k] = new]
  BY DEF Resized, Heap, new
<1> HIDE DEF g, cs
<1>4. /\ cs \in Seq(Blocks) /\ Len(cs) = N
      /\ \A i \in 1 .. N : cs[i] = IF i = k THEN new ELSE bs[i]
  BY <1>1, <1>2, <1>3, ExceptSeq
<1>5. /\ \A i, j \in 1 .. N : i < j => End(bs[i]) =< bs[j].at
      /\ \A i, j \in 1 .. N : i < j => bs[i].at < bs[j].at
      /\ \A i \in 1 .. N : End(bs[i]) =< h.bottom
      /\ bs # <<>> => h.bottom = End(bs[N])
  BY DEF HeapOrdered, HeapListed
<1>6. /\ DOMAIN e = DOMAIN f \cup {p0} /\ e[p0] = n
      /\ \A p \in DOMAIN f \ {p0} : e[p] = f[p]
  BY DEF With, Without
<1>7. \A i \in 1 .. N : /\ Ptr(bs[i]) \in DOMAIN f
                        /\ f[Ptr(bs[i])] \in Nat
                        /\ f[Ptr(bs[i])] =< bs[i].size
  BY DEF HeapHeld
<1> HIDE DEF e
<1>8. \A i \in 1 .. N : i # k => Ptr(bs[i]) # p0
  <2> SUFFICES ASSUME NEW i \in 1 .. N, i # k PROVE Ptr(bs[i]) # p0
    OBVIOUS
  <2>1. Sound(bs[i]) /\ Sound(bs[k])
    BY <1>1
  <2>2. i < k \/ k < i
    BY <1>1, SMT
  <2>3. End(bs[i]) =< bs[k].at \/ End(bs[k]) =< bs[i].at
    BY <1>1, <1>5, <2>2
  <2> QED BY <2>1, <2>3, BlocksFollow
<1>9. \A i \in 1 .. N : k < i => p0 + n + 2 < Ptr(bs[i])
  <2> SUFFICES ASSUME NEW i \in 1 .. N, k < i
               PROVE  p0 + n + 2 < Ptr(bs[i])
    OBVIOUS
  <2>1. k # N /\ k + 1 \in 1 .. N /\ (i = k + 1 \/ k + 1 < i)
    BY <1>1, SMT
  <2>2. p0 + n + 2 < Ptr(bs[k + 1])
    BY <2>1
  <2>3. CASE k + 1 < i
    <3>1. Sound(bs[k]) /\ Sound(bs[k + 1]) /\ Sound(bs[i])
      BY <1>1, <2>1
    <3>2. bs[k + 1].at < bs[i].at
      BY <1>5, <2>1, <2>3
    <3>3. Ptr(bs[k + 1]) < Ptr(bs[i]) /\ p0 \in Nat
      BY <3>1, <3>2, PiecesFollow, SoundEnd
    <3>4. Ptr(bs[k + 1]) \in Nat /\ Ptr(bs[i]) \in Nat
      BY <3>1, SoundEnd
    <3> HIDE DEF p0, bs
    <3> QED BY <1>1, <2>2, <3>3, <3>4, SMT
  <2> QED BY <2>1, <2>2, <2>3
<1>10. HeapListed(g)
  <2>1. N # 0 /\ N \in 1 .. N /\ bs # <<>> /\ cs # <<>>
    BY <1>1, <1>4, EmptySeq, SMT
  <2>2. bottom \in 0 .. HeapSize /\ End(new) =< bottom
        /\ \A i \in 1 .. N : i # k => End(bs[i]) =< bottom
    <3>1. CASE k = N
      <4>1. bottom = p0 + n + 2 /\ bottom =< HeapSize /\ p0 \in Nat
        BY <1>1, <3>1, SoundEnd
      <4>2. bottom \in 0 .. HeapSize
        BY <1>1, <4>1, SMT
      <4>3. End(new) =< bottom
        BY <1>1, <1>2, <4>1, SMT
      <4>4. ASSUME NEW i \in 1 .. N, i # k PROVE End(bs[i]) =< bottom
        <5>1. i < k
          BY <1>1, <3>1, <4>4, SMT
        <5>2. End(bs[i]) =< bs[k].at /\ Sound(bs[i]) /\ Sound(bs[k])
          BY <1>1, <1>5, <5>1
        <5> QED BY <1>1, <4>1, <5>2, PiecesFollow
      <4> QED BY <4>2, <4>3, <4>4
    <3>2. CASE k # N
      <4>1. bottom = h.bottom /\ k < N
        BY <1>1, <3>2, SMT
      <4>2. p0 + n + 2 < Ptr(bs[N]) /\ h.bottom = End(bs[N])
        BY <1>5, <1>9, <2>1, <4>1
      <4>3. Sound(bs[N]) /\ Sound(bs[k])
        BY <1>1, <2>1
      <4>4. End(new) =< bottom
        <5>1. Ptr(bs[N]) =< End(bs[N]) /\ Ptr(bs[N]) \in Nat
              /\ End(bs[N]) \in Nat /\ p0 \in Nat
          BY <4>3, PiecesFollow, SoundEnd
        <5> QED BY <1>1, <1>2, <4>1, <4>2, <5>1, SMT
      <4> QED BY <1>1, <1>5, <4>1, <4>4
    <3> QED BY <3>1, <3>2
  <2>3. \A i \in 1 .. N : End(cs[i]) =< bottom
    BY <1>4, <2>2
  <2>4. \A i, j \in 1 .. N : i < j => cs[i].at < cs[j].at
    BY <1>2, <1>4, <1>5
  <2>5. bottom = End(cs[N])
    BY <1>2, <1>4, <1>5, <2>1
  <2> QED BY <1>3, <1>4, <2>1, <2>2, <2>3, <2>4, <2>5 DEF HeapListed, cs
<1>11. HeapHeld(g, e)
  <2>1. ASSUME NEW i \in 1 .. N
        PROVE  /\ Ptr(cs[i]) \in DOMAIN e
               /\ e[Ptr(cs[i])] =< cs[i].size
    <3>1. CASE i = k
      <4>1. cs[i] = new /\ n =< n + 2
        BY <1>1, <1>4, <3>1, SMT
      <4> QED BY <1>2, <1>6, <4>1
    <3>2. CASE i # k
      <4>1. cs[i] = bs[i] /\ Ptr(bs[i]) # p0
        BY <1>4, <1>8, <3>2
      <4> QED BY <1>6, <1>7, <4>1
    <3> QED BY <3>1, <3>2
  <2>2. ASSUME NEW p \in DOMAIN e
        PROVE  \E i \in 1 .. N : Ptr(cs[i]) = p
    <3>1. CASE p = p0
      BY <1>1, <1>2, <1>4, <3>1
    <3>2. CASE p # p0
      <4>1. PICK i \in 1 .. N : Ptr(bs[i]) = p
        BY <1>6, <3>2 DEF HeapHeld
      <4>2. cs[i] = bs[i]
        BY <1>4, <3>2, <4>1
      <4> QED BY <4>1, <4>2
    <3> QED BY <3>1, <3>2
  <2>3. \A p \in DOMAIN e : e[p] \in Sizes
    BY <1>6 DEF HeapHeld
  <2> QED BY <1>4, <2>1, <2>2, <2>3 DEF HeapHeld, cs
<1>12. HeapApart(g, e)
  <2> SUFFICES ASSUME NEW i \in 1 .. N, NEW j \in 1 .. N, i < j
               PROVE  Ptr(cs[i]) + e[Ptr(cs[i])] =< Ptr(cs[j])
    BY <1>4 DEF HeapApart, cs
  <2>1. Sound(bs[i]) /\ Sound(bs[j]) /\ End(bs[i]) =< bs[j].at
    BY <1>1, <1>5
  <2>2. CASE i = k
    <3>1. j # k /\ cs[i] = new /\ cs[j] = bs[j]
      BY <1>1, <1>4, <2>2, SMT
    <3>2. p0 + n + 2 < Ptr(bs[j])
      BY <1>9, <2>2
    <3>3. p0 \in Nat /\ Ptr(bs[j]) \in Nat
      BY <2>1, <2>2, SoundEnd
    <3>4. p0 + n =< Ptr(bs[j])
      <4> HIDE DEF p0
      <4> QED BY <1>1, <3>2, <3>3, SMT
    <3> QED BY <1>2, <1>6, <3>1, <3>4
  <2>3. CASE i # k
    <3>1. cs[i] = bs[i] /\ Ptr(cs[j]) = Ptr(bs[j])
      BY <1>2, <1>4, <2>3
    <3> DEFINE m == e[Ptr(bs[i])]
    <3>2. m \in Nat /\ m =< bs[i].size
      BY <1>6, <1>7, <1>8, <2>3
    <3> HIDE DEF m
    <3>3. Ptr(bs[i]) + m =< Ptr(bs[j])
      BY <2>1, <3>2, PiecesFollow
    <3> QED BY <3>1, <3>3 DEF m
  <2> QED BY <2>2, <2>3
<1>13. ASSUME ~Crossed(g) PROVE HeapOrdered(g)
  <2> SUFFICES ASSUME NEW i \in 1 .. N, NEW j \in 1 .. N, i < j
               PROVE  End(cs[i]) =< cs[j].at
    BY <1>4 DEF HeapOrdered, cs
  <2>1. CASE i = k
    <3>1. k \in 1 .. N - 1 /\ k + 1 \in 1 .. N /\ k + 1 # k /\ j # k
          /\ (j = k + 1 \/ k + 1 < j)
      BY <1>1, <2>1, SMT
    <3>2. cs[k] = new /\ cs[k + 1] = bs[k + 1] /\ cs[j] = bs[j] /\ cs[i] = new
      BY <1>1, <1>4, <2>1, <3>1
    <3>3. ~(bs[k + 1].at - End(new) < 0)
      BY <1>4, <1>13, <3>1, <3>2 DEF Crossed, Gap, cs
    <3>4. Sound(bs[k + 1]) /\ Sound(bs[j]) /\ End(new) \in Nat
      BY <1>1, <1>2, <3>1, SoundEnd
    <3>5. End(new) =< bs[k + 1].at
      BY <3>3, <3>4, SMT DEF Sound
    <3>6. CASE k + 1 < j
      <4>1. End(bs[k + 1]) =< bs[j].at
        BY <1>5, <3>1, <3>6
      <4> QED BY <1>2, <3>2, <3>4, <3>5, <4>1, BlocksFollow
    <3> QED BY <3>1, <3>2, <3>5, <3>6
  <2>2. CASE i # k
    BY <1>2, <1>4, <1>5, <2>2
  <2> QED BY <2>1, <2>2
<1> QED BY <1>10, <1>11, <1>12, <1>13 DEF g, e

(* malloc: NULL and the heap as it was, or a new block for the caller. *)
LEMMA MallocGives ==
  ASSUME HeapSize \in Nat,
         NEW h, NEW f, HeapListed(h), HeapOrdered(h), HeapHeld(h, f),
         NEW size \in Nat, NEW n \in Sizes, n =< size
  PROVE  LET r == multi_malloc(h, size)
         IN  \/ r.ptr = NULL /\ r.heap = h
             \/ /\ r.ptr # NULL /\ r.ptr \notin DOMAIN f
                /\ HeapListed(r.heap) /\ HeapOrdered(r.heap)
                /\ HeapHeld(r.heap, With(f, r.ptr, n))
<1> DEFINE r == multi_malloc(h, size)
           bs == h.blocks
           N == Len(bs)
           m == size + HEADER
<1>1. /\ N \in Nat /\ bs \in Seq(Blocks) /\ h.bottom \in 0 .. HeapSize
      /\ \A i \in 1 .. N : Sound(bs[i])
  BY BlockFields DEF HeapListed
<1>2. m \in Nat /\ m = size + 2 /\ HEADER = 2 /\ NULL = -1
  BY SMT DEF HEADER, NULL
<1>3. ASSUME NEW k \in 0 .. N, NEW at \in Nat, NEW g,
             Inserted(bs, g.blocks, k, Block(at, size)),
             r = Answer(at + 2, g),
             k > 0 => End(bs[k]) =< at,
             k < N => at + 2 + size =< bs[k + 1].at /\ g.bottom = h.bottom,
             k = N => g.bottom = at + 2 + size /\ g.bottom =< HeapSize
      PROVE  /\ r.ptr # NULL /\ r.ptr \notin DOMAIN f
             /\ HeapListed(r.heap) /\ HeapOrdered(r.heap)
             /\ HeapHeld(r.heap, With(f, r.ptr, n))
  <2> DEFINE b == Block(at, size)
  <2>1. b \in Blocks /\ b.at = at /\ b.size = size
    BY DEF Block, Blocks
  <2> HIDE DEF b
  <2>2. Sound(b)
    BY <2>1, BlockSound
  <2>3. Ptr(b) = at + 2 /\ End(b) = at + 2 + size
    BY <2>1, <2>2 DEF Sound
  <2>4. r.ptr = Ptr(b) /\ r.heap = g
    BY <1>3, <2>3 DEF Answer
  <2> HIDE DEF r, m
  <2>5. Inserted(bs, g.blocks, k, b)
    BY <1>3 DEF b
  <2>6. /\ HeapListed(g) /\ HeapOrdered(g)
        /\ HeapHeld(g, With(f, Ptr(b), n))
        /\ Ptr(b) \notin DOMAIN f
    BY <1>3, <2>1, <2>3, <2>5, InsertKeeps
  <2>7. r.ptr # NULL
    BY <1>2, <2>3, <2>4, SMT
  <2> QED BY <2>4, <2>6, <2>7
<1>4. CASE bs # <<>> /\ AtFront(h, m)
  <2> DEFINE g == Heap(<<Block(0, size)>> \o bs, h.bottom)
  <2>1. r = Answer(2, g)
    BY <1>2, <1>4, Zenon DEF multi_malloc
  <2>2. g.blocks = <<Block(0, size)>> \o bs /\ g.bottom = h.bottom
    BY DEF Heap
  <2>3. Block(0, size) \in Blocks
    BY DEF Block, Blocks
  <2>4. Inserted(bs, g.blocks, 0, Block(0, size))
    BY <1>1, <2>2, <2>3, InsertsFront
  <2> HIDE DEF g
  <2>5. N # 0 /\ 1 \in 1 .. N
    BY <1>1, <1>4, EmptySeq, SMT
  <2>6. size + 2 < bs[1].at
    BY <1>2, <1>4 DEF AtFront
  <2>7. bs[1].at \in Nat
    BY <1>1, <2>5 DEF Sound
  <2> HIDE DEF r, bs, N, m
  <2>8. /\ 0 \in 0 .. N /\ 0 \in Nat /\ r = Answer(0 + 2, g)
        /\ 0 > 0 => End(bs[0]) =< 0
        /\ 0 < N => 0 + 2 + size =< bs[0 + 1].at /\ g.bottom = h.bottom
        /\ 0 = N => g.bottom = 0 + 2 + size /\ g.bottom =< HeapSize
    <3>1. 0 + 2 + size =< bs[1].at /\ 0 + 1 = 1 /\ 0 + 2 = 2 /\ ~(0 > 0)
      BY <2>6, <2>7, SMT
    <3> QED BY <1>1, <2>1, <2>2, <2>5, <3>1, SMT
  <2>9. /\ r.ptr # NULL /\ r.ptr \notin DOMAIN f
        /\ HeapListed(r.heap) /\ HeapOrdered(r.heap)
        /\ HeapHeld(r.heap, With(f, r.ptr, n))
    BY <1>3, <2>4, <2>8, Zenon
  <2> QED BY <2>9 DEF r
<1>5. CASE ~(bs # <<>> /\ AtFront(h, m)) /\ bs # <<>> /\ find_fit(h, m) # 0
  <2> DEFINE k == find_fit(h, m)
             at == End(bs[k])
             g == Heap(InsertAt(bs, k + 1, Block(at, size)), h.bottom)
  <2>1. k \in 1 .. N - 1 /\ Gap(h, k) >= m
    BY <1>1, <1>2, <1>5, FitFound
  <2>2. r = Answer(Ptr(Block(at, size)), g)
    BY <1>5, Zenon DEF multi_malloc
  <2> HIDE DEF k
  <2>3. k \in 1 .. N /\ k + 1 \in 1 .. N /\ k \in 0 .. N
    BY <1>1, <2>1, SMT
  <2>4. Sound(bs[k]) /\ Sound(bs[k + 1])
    BY <1>1, <2>3
  <2>5. at \in Nat /\ bs[k + 1].at \in Nat
    BY <2>4, SoundEnd DEF Sound
  <2> HIDE DEF at
  <2>6. Block(at, size) \in Blocks
    BY <2>5 DEF Block, Blocks
  <2>7. g.blocks = InsertAt(bs, k + 1, Block(at, size)) /\ g.bottom = h.bottom
    BY DEF Heap
  <2>8. Inserted(bs, g.blocks, k, Block(at, size))
    BY <1>1, <2>3, <2>6, <2>7, InsertsAt
  <2> HIDE DEF g
  <2>9. Ptr(Block(at, size)) = at + 2
    BY <1>2 DEF Ptr, Block
  <2>10. bs[k + 1].at - at >= m
    BY <2>1 DEF Gap, at
  <2> HIDE DEF r, bs, N, m
  <2>11. at + 2 + size =< bs[k + 1].at /\ at =< at
    BY <1>2, <2>5, <2>10, SMT
  <2>12. End(bs[k]) =< at /\ k # N
    <3>1. k # N
      BY <1>1, <2>1, SMT
    <3> QED BY <2>11, <3>1 DEF at
  <2>13. /\ r = Answer(at + 2, g)
         /\ k > 0 => End(bs[k]) =< at
         /\ k < N => at + 2 + size =< bs[k + 1].at /\ g.bottom = h.bottom
         /\ k = N => g.bottom = at + 2 + size /\ g.bottom =< HeapSize
    BY <2>2, <2>7, <2>9, <2>11, <2>12
  <2>14. /\ r.ptr # NULL /\ r.ptr \notin DOMAIN f
         /\ HeapListed(r.heap) /\ HeapOrdered(r.heap)
         /\ HeapHeld(r.heap, With(f, r.ptr, n))
    BY <1>3, <2>3, <2>5, <2>8, <2>13, Zenon
  <2> QED BY <2>14 DEF r
<1>6. CASE ~(bs # <<>> /\ AtFront(h, m)) /\ ~(bs # <<>> /\ find_fit(h, m) # 0)
           /\ SbrkOk(h, m)
  <2> DEFINE b == Block(h.bottom, size)
             g == Heap(Append(bs, b), h.bottom + m)
  <2>1. r = Answer(Ptr(b), g)
    BY <1>6, Zenon DEF multi_malloc
  <2>2. h.bottom \in Nat
    BY <1>1, SMT
  <2>3. b \in Blocks /\ Ptr(b) = h.bottom + 2
    BY <1>2, <2>2 DEF Block, Blocks, Ptr
  <2> HIDE DEF b
  <2>4. g.blocks = Append(bs, b) /\ g.bottom = h.bottom + m
    BY DEF Heap
  <2>5. Inserted(bs, g.blocks, N, b)
    BY <1>1, <2>3, <2>4, InsertsLast
  <2> HIDE DEF g
  <2>6. h.bottom + m =< HeapSize
    BY <1>6 DEF SbrkOk
  <2>7. N > 0 => End(bs[N]) =< h.bottom
    <3>1. N > 0 => N \in 1 .. N
      BY <1>1, SMT
    <3> QED BY <3>1 DEF HeapListed
  <2> HIDE DEF r, bs, N, m
  <2>8. N \in 0 .. N /\ ~(N < N)
    BY <1>1, SMT
  <2>9. g.bottom = h.bottom + 2 + size
    BY <1>2, <2>2, <2>4, SMT
  <2>10. r = Answer(h.bottom + 2, g) /\ Inserted(bs, g.blocks, N, Block(h.bottom, size))
    BY <2>1, <2>3, <2>5 DEF b
  <2>11. /\ N < N => h.bottom + 2 + size =< bs[N + 1].at /\ g.bottom = h.bottom
         /\ N = N => g.bottom = h.bottom + 2 + size /\ g.bottom =< HeapSize
    BY <2>4, <2>6, <2>8, <2>9
  <2>12. /\ r.ptr # NULL /\ r.ptr \notin DOMAIN f
         /\ HeapListed(r.heap) /\ HeapOrdered(r.heap)
         /\ HeapHeld(r.heap, With(f, r.ptr, n))
    BY <1>3, <2>2, <2>7, <2>8, <2>10, <2>11, Zenon
  <2> QED BY <2>12 DEF r
<1>7. CASE ~(bs # <<>> /\ AtFront(h, m)) /\ ~(bs # <<>> /\ find_fit(h, m) # 0)
           /\ ~SbrkOk(h, m)
  <2>1. r = Answer(NULL, h)
    BY <1>7, Zenon DEF multi_malloc
  <2> QED BY <2>1 DEF Answer
<1> QED BY <1>4, <1>5, <1>6, <1>7

(* NULL: no gap has room for the block and neither has the end. *)
LEMMA NullFull ==
  ASSUME HeapSize \in Nat, NEW h, HeapListed(h), NEW size \in Nat,
         multi_malloc(h, size).ptr = NULL
  PROVE  /\ \A k \in 1 .. Len(h.blocks) - 1 : Gap(h, k) < size + HEADER
         /\ h.bottom + size + HEADER > HeapSize
<1> DEFINE r == multi_malloc(h, size)
           bs == h.blocks
           N == Len(bs)
           m == size + HEADER
<1>1. /\ N \in Nat /\ bs \in Seq(Blocks) /\ h.bottom \in Nat
      /\ \A i \in 1 .. N : Sound(bs[i])
  BY BlockFields, SMT DEF HeapListed
<1>2. m \in Nat /\ m = size + 2 /\ HEADER = 2 /\ NULL = -1
  BY SMT DEF HEADER, NULL
<1>3. ~(bs # <<>> /\ AtFront(h, m))
  <2> SUFFICES ASSUME bs # <<>>, AtFront(h, m) PROVE FALSE
    OBVIOUS
  <2>1. r.ptr = HEADER
    BY DEF multi_malloc, Answer
  <2> QED BY <1>2, <2>1, SMT
<1>4. ~(bs # <<>> /\ find_fit(h, m) # 0)
  <2> SUFFICES ASSUME bs # <<>>, find_fit(h, m) # 0 PROVE FALSE
    OBVIOUS
  <2> DEFINE k == find_fit(h, m)
             at == End(bs[k])
             g == Heap(InsertAt(bs, k + 1, Block(at, size)), h.bottom)
  <2>1. k \in 1 .. N - 1
    BY <1>1, <1>2, FitFound
  <2>2. r = Answer(Ptr(Block(at, size)), g)
    BY <1>3, Zenon DEF multi_malloc
  <2> HIDE DEF k
  <2>3. k \in 1 .. N
    BY <1>1, <2>1, SMT
  <2>4. at \in Nat
    BY <1>1, <2>3, SoundEnd
  <2> HIDE DEF at
  <2>5. r.ptr = at + 2
    BY <1>2, <2>2 DEF Ptr, Block, Answer
  <2> HIDE DEF r
  <2> QED BY <1>2, <2>4, <2>5, SMT DEF r
<1>5. ~SbrkOk(h, m)
  <2> SUFFICES ASSUME SbrkOk(h, m) PROVE FALSE
    OBVIOUS
  <2>1. r.ptr = Ptr(Block(h.bottom, size))
    BY <1>3, <1>4, Zenon DEF multi_malloc, Answer
  <2>2. Ptr(Block(h.bottom, size)) = h.bottom + 2
    BY <1>2 DEF Ptr, Block
  <2> QED BY <1>1, <1>2, <2>1, <2>2, SMT
<1>6. \A k \in 1 .. N - 1 : Gap(h, k) < m
  <2>1. CASE bs = <<>>
    BY <1>1, <2>1, SMT
  <2>2. CASE bs # <<>>
    BY <1>1, <1>2, <1>4, <2>2, FitFound
  <2> QED BY <2>1, <2>2
<1>7. h.bottom + size + HEADER > HeapSize
  <2>1. ~(h.bottom + m =< HeapSize)
    BY <1>5 DEF SbrkOk
  <2> QED BY <1>1, <1>2, <2>1, SMT
<1> QED BY <1>6, <1>7

(* free: the block of the pointer is gone, and nothing else. *)
LEMMA FreeTakes ==
  ASSUME HeapSize \in Nat,
         NEW h, NEW f, HeapListed(h), HeapOrdered(h), HeapHeld(h, f),
         NEW ptr \in DOMAIN f
  PROVE  LET g == multi_free(h, ptr)
         IN  /\ HeapListed(g) /\ HeapOrdered(g)
             /\ HeapHeld(g, Without(f, ptr))
<1> DEFINE k == Index(h, ptr)
           g == multi_free(h, ptr)
<1>1. h.blocks \in Seq(Blocks) /\ \E i \in 1 .. Len(h.blocks) : Ptr(h.blocks[i]) = ptr
  BY DEF HeapListed, HeapHeld
<1>2. k \in 1 .. Len(h.blocks) /\ k # 0 /\ Ptr(h.blocks[k]) = ptr
  BY <1>1, IndexFound
<1>3. g = Heap(RemoveAt(h.blocks, k), BottomAfter(h, k))
  BY <1>2 DEF multi_free
<1> HIDE DEF k
<1>4. g.blocks = RemoveAt(h.blocks, k) /\ g.bottom = BottomAfter(h, k)
  BY <1>3 DEF Heap
<1>5. Removed(h.blocks, g.blocks, k)
  BY <1>1, <1>2, <1>4, RemovesAt
<1> HIDE DEF g
<1>6. HeapListed(g) /\ HeapOrdered(g)
      /\ HeapHeld(g, Without(f, Ptr(h.blocks[k])))
  BY <1>2, <1>4, <1>5, RemoveKeeps
<1> QED BY <1>2, <1>6 DEF g

(* realloc: NULL and the heap as it was, the block in its place with its     *)
(* new size, or a new block instead of the old.                             *)
LEMMA ReallocGives ==
  ASSUME HeapSize \in Nat, Sizes \subseteq Nat,
         NEW h, NEW f, HeapListed(h), HeapOrdered(h), HeapHeld(h, f),
         NEW ptr \in DOMAIN f, NEW size \in Sizes
  PROVE  LET r == multi_realloc(h, ptr, size)
             e == With(Without(f, ptr), r.ptr, size)
         IN  \/ r.ptr = NULL /\ r.heap = h
             \/ /\ r.ptr # NULL /\ r.ptr \notin DOMAIN f \ {ptr}
                /\ HeapListed(r.heap) /\ HeapHeld(r.heap, e)
                /\ HeapApart(r.heap, e)
                /\ ~Crossed(r.heap) => HeapOrdered(r.heap)
<1> DEFINE r == multi_realloc(h, ptr, size)
           bs == h.blocks
           N == Len(bs)
           n == size + HEADER
           k == Index(h, ptr)
           old == bs[k].size
           isLast == k = N
           new == multi_malloc(h, n)
           Gives == /\ r.ptr # NULL /\ r.ptr \notin DOMAIN f \ {ptr}
                    /\ HeapListed(r.heap)
                    /\ HeapHeld(r.heap, With(Without(f, ptr), r.ptr, size))
                    /\ HeapApart(r.heap, With(Without(f, ptr), r.ptr, size))
                    /\ ~Crossed(r.heap) => HeapOrdered(r.heap)
<1>1. bs \in Seq(Blocks) /\ \E i \in 1 .. N : Ptr(bs[i]) = ptr
  BY DEF HeapListed, HeapHeld
<1>2. k \in 1 .. N /\ k # 0 /\ Ptr(bs[k]) = ptr
  BY <1>1, IndexFound
<1>3. /\ N \in Nat /\ h.bottom \in 0 .. HeapSize /\ size \in Nat
      /\ \A i \in 1 .. N : Sound(bs[i])
  BY <1>1, BlockFields DEF HeapListed
<1>4. n = size + 2 /\ n \in Nat /\ size =< n
  BY <1>3, SMT DEF HEADER
<1>5. /\ ptr \in Nat /\ old \in Nat /\ End(bs[k]) = ptr + old
      /\ NULL = -1 /\ NULL # ptr
  <2>1. Sound(bs[k])
    BY <1>2, <1>3
  <2>2. ptr \in Nat /\ old \in Nat /\ End(bs[k]) = ptr + old
    BY <1>2, <2>1, SMT DEF Sound
  <2> QED BY <2>2, SMT DEF NULL
<1>6. isLast => h.bottom = ptr + old
  <2>1. isLast => bs # <<>>
    BY <1>2, <1>3, EmptySeq, SMT
  <2> QED BY <1>5, <2>1 DEF HeapListed
<1>7. ASSUME NEW bottom, r = Answer(ptr, Resized(h, k, n, bottom)),
             isLast => bottom = ptr + size + 2 /\ bottom =< HeapSize,
             ~isLast => /\ bottom = h.bottom
                        /\ ptr + size + 2 < Ptr(bs[k + 1])
      PROVE  Gives
  <2>1. r.ptr = ptr /\ r.heap = Resized(h, k, size + 2, bottom)
    BY <1>4, <1>7 DEF Answer
  <2> HIDE DEF r, k, n
  <2>2. LET g == Resized(h, k, size + 2, bottom)
            e == With(Without(f, Ptr(bs[k])), Ptr(bs[k]), size)
        IN  /\ HeapListed(g) /\ HeapHeld(g, e) /\ HeapApart(g, e)
            /\ ~Crossed(g) => HeapOrdered(g)
    BY <1>2, <1>7, ResizeKeeps
  <2> QED BY <1>2, <1>5, <2>1, <2>2
<1>8. CASE old >= n
  <2> DEFINE bottom == IF isLast THEN ptr + n ELSE h.bottom
  <2>1. r = Answer(ptr, Resized(h, k, n, bottom))
    BY <1>8, Zenon DEF multi_realloc
  <2> HIDE DEF r, k, n, old
  <2>2. isLast => bottom = ptr + size + 2 /\ bottom =< HeapSize
    BY <1>3, <1>4, <1>5, <1>6, <1>8, SMT
  <2>3. ASSUME ~isLast PROVE ptr + size + 2 < Ptr(bs[k + 1])
    <3>1. k + 1 \in 1 .. N /\ k \in 1 .. N /\ k < k + 1
      BY <1>2, <1>3, <2>3, SMT
    <3>2. End(bs[k]) =< bs[k + 1].at /\ Sound(bs[k + 1])
      BY <1>3, <3>1 DEF HeapOrdered
    <3> DEFINE y == bs[k + 1]
    <3> HIDE DEF y
    <3>3. ptr + old =< y.at /\ Sound(y)
      BY <1>5, <3>2 DEF y
    <3>4. ptr + size + 2 < Ptr(y)
      BY <1>3, <1>4, <1>5, <1>8, <3>3, SMT DEF Sound
    <3> QED BY <3>4 DEF y
  <2>4. ~isLast => bottom = h.bottom
    OBVIOUS
  <2> HIDE DEF bottom
  <2>5. Gives
    BY <1>7, <2>1, <2>2, <2>3, <2>4
  <2> QED BY <2>5 DEF r
<1>9. CASE ~(old >= n) /\ isLast
  <2>1. CASE SbrkOk(h, n - old)
    <3> DEFINE bottom == h.bottom + n - old
    <3>1. r = Answer(ptr, Resized(h, k, n, bottom))
      BY <1>9, <2>1, Zenon DEF multi_realloc
    <3>2. h.bottom + (n - old) =< HeapSize
      BY <2>1 DEF SbrkOk
    <3> HIDE DEF r, k, n, old
    <3>3. bottom = ptr + size + 2 /\ bottom =< HeapSize
      BY <1>3, <1>4, <1>5, <1>6, <1>9, <3>2, SMT
    <3> HIDE DEF bottom
    <3>4. Gives
      BY <1>7, <1>9, <3>1, <3>3
    <3> QED BY <3>4 DEF r
  <2>2. CASE ~SbrkOk(h, n - old)
    <3>1. r = Answer(NULL, h)
      BY <1>9, <2>2, Zenon DEF multi_realloc
    <3> QED BY <3>1 DEF Answer
  <2> QED BY <2>1, <2>2
<1>10. CASE ~(old >= n) /\ ~isLast /\ RoomAfter(h, k, n)
  <2>1. r = Answer(ptr, Resized(h, k, n, h.bottom))
    BY <1>10, Zenon DEF multi_realloc
  <2>2. Ptr(bs[k + 1]) - ptr > n
    BY <1>2, <1>10 DEF RoomAfter
  <2>3. Ptr(bs[k + 1]) \in Nat
    <3>1. k + 1 \in 1 .. N
      BY <1>2, <1>3, <1>10, SMT
    <3> QED BY <1>3, <3>1, SoundEnd
  <2> HIDE DEF r, k, n, old, bs
  <2>4. ptr + size + 2 < Ptr(bs[k + 1])
    BY <1>3, <1>4, <1>5, <2>2, <2>3, SMT
  <2>5. Gives
    BY <1>7, <1>10, <2>1, <2>4
  <2> QED BY <2>5 DEF r
<1>11. CASE ~(old >= n) /\ ~isLast /\ ~RoomAfter(h, k, n)
  <2>1. r = IF new.ptr = NULL THEN new
            ELSE Answer(new.ptr, multi_free(new.heap, ptr))
    BY <1>11, Zenon DEF multi_realloc
  <2> HIDE DEF r, k, n
  <2>2. \/ new.ptr = NULL /\ new.heap = h
        \/ /\ new.ptr # NULL /\ new.ptr \notin DOMAIN f
           /\ HeapListed(new.heap) /\ HeapOrdered(new.heap)
           /\ HeapHeld(new.heap, With(f, new.ptr, size))
    BY <1>4, MallocGives
  <2> HIDE DEF new
  <2>3. CASE new.ptr = NULL
    <3>1. r.ptr = NULL /\ r.heap = h
      BY <2>1, <2>2, <2>3
    <3> QED BY <3>1 DEF r
  <2>4. CASE new.ptr # NULL
    <3> DEFINE g == multi_free(new.heap, ptr)
               q == new.ptr
               e == With(Without(f, ptr), q, size)
    <3>1. q \notin DOMAIN f /\ q # ptr
      BY <2>2, <2>4
    <3>2. ptr \in DOMAIN With(f, q, size)
      BY DEF With
    <3>3. /\ HeapListed(g) /\ HeapOrdered(g)
          /\ HeapHeld(g, Without(With(f, q, size), ptr))
      BY <2>2, <2>4, <3>2, FreeTakes
    <3>4. Without(With(f, q, size), ptr) = e
      <4>1. (DOMAIN f \cup {q}) \ {ptr} = (DOMAIN f \ {ptr}) \cup {q}
        BY <3>1
      <4> QED BY <3>1, <4>1 DEF With, Without
    <3>5. HeapApart(g, e)
      BY <3>3, <3>4, OrderedApart
    <3>6. r.ptr = q /\ r.heap = g
      BY <2>1, <2>4 DEF Answer
    <3>7. Gives
      BY <2>4, <3>1, <3>3, <3>4, <3>5, <3>6
    <3> QED BY <3>7 DEF r
  <2> QED BY <2>3, <2>4
<1> QED BY <1>8, <1>9, <1>10, <1>11

-----------------------------------------------------------------------------
(* The inductive invariant of the heap. *)
AllocInv ==
  /\ HeapListed(heap) /\ HeapHeld(heap, asked) /\ HeapApart(heap, asked)
  /\ crossed \in BOOLEAN
  /\ ~crossed => HeapOrdered(heap)

LEMMA AllocInit ==
  ASSUME HeapAssumption PROVE HeapInit => AllocInv
<1> SUFFICES ASSUME HeapInit PROVE AllocInv
  OBVIOUS
<1>1. /\ heap.blocks = <<>> /\ heap.bottom = 0 /\ DOMAIN asked = {}
      /\ crossed = FALSE /\ HeapSize \in Nat
  BY DEF HeapInit, Heap, HeapAssumption
<1>2. Len(heap.blocks) = 0 /\ 1 .. 0 = {} /\ heap.blocks \in Seq(Blocks)
  BY <1>1, EmptySeq, SMT
<1>3. heap.bottom \in 0 .. HeapSize
  BY <1>1, SMT
<1> QED BY <1>1, <1>2, <1>3, Zenon DEF AllocInv, HeapListed, HeapHeld, HeapApart, HeapOrdered

LEMMA AllocStep ==
  ASSUME HeapAssumption
  PROVE  AllocInv /\ [HeapNext]_(heapVars) => AllocInv'
<1> SUFFICES ASSUME AllocInv, [HeapNext]_(heapVars) PROVE AllocInv'
  OBVIOUS
<1>1. /\ HeapSize \in Nat /\ Sizes \subseteq Nat
      /\ HeapListed(heap) /\ HeapHeld(heap, asked) /\ HeapApart(heap, asked)
      /\ crossed \in BOOLEAN
      /\ ~crossed => HeapOrdered(heap)
  BY DEF AllocInv, HeapAssumption
<1>2. ASSUME ~crossed, NEW size \in Sizes, malloc(size) PROVE AllocInv'
  <2> DEFINE r == multi_malloc(heap, size)
  <2>1. /\ heap' = r.heap /\ crossed' = crossed
        /\ asked' = IF r.ptr = NULL THEN asked ELSE With(asked, r.ptr, size)
    BY <1>2 DEF malloc
  <2>2. \/ r.ptr = NULL /\ r.heap = heap
        \/ /\ r.ptr # NULL /\ r.ptr \notin DOMAIN asked
           /\ HeapListed(r.heap) /\ HeapOrdered(r.heap)
           /\ HeapHeld(r.heap, With(asked, r.ptr, size))
    <3>1. size \in Nat /\ size =< size
      BY <1>1, SMT
    <3> QED BY <1>1, <1>2, <3>1, MallocGives
  <2> HIDE DEF r
  <2>3. HeapListed(heap') /\ HeapOrdered(heap') /\ HeapHeld(heap', asked')
    BY <1>1, <1>2, <2>1, <2>2
  <2>4. HeapApart(heap', asked')
    BY <1>1, <2>3, OrderedApart
  <2> QED BY <1>1, <2>1, <2>3, <2>4 DEF AllocInv, HeapListed, HeapHeld, HeapApart, HeapOrdered
<1>3. ASSUME ~crossed, NEW ptr \in DOMAIN asked, free(ptr) PROVE AllocInv'
  <2>1. /\ heap' = multi_free(heap, ptr) /\ crossed' = crossed
        /\ asked' = Without(asked, ptr)
    BY <1>3 DEF free
  <2>2. HeapListed(heap') /\ HeapOrdered(heap') /\ HeapHeld(heap', asked')
    BY <1>1, <1>3, <2>1, FreeTakes
  <2>3. HeapApart(heap', asked')
    BY <1>1, <2>2, OrderedApart
  <2> QED BY <1>1, <2>1, <2>2, <2>3 DEF AllocInv, HeapListed, HeapHeld, HeapApart, HeapOrdered
<1>4. ASSUME ~crossed, NEW ptr \in DOMAIN asked, NEW size \in Sizes,
             realloc(ptr, size)
      PROVE  AllocInv'
  <2> DEFINE r == multi_realloc(heap, ptr, size)
             e == With(Without(asked, ptr), r.ptr, size)
  <2>1. /\ heap' = r.heap /\ crossed' = Crossed(r.heap)
        /\ asked' = IF r.ptr = NULL THEN asked ELSE e
    BY <1>4 DEF realloc
  <2>2. \/ r.ptr = NULL /\ r.heap = heap
        \/ /\ r.ptr # NULL /\ r.ptr \notin DOMAIN asked \ {ptr}
           /\ HeapListed(r.heap) /\ HeapHeld(r.heap, e) /\ HeapApart(r.heap, e)
           /\ ~Crossed(r.heap) => HeapOrdered(r.heap)
    BY <1>1, <1>4, ReallocGives
  <2>3. crossed' \in BOOLEAN
    BY <2>1 DEF Crossed
  <2> HIDE DEF r, e
  <2>4. /\ HeapListed(heap') /\ HeapHeld(heap', asked') /\ HeapApart(heap', asked')
        /\ ~crossed' => HeapOrdered(heap')
    BY <1>1, <1>4, <2>1, <2>2
  <2> QED BY <2>3, <2>4 DEF AllocInv, HeapListed, HeapHeld, HeapApart, HeapOrdered
<1>5. CASE UNCHANGED heapVars
  <2>1. heap' = heap /\ asked' = asked /\ crossed' = crossed
    BY <1>5 DEF heapVars
  <2> QED BY <1>1, <2>1 DEF AllocInv, HeapListed, HeapHeld, HeapApart, HeapOrdered
<1> QED BY <1>2, <1>3, <1>4, <1>5 DEF HeapNext

LEMMA AllocTyped ==
  ASSUME HeapAssumption, AllocInv PROVE HeapTypeOK
<1> DEFINE bs == heap.blocks
           N == Len(bs)
           Room == [at : 0 .. HeapSize, size : 0 .. HeapSize]
<1>1. /\ HeapSize \in Nat /\ Sizes \subseteq Nat
      /\ bs \in Seq(Blocks) /\ heap.bottom \in 0 .. HeapSize
      /\ \A i \in 1 .. N : End(bs[i]) =< heap.bottom
      /\ N \in Nat /\ \A i \in 1 .. N : Sound(bs[i]) /\ bs[i] \in Blocks
  BY BlockFields, ElementOfSeq DEF AllocInv, HeapListed, HeapAssumption
<1>2. ASSUME NEW i \in 1 .. N
      PROVE  bs[i] \in Room /\ Ptr(bs[i]) \in HEADER .. HeapSize
  <2> DEFINE b == bs[i]
  <2>1. Sound(b) /\ b \in Blocks /\ End(b) =< heap.bottom
    BY <1>1
  <2> HIDE DEF b
  <2>2. b.at \in 0 .. HeapSize /\ b.size \in 0 .. HeapSize
    BY <1>1, <2>1, SMT DEF Sound
  <2>3. Ptr(b) \in HEADER .. HeapSize
    BY <1>1, <2>1, SMT DEF Sound, HEADER
  <2>4. b \in Room
    BY <2>1, <2>2 DEF Blocks
  <2> QED BY <2>3, <2>4 DEF b
<1>3. bs \in Seq(Room)
  <2> HIDE DEF Room
  <2>1. bs = [i \in 1 .. N |-> bs[i]]
    BY <1>1
  <2>2. bs \in [1 .. N -> Room]
    BY <1>2, <2>1
  <2> QED BY <1>1, <2>2, SeqDef
<1>4. DOMAIN asked \subseteq HEADER .. HeapSize
  <2> SUFFICES ASSUME NEW p \in DOMAIN asked PROVE p \in HEADER .. HeapSize
    OBVIOUS
  <2>1. PICK i \in 1 .. N : Ptr(bs[i]) = p
    BY DEF AllocInv, HeapHeld
  <2> QED BY <1>2, <2>1
<1>5. Range(asked) \subseteq Sizes
  BY DEF AllocInv, HeapHeld, Range
<1> QED BY <1>1, <1>3, <1>4, <1>5 DEF AllocInv, HeapTypeOK

LEMMA AllocAccounts ==
  ASSUME HeapAssumption, AllocInv PROVE HeapIsAccounted
<1> DEFINE bs == heap.blocks
           N == Len(bs)
<1>1. /\ HeapSize \in Nat /\ Sizes \subseteq Nat
      /\ HeapListed(heap) /\ HeapHeld(heap, asked)
      /\ bs \in Seq(Blocks) /\ N \in Nat
      /\ \A i \in 1 .. N : Sound(bs[i])
      /\ heap.bottom = IF bs = <<>> THEN 0 ELSE End(bs[N])
  BY BlockFields DEF AllocInv, HeapListed, HeapAssumption
<1>2. BlocksApart
  <2> SUFFICES ASSUME ~crossed, NEW k \in 1 .. N - 1 PROVE Gap(heap, k) >= 0
    BY <1>1 DEF BlocksApart, Last
  <2>1. k \in 1 .. N /\ k + 1 \in 1 .. N /\ k < k + 1
    BY <1>1, SMT
  <2>2. /\ End(bs[k]) =< bs[k + 1].at
        /\ End(bs[k]) \in Nat /\ bs[k + 1].at \in Nat
    BY <1>1, <2>1, SoundEnd DEF AllocInv, HeapOrdered, Sound
  <2>3. bs[k + 1].at - End(bs[k]) >= 0
    BY <2>2, SMT
  <2> QED BY <2>3 DEF Gap
<1>3. BlocksAreHeld
  <2>1. Range(bs) = {bs[i] : i \in 1 .. N}
    BY <1>1 DEF Range
  <2> QED BY <1>1, <2>1 DEF BlocksAreHeld, HeapHeld
<1>4. NullMeansFull
  <2> SUFFICES ASSUME NEW size \in Sizes,
                      multi_malloc(heap, size).ptr = NULL
               PROVE  /\ \A k \in 1 .. N - 1 : Gap(heap, k) < size + HEADER
                      /\ heap.bottom + size + HEADER > HeapSize
    BY <1>1 DEF NullMeansFull, Last
  <2> QED BY <1>1, NullFull
<1> QED BY <1>2, <1>3, <1>4, AllocTyped DEF HeapIsAccounted

(* HeapIsAccounted of Alloc, as MCKernel's run checks it for one heap: for  *)
(* every size of the heap and every set of sizes, and for ever, the list is *)
(* of the blocks the program holds, they are apart until a realloc has let  *)
(* one grow past the next header, and malloc answers NULL only when nothing *)
(* has room (kernel/alloc.c:158-345).                                       *)
THEOREM HeapAccounts ==
  ASSUME HeapAssumption PROVE HeapSpec => []HeapIsAccounted
<1>1. HeapInit => AllocInv
  BY AllocInit
<1>2. AllocInv /\ [HeapNext]_(heapVars) => AllocInv'
  BY AllocStep
<1>3. AllocInv => HeapIsAccounted
  BY AllocAccounts
<1> QED BY <1>1, <1>2, <1>3, PTL DEF HeapSpec

(* A new piece of the heap is beside the others. *)
LEMMA PieceBeside ==
  ASSUME HeapSize \in Nat, Sizes \subseteq Nat, NEW h, NEW f, NEW p, NEW n,
         p \notin DOMAIN f,
         HeapListed(h), HeapHeld(h, With(f, p, n)),
         HeapApart(h, With(f, p, n))
  PROVE  p \in 0 .. HeapSize /\ Store!FitsBeside(p, n, f)
<1> DEFINE bs == h.blocks
           N == Len(bs)
           e == With(f, p, n)
<1>1. /\ bs \in Seq(Blocks) /\ N \in Nat /\ \A i \in 1 .. N : Sound(bs[i])
      /\ h.bottom \in 0 .. HeapSize
      /\ \A i \in 1 .. N : End(bs[i]) =< h.bottom
  BY BlockFields DEF HeapListed
<1>2. /\ DOMAIN e = DOMAIN f \cup {p} /\ e[p] = n
      /\ \A q \in DOMAIN f : e[q] = f[q]
  BY DEF With
<1> HIDE DEF e
<1>3. PICK i \in 1 .. N : Ptr(bs[i]) = p
  BY <1>2 DEF HeapHeld, e
<1>4. n \in Nat /\ n =< bs[i].size
  BY <1>2, <1>3 DEF HeapHeld, e
<1>5. p \in 0 .. HeapSize /\ p + n =< HeapSize
  <2> DEFINE b == bs[i]
  <2>1. Sound(b) /\ Ptr(b) = p /\ n =< b.size /\ End(b) =< h.bottom
    BY <1>1, <1>3, <1>4
  <2> HIDE DEF b
  <2> QED BY <1>1, <1>4, <2>1, SMT DEF Sound
<1>6. ASSUME NEW q \in DOMAIN f PROVE p + n =< q \/ q + f[q] =< p
  <2>1. PICK j \in 1 .. N : Ptr(bs[j]) = q
    BY <1>2 DEF HeapHeld, e
  <2>2. i # j /\ e[p] = n /\ e[q] = f[q]
    BY <1>2, <1>3, <2>1
  <2>3. i < j \/ j < i
    BY <1>1, <2>2, SMT
  <2> QED BY <1>3, <2>1, <2>2, <2>3 DEF HeapApart, e
<1> QED BY <1>5, <1>6 DEF Store!FitsBeside, Store!Apart

(* Alloc implements HeapStore, step by step: malloc gives a piece beside    *)
(* those the program holds, free takes one back, and realloc changes one,   *)
(* where it is or elsewhere, or they answer NULL and change nothing         *)
(* (kernel/alloc.c).                                                        *)
THEOREM HeapIsStore ==
  ASSUME HeapAssumption PROVE HeapSpec => ImplementsHeapStore
<1>1. HeapSize \in Nat /\ Sizes \subseteq Nat
  BY DEF HeapAssumption
<1>2. HeapInit => AllocInv /\ Store!Init
  BY AllocInit DEF HeapInit, Store!Init
<1>3. AllocInv /\ [HeapNext]_(heapVars) => AllocInv'
  BY AllocStep
<1>4. AllocInv /\ AllocInv' /\ [HeapNext]_(heapVars)
        => [Store!Next]_asked
  <2> SUFFICES ASSUME AllocInv, AllocInv', [HeapNext]_(heapVars),
                      asked' # asked
               PROVE  Store!Next
    OBVIOUS
  <2>0. asked' # asked
    OBVIOUS
  <2>1. HeapListed(heap') /\ HeapHeld(heap', asked') /\ HeapApart(heap', asked')
    BY DEF AllocInv, HeapListed, HeapHeld, HeapApart
  <2>2. ASSUME ~crossed, NEW size \in Sizes, malloc(size)
        PROVE  Store!Next
    <3> DEFINE r == multi_malloc(heap, size)
               p == r.ptr
    <3>1. asked' = IF p = NULL THEN asked ELSE With(asked, p, size)
      BY <2>2 DEF malloc
    <3>2. size \in Nat /\ size =< size
      BY <1>1, SMT
    <3>3. p = NULL \/ p \notin DOMAIN asked
      BY <1>1, <2>2, <3>2, MallocGives DEF AllocInv
    <3> HIDE DEF r, p
    <3>4. asked' = With(asked, p, size) /\ p \notin DOMAIN asked
      BY <3>1, <3>3
    <3>5. p \in 0 .. HeapSize /\ Store!FitsBeside(p, size, asked)
      BY <1>1, <2>1, <3>4, PieceBeside
    <3>6. With(asked, p, size) = Store!With(asked, p, size)
      BY DEF With, Store!With
    <3> QED BY <2>0, <3>4, <3>5, <3>6 DEF Store!Next, Store!Give
  <2>3. ASSUME NEW ptr \in DOMAIN asked, free(ptr) PROVE Store!Next
    <3>1. asked' = Store!Without(asked, ptr)
      BY <2>3 DEF free, Without, Store!Without
    <3> QED BY <2>0, <3>1 DEF Store!Next, Store!TakeBack
  <2>4. ASSUME ~crossed, NEW ptr \in DOMAIN asked, NEW size \in Sizes,
               realloc(ptr, size)
        PROVE  Store!Next
    <3> DEFINE r == multi_realloc(heap, ptr, size)
               q == r.ptr
               f == Without(asked, ptr)
    <3>1. asked' = IF q = NULL THEN asked ELSE With(f, q, size)
      BY <2>4 DEF realloc
    <3>2. q = NULL \/ q \notin DOMAIN asked \ {ptr}
      BY <1>1, <2>4, ReallocGives DEF AllocInv
    <3>3. /\ DOMAIN f = DOMAIN asked \ {ptr}
          /\ f = Store!Without(asked, ptr)
      BY DEF Without, Store!Without
    <3> HIDE DEF r, q, f
    <3>4. asked' = With(f, q, size) /\ q \notin DOMAIN f
      BY <3>1, <3>2, <3>3
    <3>5. q \in 0 .. HeapSize /\ Store!FitsBeside(q, size, f)
      BY <1>1, <2>1, <3>4, PieceBeside
    <3>6. With(f, q, size) = Store!With(f, q, size)
      BY DEF With, Store!With
    <3> QED BY <2>0, <3>3, <3>4, <3>5, <3>6 DEF Store!Next, Store!Resize
  <2> QED BY <2>2, <2>3, <2>4 DEF HeapNext, heapVars
<1> QED BY <1>2, <1>3, <1>4, PTL DEF HeapSpec, ImplementsHeapStore, Store!Spec

-----------------------------------------------------------------------------
(* The CD-ROM driver. *)
USE DEF GETSTATUS, SETMODE, SEEKL, SEEKL_SETLOC, READN,
        READ_SETMODE, INITIALIZING, GOT_ERROR_AND_REINIT, PAUSING,
        CD_IDLE, ACK, DNE, END, ERR

(* Where the program is: before its first call, before a command, or at one *)
(* of the calls' waits; and in which calls it is in cdromBlockReading.      *)
Starts == {"init", "initCommand", "initWait", "delay"}
Between == {"idle", "seek", "read", "status", "setmode"}
Reads == {"seek", "seekState", "seekWait", "read", "readWait"}

(* The answers that are left of a command answered once, and of one that is *)
(* answered again when it is done.                                          *)
OneLeft == {<<3>>, <<5>>}
TwoLeft == {<<3, 2>>, <<3, 5>>, <<2>>, <<5>>}

CdTypes ==
  /\ s_sectorCounter \in Nat /\ s_dmaCounter \in Nat
  /\ s_gotInt5 = (s_currentState = GOT_ERROR_AND_REINIT)
  /\ s_initializationComplete \in 0 .. 2
  /\ buffer \in Seq(Nat) /\ Len(buffer) =< count
  /\ dmaIrq \in BOOLEAN /\ (dmaIrq => cdPc = "readWait")
  /\ pending \subseteq CdEvent
  /\ answers \in Seq(1 .. 5) /\ reading \in BOOLEAN /\ head \in Nat
  /\ cdPc \in Starts \cup Between \cup Waits \cup {"seekState"}
  /\ count \in ReadCounts
  /\ retries \in 0 .. MaxRetries /\ (cdPc \in Reads => retries < MaxRetries)
  /\ cyclesToWait \in 0 .. MaxTries
  /\ (cdPc \in Between \ {"idle"} => cyclesToWait # 0)
  /\ result \in ReadCounts \cup {-1, 0}

(* The machine is idle and the drive has nothing to raise. *)
Rests == s_currentState = CD_IDLE /\ Quiet

(* No event that a call waits for is pending. *)
Silent == pending \cap {DNE, END, ERR} = {}

(* In state s the machine waits for the answers as to its command. *)
Asks(s, as) == s_currentState = s /\ answers \in as /\ ~reading

Resets == Asks(GOT_ERROR_AND_REINIT, TwoLeft)

(* An initialisation: what is queued ends a reset. *)
Closes(a) == a # <<>> /\ a[Len(a)] \in {2, 5}
Starting ==
  /\ ~reading
  /\ s_currentState \in {INITIALIZING, CD_IDLE, GOT_ERROR_AND_REINIT}
  /\ s_currentState = GOT_ERROR_AND_REINIT => Closes(answers)
  /\ s_currentState = INITIALIZING => s_initializationComplete # 1
  /\ cdPc = "delay" => s_currentState # INITIALIZING

Seeking ==
  /\ \/ Rests
     \/ Silent /\ (Asks(SEEKL_SETLOC, OneLeft) \/ Asks(SEEKL, TwoLeft) \/ Resets)
  /\ DNE \in pending \/ s_currentState \in {SEEKL_SETLOC, SEEKL} => head = 0

(* A read: the buffer holds the sectors so far. *)
Prefix == buffer = [k \in 1 .. Len(buffer) |-> k - 1]

Opens(s, as) ==
  /\ Asks(s, as) /\ ~dmaIrq
  /\ buffer = <<>> /\ head = 0
  /\ s_sectorCounter = count /\ s_dmaCounter = count

Fills ==
  /\ s_currentState = READN /\ reading /\ answers \in {<<3>>, <<>>}
  /\ s_sectorCounter > 0 /\ Len(buffer) + s_sectorCounter = count
  /\ Prefix /\ head = Len(buffer)
  /\ s_dmaCounter = IF dmaIrq THEN s_sectorCounter + 1 ELSE s_sectorCounter

Pauses ==
  /\ Asks(PAUSING, TwoLeft \cup {<<1, 3, 2>>})
  /\ Prefix /\ Len(buffer) = count
  /\ s_sectorCounter = 0
  /\ s_dmaCounter = IF dmaIrq THEN 1 ELSE 0

Reading ==
  /\ \/ Rests /\ ~dmaIrq /\ (DNE \in pending => Prefix /\ Len(buffer) = count)
     \/ Silent /\ \/ Opens(READ_SETMODE, OneLeft) \/ Opens(READN, {<<5>>})
                  \/ Fills \/ Pauses
                  \/ Resets /\ ~dmaIrq
  /\ ACK \in pending => Len(buffer) = count

Waiting ==
  \/ Rests
  \/ Silent /\ (Asks(GETSTATUS, OneLeft) \/ Asks(SETMODE, OneLeft) \/ Resets)

CdGood ==
  /\ cdPc \in Starts => Starting
  /\ cdPc \in Between => Rests
  /\ cdPc = "seekState" => Silent /\ Asks(CD_IDLE, OneLeft) /\ head = 0
  /\ cdPc = "seekWait" => Seeking
  /\ cdPc = "read" => head = 0
  /\ cdPc = "readWait" => Reading
  /\ cdPc = "wait" => Waiting

CdInv == CdTypes /\ CdGood

LEMMA OneNext ==
  ASSUME NEW a \in OneLeft
  PROVE  /\ a # <<>> /\ Head(a) \in {3, 5} /\ Tail(a) = <<>>
         /\ a \in Seq(1 .. 5)
<1>1. CASE a = <<3>>
  BY <1>1, SMT
<1>2. CASE a = <<5>>
  BY <1>2, SMT
<1> QED BY <1>1, <1>2 DEF OneLeft

LEMMA TwoNext ==
  ASSUME NEW a \in TwoLeft
  PROVE  /\ a # <<>> /\ Head(a) \in {2, 3, 5} /\ a \in Seq(1 .. 5)
         /\ IF Head(a) = 3 THEN Tail(a) \in {<<2>>, <<5>>} ELSE Tail(a) = <<>>
<1>1. CASE a = <<3, 2>>
  BY <1>1, SMT
<1>2. CASE a = <<3, 5>>
  BY <1>2, SMT
<1>3. CASE a = <<2>>
  BY <1>3, SMT
<1>4. CASE a = <<5>>
  BY <1>4, SMT
<1> QED BY <1>1, <1>2, <1>3, <1>4 DEF TwoLeft

LEMMA LateNext ==
  LET a == <<1, 3, 2>>
  IN  a # <<>> /\ Head(a) = 1 /\ Tail(a) = <<3, 2>> /\ a \in Seq(1 .. 5)
  BY SMT

(* What remains to be raised when n has been. *)
LEMMA RaisedOne ==
  ASSUME NEW n, Raise(n), answers \in OneLeft
  PROVE  /\ n \in {3, 5} /\ Rest = <<>> /\ answers # <<>>
         /\ Raised(n) => answers' = <<>> /\ UNCHANGED <<reading, head>>
  BY OneNext DEF Raise, Raised, Rest

LEMMA RaisedTwo ==
  ASSUME NEW n, Raise(n), answers \in TwoLeft
  PROVE  /\ n \in {2, 3, 5} /\ answers # <<>>
         /\ n # 3 => Rest = <<>>
         /\ Raised(n) => /\ UNCHANGED <<reading, head>>
                            /\ IF n = 3 THEN answers' \in TwoLeft ELSE answers' = <<>>
<1>1. {<<2>>, <<5>>} \subseteq TwoLeft
  BY DEF TwoLeft
<1> QED BY <1>1, TwoNext DEF Raise, Raised, Rest

LEMMA RaisedLate ==
  ASSUME NEW n, Raise(n), answers = <<1, 3, 2>>
  PROVE  /\ n = 1
         /\ Raised(n) => answers' \in TwoLeft /\ UNCHANGED <<reading, head>>
  BY LateNext DEF Raise, Raised, TwoLeft

LEMMA RaisedReading ==
  ASSUME NEW n, Raise(n), answers = <<>>
  PROVE  /\ reading /\ n \in {1, 4, 5} /\ Rest = <<>>
         /\ Raised(n) => /\ answers' = <<>> /\ reading' = (n = 1)
                            /\ head' = IF n = 1 THEN head + 1 ELSE head
  BY DEF Raise, Raised, Rest

(* What a command is answered with when nothing else is queued. *)
LEMMA CommandAnswers ==
  ASSUME NEW c, Command(c, <<>>)
  PROVE  /\ c \in {"SETLOC", "SETMODE", "NOP", "READN"} => answers' \in OneLeft
         /\ c \in {"SEEKL", "INIT"} => answers' \in TwoLeft
         /\ c = "PAUSE" => answers' \in TwoLeft \cup {<<1, 3, 2>>}
         /\ reading' \in BOOLEAN
         /\ c # "READN" => ~reading'
         /\ c = "READN" => (reading' <=> answers' = <<3>>)
         /\ c # "SETLOC" => head' = head
         /\ c = "SETLOC" => head' = 0
<1>1. PICK a \in Answers(c) :
        /\ answers' = a \/ (Len(<<>>) =< 2 /\ answers' = <<>> \o a)
        /\ reading' = (c = "READN" /\ a = <<3>>)
  BY DEF Command
<1>2. /\ c \in {"SETLOC", "SETMODE", "NOP", "READN"} => a \in OneLeft
      /\ c \in {"SEEKL", "INIT"} => a \in TwoLeft
      /\ c = "PAUSE" => a \in TwoLeft \cup {<<1, 3, 2>>}
  <2>1. CASE c \in {"SETLOC", "SETMODE", "NOP"}
    BY <2>1 DEF Answers, OneLeft
  <2>2. CASE c = "READN"
    BY <2>2 DEF Answers, OneLeft
  <2>3. CASE c \in {"SEEKL", "INIT"}
    BY <2>3 DEF Answers, TwoLeft
  <2>4. CASE c = "PAUSE"
    BY <2>4 DEF Answers, TwoLeft
  <2> QED BY <2>1, <2>2, <2>3, <2>4
<1>3. answers' = a
  BY <1>1
<1>4. head' = IF c = "SETLOC" THEN 0 ELSE head
  BY DEF Command
<1> QED BY <1>1, <1>2, <1>3, <1>4, Zenon

LEMMA LeftInSeq == OneLeft \cup TwoLeft \cup {<<>>, <<1, 3, 2>>} \subseteq Seq(1 .. 5)
<1>1. \A a \in OneLeft : a \in Seq(1 .. 5)
  BY OneNext
<1>2. \A a \in TwoLeft : a \in Seq(1 .. 5)
  BY TwoNext
<1>3. <<>> \in Seq(1 .. 5) /\ <<1, 3, 2>> \in Seq(1 .. 5)
  BY SMT
<1> QED BY <1>1, <1>2, <1>3, Zenon

(* The types after an interrupt, which leaves the program alone. *)
LEMMA InterruptTypes ==
  ASSUME CdTypes, UNCHANGED program,
         s_sectorCounter' \in Nat, s_dmaCounter' \in Nat,
         s_gotInt5' = (s_currentState' = GOT_ERROR_AND_REINIT),
         s_initializationComplete' \in 0 .. 2,
         buffer' \in Seq(Nat), Len(buffer') =< count,
         dmaIrq' \in BOOLEAN, dmaIrq' => cdPc = "readWait",
         pending' \subseteq CdEvent,
         answers' \in Seq(1 .. 5), reading' \in BOOLEAN, head' \in Nat
  PROVE  CdTypes'
<1>1. /\ cdPc' = cdPc /\ count' = count /\ retries' = retries
      /\ cyclesToWait' = cyclesToWait /\ result' = result
  BY DEF program
<1> QED BY <1>1, Zenon DEF CdTypes, Starts, Between, Reads, Waits, CdEvent

(* An interrupt finds the program before its first call or at a wait.       *)
LEMMA InterruptWhere ==
  ASSUME CdInv, SeekIsAtomic, NEW n, Raise(n)
  PROVE  /\ ~dmaIrq /\ dmaIrq = FALSE
         /\ answers # <<>> => n = Head(answers)
         /\ cdPc \in Starts => answers # <<>>
         /\ cdPc \notin Between /\ cdPc # "seekState"
         /\ ~Rests
<1>1. ~dmaIrq /\ cdPc # "seekState" /\ ~Rests
  BY DEF Raise, Rests, Quiet
<1>2. dmaIrq = FALSE
  BY <1>1 DEF CdInv, CdTypes
<1>3. cdPc \notin Between
  BY <1>1 DEF CdInv, CdGood
<1>4. cdPc \in Starts => answers # <<>>
  BY DEF CdInv, CdGood, Starting, Raise
<1> QED BY <1>1, <1>2, <1>3, <1>4 DEF Raise

(* The same of the rest of the invariant. *)
LEMMA InterruptGood ==
  ASSUME CdInv, SeekIsAtomic, NEW n, Raise(n), cdPc' = cdPc,
         cdPc \in Starts => Starting',
         cdPc = "seekWait" => Seeking',
         cdPc = "readWait" => Reading',
         cdPc = "wait" => Waiting'
  PROVE  CdGood'
<1>1. cdPc \notin Between /\ cdPc # "seekState" /\ cdPc # "read"
  BY InterruptWhere DEF Between
<1> QED BY <1>1, Zenon DEF CdGood

LEMMA ClosesTail ==
  ASSUME NEW a \in Seq(1 .. 5), Closes(a), Head(a) \notin {2, 5}
  PROVE  Closes(Tail(a))
<1>1. Len(a) \in Nat /\ Len(a) # 0 /\ Head(a) = a[1]
  BY LenProperties, EmptySeq, SMT DEF Closes
<1>2. Len(a) # 1
  BY <1>1 DEF Closes
<1>3. /\ Tail(a) \in Seq(1 .. 5) /\ Len(Tail(a)) = Len(a) - 1
      /\ \A i \in 1 .. Len(Tail(a)) : Tail(a)[i] = a[i + 1]
  BY HeadTailProperties DEF Closes
<1>4. Len(a) - 1 \in 1 .. Len(a) - 1 /\ Len(a) - 1 + 1 = Len(a) /\ Len(Tail(a)) # 0
  BY <1>1, <1>2, <1>3, SMT
<1>5. Tail(a)[Len(Tail(a))] = a[Len(a)]
  BY <1>3, <1>4
<1>6. Tail(a) # <<>>
  BY <1>3, <1>4, EmptySeq
<1> QED BY <1>5, <1>6 DEF Closes

LEMMA ClosesInit ==
  ASSUME NEW before \in Seq(1 .. 5), Command("INIT", before)
  PROVE  Closes(answers') /\ answers' \in Seq(1 .. 5) /\ head' = head
         /\ reading' \in BOOLEAN /\ ~reading'
<1>1. PICK a \in {<<3, 2>>, <<3, 5>>, <<5>>} :
        /\ answers' = a \/ answers' = before \o a
        /\ reading' = ("INIT" = "READN" /\ a = <<3>>)
  BY DEF Command, Answers
<1>10. reading' \in BOOLEAN /\ ~reading'
  <2>1. "INIT" # "READN"
    OBVIOUS
  <2> QED BY <1>1, <2>1, Zenon
<1>2. a \in TwoLeft
  BY DEF TwoLeft
<1>3. a \in Seq(1 .. 5) /\ Len(a) \in 1 .. 2 /\ a[Len(a)] \in {2, 5}
  <2>1. CASE a = <<3, 2>>
    BY <2>1, SMT
  <2>2. CASE a = <<3, 5>>
    BY <2>2, SMT
  <2>3. CASE a = <<5>>
    BY <2>3, SMT
  <2> QED BY <1>1, <2>1, <2>2, <2>3
<1>4. Closes(a)
  BY <1>2, <1>3, TwoNext DEF Closes
<1> DEFINE b == before \o a
<1>5. /\ b \in Seq(1 .. 5) /\ Len(b) = Len(before) + Len(a)
      /\ \A i \in 1 .. Len(before) + Len(a) :
           b[i] = IF i =< Len(before) THEN before[i] ELSE a[i - Len(before)]
  BY <1>3, ConcatProperties
<1> HIDE DEF b
<1>6. Len(before) \in Nat
  BY LenProperties
<1>7. b[Len(b)] = a[Len(a)] /\ Len(b) # 0
  <2> DEFINE l == Len(before)
             m == Len(a)
             k == l + m
  <2>1. l \in Nat /\ m \in 1 .. 2 /\ Len(b) = k
    BY <1>3, <1>5, <1>6
  <2>2. \A i \in 1 .. k : b[i] = IF i =< l THEN before[i] ELSE a[i - l]
    BY <1>5
  <2>0. k = l + m
    OBVIOUS
  <2> HIDE DEF l, m, k
  <2>3. k \in 1 .. k /\ ~(k =< l) /\ k - l = m /\ k # 0
    BY <2>0, <2>1, SMT
  <2>4. b[k] = a[k - l]
    BY <2>2, <2>3
  <2> QED BY <2>1, <2>3, <2>4 DEF m
<1>8. Closes(b)
  BY <1>3, <1>5, <1>7, EmptySeq DEF Closes
<1>9. head' = head
  BY DEF Command
<1> QED BY <1>1, <1>3, <1>4, <1>5, <1>8, <1>9, <1>10 DEF b

LEMMA TailTyped ==
  ASSUME CdInv, answers # <<>> PROVE Tail(answers) \in Seq(1 .. 5) /\ Rest \in Seq(1 .. 5)
  BY HeadTailProperties DEF CdInv, CdTypes, Rest

-----------------------------------------------------------------------------
LEMMA KeptByComplete ==
  ASSUME CdInv, SeekIsAtomic, Complete PROVE CdInv'
<1>1. /\ Raise(2) /\ Raised(2) /\ s_currentState' = CD_IDLE
      /\ UNCHANGED <<s_sectorCounter, s_dmaCounter, buffer, dmaIrq>>
      /\ UNCHANGED program /\ cdPc' = cdPc /\ count' = count
  BY DEF Complete, State, dma, program
<1>2. /\ ~dmaIrq /\ dmaIrq = FALSE /\ answers # <<>> /\ ~Rests
      /\ answers' = Tail(answers) /\ reading' = reading /\ head' = head
      /\ 2 = Head(answers)
  <2>1. answers # <<>>
    BY <1>1, RaisedReading
  <2>2. answers' = Tail(answers) /\ reading' = reading /\ head' = head
    BY <1>1, <2>1 DEF Raised
  <2> QED BY <1>1, <2>1, <2>2, InterruptWhere
<1>3. answers' \in Seq(1 .. 5)
  BY <1>2, TailTyped
<1>4. /\ s_gotInt5' = FALSE
      /\ pending' \subseteq CdEvent /\ s_initializationComplete' \in 0 .. 2
      /\ s_currentState \notin {INITIALIZING, GOT_ERROR_AND_REINIT, CD_IDLE}
           => pending' = pending \cup {DNE}
      /\ s_currentState = GOT_ERROR_AND_REINIT => pending' = pending \cup {ERR}
  <2>1. /\ s_gotInt5 = (s_currentState = GOT_ERROR_AND_REINIT)
        /\ pending \subseteq CdEvent /\ s_initializationComplete \in 0 .. 2
        /\ 1 \in 0 .. 2
    BY SMT DEF CdInv, CdTypes
  <2>2. CASE s_currentState = INITIALIZING
    BY <2>1, <2>2 DEF Complete
  <2>3. CASE s_currentState = GOT_ERROR_AND_REINIT
    BY <2>1, <2>3 DEF Complete, Deliver, CdEvent
  <2>4. CASE s_currentState = CD_IDLE
    BY <2>1, <2>4 DEF Complete
  <2>5. CASE s_currentState \notin {INITIALIZING, GOT_ERROR_AND_REINIT, CD_IDLE}
    BY <2>1, <2>5 DEF Complete, Deliver, CdEvent
  <2> QED BY <2>2, <2>3, <2>4, <2>5
<1>5. CdTypes'
  BY <1>1, <1>2, <1>3, <1>4, InterruptTypes DEF CdInv, CdTypes
<1>6. ASSUME cdPc \in Starts PROVE Starting'
  BY <1>1, <1>2, <1>6 DEF CdInv, CdGood, Starting
<1>7. answers \in TwoLeft /\ ~reading => Rests'
  BY <1>1, <1>2, RaisedTwo DEF Rests, Quiet
<1>8. ASSUME cdPc = "seekWait" PROVE Seeking'
  <2>1. Seeking /\ s_currentState \in {SEEKL, GOT_ERROR_AND_REINIT}
        /\ Silent /\ answers \in TwoLeft /\ ~reading
    BY <1>1, <1>2, <1>8, RaisedOne DEF CdInv, CdGood, Seeking, Asks, Resets
  <2> QED BY <1>1, <1>2, <1>4, <1>7, <2>1 DEF Seeking, Silent
<1>9. ASSUME cdPc = "readWait" PROVE Reading'
  <2>1. /\ Silent /\ answers \in TwoLeft /\ ~reading
        /\ \/ s_currentState = PAUSING /\ Pauses
           \/ s_currentState = GOT_ERROR_AND_REINIT
    BY <1>1, <1>2, <1>9, RaisedOne, RaisedLate
       DEF CdInv, CdGood, Reading, Asks, Resets, Opens, Fills, Pauses
  <2>2. DNE \in pending' => Prefix /\ Len(buffer) = count
    BY <1>4, <2>1 DEF Silent, Pauses
  <2>3. ACK \in pending' => Len(buffer) = count
    BY <1>4, <1>9, <2>1 DEF CdInv, CdGood, Reading
  <2> QED BY <1>1, <1>2, <1>7, <2>1, <2>2, <2>3 DEF Reading, Prefix
<1>10. ASSUME cdPc = "wait" PROVE Waiting'
  <2>1. answers \in TwoLeft /\ ~reading
    BY <1>1, <1>2, <1>10, RaisedOne DEF CdInv, CdGood, Waiting, Asks, Resets
  <2> QED BY <1>7, <2>1 DEF Waiting
<1>11. CdGood'
  BY <1>1, <1>6, <1>8, <1>9, <1>10, InterruptGood
<1> QED BY <1>5, <1>11 DEF CdInv

(* The sectors of a read follow one another. *)
LEMMA PrefixGrows ==
  ASSUME NEW b \in Seq(Nat), b = [k \in 1 .. Len(b) |-> k - 1]
  PROVE  LET c == Append(b, Len(b))
         IN  /\ c \in Seq(Nat) /\ Len(c) = Len(b) + 1
             /\ c = [k \in 1 .. Len(c) |-> k - 1]
<1> DEFINE l == Len(b)
           c == Append(b, l)
<1>1. l \in Nat
  BY LenProperties
<1>2. /\ c \in Seq(Nat) /\ Len(c) = l + 1 /\ DOMAIN c = 1 .. l + 1
      /\ \A i \in 1 .. l : c[i] = b[i]
      /\ c[l + 1] = l
  BY <1>1, AppendProperties, LenProperties
<1>3. \A i \in 1 .. l : b[i] = i - 1
  OBVIOUS
<1>4. c = [k \in DOMAIN c |-> c[k]]
  <2>1. c \in [1 .. Len(c) -> Nat]
    BY <1>2, LenProperties
  <2> QED BY <2>1
<1> HIDE DEF c, l
<1>5. \A k \in 1 .. l + 1 : c[k] = k - 1
  <2> SUFFICES ASSUME NEW k \in 1 .. l + 1 PROVE c[k] = k - 1
    OBVIOUS
  <2>1. CASE k \in 1 .. l
    BY <1>2, <1>3, <2>1
  <2>2. CASE k = l + 1
    <3>1. l + 1 - 1 = l
      BY <1>1, SMT
    <3> QED BY <1>2, <2>2, <3>1
  <2> QED BY <1>1, <2>1, <2>2, SMT
<1>6. c = [k \in 1 .. l + 1 |-> k - 1]
  BY <1>2, <1>4, <1>5
<1> QED BY <1>2, <1>6 DEF c, l

LEMMA KeptByDataReady ==
  ASSUME CdInv, SeekIsAtomic, DataReady PROVE CdInv'
<1>1. /\ Raise(1) /\ cdPc' = cdPc /\ count' = count /\ UNCHANGED program
      /\ UNCHANGED <<s_dmaCounter, s_gotInt5, s_initializationComplete, pending>>
  BY DEF DataReady, program
<1>2. /\ ~dmaIrq /\ dmaIrq = FALSE /\ ~Rests
      /\ answers # <<>> => Head(answers) = 1
      /\ cdPc \in Starts => answers # <<>>
  BY <1>1, InterruptWhere
<1>3. ~(answers \in OneLeft) /\ ~(answers \in TwoLeft)
  BY <1>1, RaisedOne, RaisedTwo
<1>4. CASE s_currentState # READN
  <2>1. /\ Raised(1)
        /\ UNCHANGED <<s_currentState, s_sectorCounter, buffer, dmaIrq>>
    BY <1>4 DEF DataReady, dma
  <2>2. answers # <<>>
    <3> SUFFICES ASSUME answers = <<>> PROVE FALSE
      OBVIOUS
    <3>1. <<>> \notin OneLeft /\ <<>> \notin TwoLeft /\ <<>> # <<1, 3, 2>>
      BY OneNext, TwoNext, LateNext
    <3>2. reading /\ answers \notin OneLeft \cup TwoLeft \cup {<<1, 3, 2>>}
      BY <1>1, <3>1, RaisedReading
    <3>3. cdPc \in {"seekWait", "readWait", "wait"}
      BY <1>1, <1>2, InterruptWhere DEF CdInv, CdTypes, Waits
    <3> QED BY <1>2, <1>4, <3>2, <3>3 DEF CdInv, CdGood, Seeking, Reading, Waiting,
               Asks, Resets, Opens, Fills, Pauses
  <2>3. answers' = Tail(answers) /\ reading' = reading /\ head' = head
    BY <2>1, <2>2 DEF Raised
  <2>4. answers' \in Seq(1 .. 5)
    BY <2>2, <2>3, TailTyped
  <2>5. CdTypes'
    BY <1>1, <2>1, <2>3, <2>4, InterruptTypes DEF CdInv, CdTypes
  <2>6. ASSUME cdPc \in Starts PROVE Starting'
    <3>1. Starting /\ answers \in Seq(1 .. 5) /\ Head(answers) = 1
      BY <1>2, <2>2, <2>6 DEF CdInv, CdGood, CdTypes
    <3>2. Closes(answers) => Closes(Tail(answers))
      BY <3>1, ClosesTail, SMT
    <3> QED BY <1>1, <2>1, <2>3, <3>1, <3>2 DEF Starting
  <2>7. ASSUME cdPc = "seekWait" PROVE Seeking'
    BY <1>2, <1>3, <2>7 DEF CdInv, CdGood, Seeking, Asks, Resets
  <2>8. ASSUME cdPc = "readWait" PROVE Reading'
    <3>1. Silent /\ Pauses /\ answers = <<1, 3, 2>>
      BY <1>2, <1>3, <1>4, <2>2, <2>8
         DEF CdInv, CdGood, Reading, Asks, Resets, Opens, Fills, Pauses
    <3>2. answers' \in TwoLeft
      BY <1>1, <2>1, <3>1, RaisedLate
    <3>3. Pauses'
      BY <1>1, <2>1, <2>3, <3>1, <3>2 DEF Pauses, Asks, Prefix
    <3>4. Silent' /\ (ACK \in pending' => Len(buffer') = count')
      BY <1>1, <2>1, <2>8, <3>1 DEF Silent, CdInv, CdGood, Reading
    <3> QED BY <3>3, <3>4 DEF Reading
  <2>9. ASSUME cdPc = "wait" PROVE Waiting'
    BY <1>2, <1>3, <2>9 DEF CdInv, CdGood, Waiting, Asks, Resets
  <2>10. CdGood'
    BY <1>1, <2>6, <2>7, <2>8, <2>9, InterruptGood
  <2> QED BY <2>5, <2>10 DEF CdInv
<1>5. CASE s_currentState = READN
  <2>1. InitiateDMA
    BY <1>5 DEF DataReady
  <2>2. cdPc = "readWait"
    <3>1. cdPc \in Starts \cup Waits
      BY <1>1, <1>2, InterruptWhere DEF CdInv, CdTypes
    <3> QED BY <1>2, <1>5, <3>1 DEF CdInv, CdGood, Starting, Seeking, Waiting, Asks,
               Resets, Waits
  <2>3. Silent /\ Fills /\ (ACK \in pending => Len(buffer) = count)
    BY <1>2, <1>3, <1>5, <2>2
       DEF CdInv, CdGood, Reading, Asks, Resets, Opens, Pauses
  <2>4. answers = <<>> /\ reading
    BY <1>3, <2>3 DEF Fills, OneLeft
  <2>5. Rest = <<>> /\ buffer \in Seq(Nat) /\ Len(buffer) \in Nat
        /\ head = Len(buffer) /\ s_sectorCounter \in Nat
        /\ s_dmaCounter \in Nat /\ count \in Int
    <3>1. Len(buffer) \in Nat /\ s_sectorCounter \in Nat
      BY LenProperties DEF CdInv, CdTypes
    <3>2. count \in Int
      BY <2>3, <3>1, SMT DEF Fills
    <3> QED BY <1>1, <2>3, <2>4, <3>1, <3>2, RaisedReading DEF CdInv, CdTypes, Fills
  <2>6. /\ buffer' = Append(buffer, Len(buffer)) /\ dmaIrq' = TRUE
        /\ s_sectorCounter' = s_sectorCounter - 1
    BY <2>1, <2>5 DEF InitiateDMA, CdTransfer
  <2>7. buffer' \in Seq(Nat) /\ Len(buffer') = Len(buffer) + 1 /\ Prefix'
    BY <2>3, <2>5, <2>6, PrefixGrows DEF Fills, Prefix
  <2>8. /\ s_sectorCounter > 0 /\ s_sectorCounter' \in Nat
        /\ Len(buffer') + s_sectorCounter' = count /\ Len(buffer') =< count
        /\ ACK \notin pending
        /\ s_dmaCounter = s_sectorCounter' + 1
    <3>1. s_sectorCounter > 0 /\ Len(buffer) + s_sectorCounter = count
          /\ s_dmaCounter = s_sectorCounter
      BY <1>2, <2>3 DEF Fills
    <3>2. Len(buffer) # count
      BY <2>5, <3>1, SMT
    <3>3. Len(buffer') \in Nat
      BY <2>7, LenProperties
    <3> DEFINE l == Len(buffer)
               m == Len(buffer')
    <3>4. l \in Nat /\ m \in Nat /\ l + s_sectorCounter = count /\ m = l + 1
      BY <2>5, <2>7, <3>1, <3>3
    <3> HIDE DEF l, m
    <3>5. s_sectorCounter' \in Nat /\ m + s_sectorCounter' = count /\ m =< count
          /\ s_sectorCounter = s_sectorCounter' + 1
      BY <2>5, <2>6, <3>1, <3>4, SMT
    <3> QED BY <2>3, <3>1, <3>2, <3>5 DEF m
  <2>9. Silent' /\ (ACK \in pending' => Len(buffer') = count')
    BY <1>1, <2>3, <2>8 DEF Silent
  <2>10. CASE s_sectorCounter' # 0
    <3>1. Raised(1) /\ s_currentState' = s_currentState
      BY <2>1, <2>10 DEF InitiateDMA
    <3>2. answers' = <<>> /\ reading' = TRUE /\ head' = head + 1
      <4>1. reading' = (1 = 1)
        BY <1>1, <2>4, <3>1, RaisedReading
      <4> QED BY <1>1, <2>4, <3>1, <4>1, RaisedReading
    <3>3. answers' \in Seq(1 .. 5) /\ head' \in Nat
      BY <2>5, <3>2, LeftInSeq, SMT
    <3>4. CdTypes'
      BY <1>1, <2>2, <2>5, <2>6, <2>7, <2>8, <3>1, <3>2, <3>3, InterruptTypes
         DEF CdInv, CdTypes
    <3>5. Fills'
      <4>1. s_sectorCounter' > 0 /\ head' = Len(buffer')
        BY <2>5, <2>7, <2>8, <2>10, <3>2, SMT
      <4> QED BY <1>1, <1>5, <2>6, <2>7, <2>8, <3>1, <3>2, <4>1 DEF Fills
    <3>6. Reading'
      BY <2>9, <3>5 DEF Reading
    <3>7. CdGood'
      BY <1>1, <2>2, <3>6, InterruptGood DEF Starts
    <3> QED BY <3>4, <3>7 DEF CdInv
  <2>11. CASE s_sectorCounter' = 0
    <3>1. Command("PAUSE", <<>>) /\ s_currentState' = PAUSING
      BY <2>1, <2>5, <2>11 DEF InitiateDMA, State
    <3>2. /\ answers' \in TwoLeft \cup {<<1, 3, 2>>} /\ ~reading'
          /\ head' = head /\ reading' \in BOOLEAN
      BY <3>1, CommandAnswers
    <3>3. answers' \in Seq(1 .. 5) /\ head' \in Nat
      BY <2>5, <3>2, LeftInSeq
    <3>4. CdTypes'
      BY <1>1, <1>5, <2>2, <2>5, <2>6, <2>7, <2>8, <3>1, <3>2, <3>3, InterruptTypes
         DEF CdInv, CdTypes
    <3>5. Pauses'
      <4>1. Len(buffer') = count /\ s_dmaCounter = 1
        BY <2>7, <2>8, <2>11, LenProperties, SMT
      <4> QED BY <1>1, <2>6, <2>7, <2>11, <3>1, <3>2, <4>1 DEF Pauses, Asks
    <3>6. Reading'
      BY <2>9, <3>5 DEF Reading
    <3>7. CdGood'
      BY <1>1, <2>2, <3>6, InterruptGood DEF Starts
    <3> QED BY <3>4, <3>7 DEF CdInv
  <2> QED BY <2>10, <2>11
<1> QED BY <1>4, <1>5

LEMMA KeptByAcknowledge ==
  ASSUME ReadCounts \subseteq Nat \ {0}, CdInv, SeekIsAtomic, Acknowledge PROVE CdInv'
<1>1. /\ Raise(3) /\ cdPc' = cdPc /\ count' = count /\ UNCHANGED program
      /\ UNCHANGED <<s_sectorCounter, s_dmaCounter, s_gotInt5,
                     s_initializationComplete, buffer, dmaIrq>>
  BY DEF Acknowledge, program, dma
<1>2. /\ ~dmaIrq /\ dmaIrq = FALSE /\ ~Rests
      /\ answers # <<>> /\ Head(answers) = 3
  <2>1. answers # <<>>
    BY <1>1, RaisedReading
  <2> QED BY <1>1, <2>1, InterruptWhere
<1>3. ASSUME cdPc \in Starts PROVE CdInv'
  <2>1. Starting
    BY <1>3 DEF CdInv, CdGood
  <2>2. Raised(3) /\ UNCHANGED <<s_currentState, pending>>
    BY <2>1 DEF Starting, Acknowledge
  <2>3. answers' = Tail(answers) /\ reading' = reading /\ head' = head
    BY <1>2, <2>2 DEF Raised
  <2>4. answers' \in Seq(1 .. 5)
    BY <1>2, <2>3, TailTyped
  <2>5. CdTypes'
    BY <1>1, <2>2, <2>3, <2>4, InterruptTypes DEF CdInv, CdTypes
  <2>6. Closes(answers) => Closes(Tail(answers))
    <3>1. answers \in Seq(1 .. 5) /\ Head(answers) \notin {2, 5}
      BY <1>2, SMT DEF CdInv, CdTypes
    <3> QED BY <3>1, ClosesTail
  <2>7. Starting'
    BY <1>1, <2>1, <2>2, <2>3, <2>6 DEF Starting
  <2>8. CdGood'
    BY <1>1, <1>3, <2>7, InterruptGood DEF Starts
  <2> QED BY <2>5, <2>8 DEF CdInv
<1>4. ASSUME cdPc \in Waits PROVE CdInv'
  <2>1. /\ Silent /\ (cdPc = "readWait" /\ ACK \in pending => Len(buffer) = count)
        /\ cdPc = "seekWait" =>
             \/ Asks(SEEKL_SETLOC, OneLeft) /\ head = 0
             \/ Asks(SEEKL, TwoLeft) /\ head = 0
             \/ Resets
        /\ cdPc = "readWait" =>
             Opens(READ_SETMODE, OneLeft) \/ Fills \/ Pauses \/ Resets
        /\ cdPc = "wait" =>
             Asks(GETSTATUS, OneLeft) \/ Asks(SETMODE, OneLeft) \/ Resets
    <3>1. answers # <<5>>
      BY <1>2, SMT
    <3> QED BY <1>2, <1>4, <3>1 DEF CdInv, CdGood, Seeking, Reading, Waiting, Waits, Opens,
               Asks, Resets
  <2>2. ASSUME s_currentState \in {SETMODE, GETSTATUS} PROVE CdInv'
    <3>1. cdPc = "wait" /\ answers \in OneLeft /\ ~reading
      BY <1>4, <2>1, <2>2 DEF Asks, Resets, Opens, Fills, Pauses, Waits
    <3>2. /\ s_currentState' = CD_IDLE /\ pending' = pending \cup {DNE}
          /\ Raised(3)
      BY <2>2 DEF Acknowledge, State, Deliver
    <3>3. answers' = <<>> /\ reading' = reading /\ head' = head
      BY <1>1, <3>1, <3>2, RaisedOne
    <3>4. CdTypes'
      BY <1>1, <2>2, <3>2, <3>3, LeftInSeq, InterruptTypes DEF CdInv, CdTypes, CdEvent
    <3>5. Waiting'
      BY <3>1, <3>2, <3>3 DEF Waiting, Rests, Quiet
    <3>6. CdGood'
      BY <1>1, <3>1, <3>5, InterruptGood DEF Starts
    <3> QED BY <3>4, <3>6 DEF CdInv
  <2>3. ASSUME s_currentState = SEEKL_SETLOC PROVE CdInv'
    <3>1. cdPc = "seekWait" /\ answers \in OneLeft /\ ~reading /\ head = 0
      BY <1>4, <2>1, <2>3 DEF Asks, Resets, Opens, Fills, Pauses, Waits
    <3>2. /\ s_currentState' = SEEKL /\ pending' = pending
          /\ Command("SEEKL", <<>>)
      BY <1>1, <2>3, <3>1, RaisedOne DEF Acknowledge, State
    <3>3. answers' \in TwoLeft /\ ~reading' /\ reading' \in BOOLEAN /\ head' = head
      BY <3>2, CommandAnswers
    <3>4. CdTypes'
      BY <1>1, <2>3, <3>2, <3>3, LeftInSeq, InterruptTypes DEF CdInv, CdTypes
    <3>5. Seeking'
      BY <2>1, <3>1, <3>2, <3>3 DEF Seeking, Asks, Silent
    <3>6. CdGood'
      BY <1>1, <3>1, <3>5, InterruptGood DEF Starts
    <3> QED BY <3>4, <3>6 DEF CdInv
  <2>4. ASSUME s_currentState = READ_SETMODE PROVE CdInv'
    <3>1. cdPc = "readWait" /\ Opens(READ_SETMODE, OneLeft)
      BY <1>4, <2>1, <2>4 DEF Asks, Resets, Opens, Fills, Pauses, Waits
    <3>2. /\ s_currentState' = READN /\ pending' = pending
          /\ Command("READN", <<>>)
      BY <1>1, <2>4, <3>1, RaisedOne DEF Acknowledge, State, Opens, Asks
    <3>3. /\ answers' \in OneLeft /\ head' = head
          /\ reading' \in BOOLEAN /\ (reading' <=> answers' = <<3>>)
      BY <3>2, CommandAnswers
    <3>4. CdTypes'
      BY <1>1, <2>4, <3>2, <3>3, LeftInSeq, InterruptTypes DEF CdInv, CdTypes
    <3>5. Fills' \/ Opens(READN, {<<5>>})'
      <4>1. CASE answers' = <<3>>
        <5>1. reading'
          BY <3>3, <4>1
        <5>2. /\ s_sectorCounter > 0 /\ Len(buffer) + s_sectorCounter = count
              /\ Prefix /\ head = Len(buffer) /\ s_dmaCounter = s_sectorCounter
          <6>1. Len(buffer) = 0 /\ buffer = <<>> /\ 1 .. 0 = {}
            BY <3>1, SMT DEF Opens
          <6>2. Prefix
            BY <6>1 DEF Prefix
          <6>3. count \in Nat /\ count # 0
            BY DEF CdInv, CdTypes
          <6> QED BY <3>1, <6>1, <6>2, <6>3, SMT DEF Opens
        <5> QED BY <1>1, <1>2, <3>2, <3>3, <4>1, <5>1, <5>2 DEF Fills, Prefix
      <4>2. CASE answers' = <<5>>
        <5>1. ~reading'
          <6>1. <<5>> # <<3>>
            BY SMT
          <6> QED BY <3>3, <4>2, <6>1
        <5> QED BY <1>1, <3>1, <3>2, <3>3, <4>2, <5>1 DEF Opens, Asks
      <4> QED BY <3>3, <4>1, <4>2 DEF OneLeft
    <3>6. Reading'
      BY <1>1, <2>1, <3>1, <3>2, <3>5 DEF Reading, Silent
    <3>7. CdGood'
      BY <1>1, <3>1, <3>6, InterruptGood DEF Starts
    <3> QED BY <3>4, <3>7 DEF CdInv
  <2>5. ASSUME s_currentState \notin {SETMODE, GETSTATUS, SEEKL_SETLOC,
                                      READ_SETMODE}
        PROVE  CdInv'
    <3>1. Raised(3) /\ s_currentState' = s_currentState /\ pending' = pending
      BY <2>5 DEF Acknowledge
    <3>2. answers' = Tail(answers) /\ reading' = reading /\ head' = head
      BY <1>2, <3>1 DEF Raised
    <3>3. answers' \in Seq(1 .. 5)
      BY <1>2, <3>2, TailTyped
    <3>4. CdTypes'
      BY <1>1, <3>1, <3>2, <3>3, InterruptTypes DEF CdInv, CdTypes
    <3>5. answers \in TwoLeft => answers' \in TwoLeft
      BY <1>1, <3>1, RaisedTwo
    <3>6. answers # <<1, 3, 2>>
      BY <1>1, RaisedLate
    <3>7. ASSUME cdPc = "seekWait" PROVE Seeking'
      BY <2>1, <2>5, <3>1, <3>2, <3>5, <3>7 DEF Seeking, Asks, Resets, Silent
    <3>8. ASSUME cdPc = "readWait" PROVE Reading'
      <4>1. CASE Fills
        <5>1. answers = <<3>> /\ Tail(answers) = <<>>
          <6>1. answers = <<3>>
            BY <1>2, <4>1 DEF Fills
          <6>2. Tail(<<3>>) = <<>>
            BY SMT
          <6> QED BY <6>1, <6>2
        <5>2. Fills'
          BY <1>1, <1>2, <3>1, <3>2, <4>1, <5>1 DEF Fills, Prefix
        <5> QED BY <1>1, <2>1, <3>1, <3>8, <5>2 DEF Reading, Silent
      <4>2. CASE Pauses
        <5>1. Pauses'
          BY <1>1, <1>2, <3>1, <3>2, <3>5, <3>6, <4>2 DEF Pauses, Asks, Prefix
        <5> QED BY <1>1, <2>1, <3>1, <3>8, <5>1 DEF Reading, Silent
      <4>3. CASE Resets
        <5>1. Resets'
          BY <3>1, <3>2, <3>5, <4>3 DEF Resets, Asks
        <5> QED BY <1>1, <1>2, <2>1, <3>1, <3>8, <5>1 DEF Reading, Silent
      <4>4. ~Opens(READ_SETMODE, OneLeft)
        BY <2>5 DEF Opens, Asks
      <4> QED BY <2>1, <3>8, <4>1, <4>2, <4>3, <4>4
    <3>9. ASSUME cdPc = "wait" PROVE Waiting'
      BY <2>1, <2>5, <3>1, <3>2, <3>5, <3>9 DEF Waiting, Asks, Resets, Silent
    <3>10. CdGood'
      BY <1>1, <1>4, <3>7, <3>8, <3>9, InterruptGood DEF Starts, Waits
    <3> QED BY <3>4, <3>10 DEF CdInv
  <2> QED BY <2>2, <2>3, <2>4, <2>5
<1>5. cdPc \in Starts \cup Waits
  BY <1>1, InterruptWhere DEF CdInv, CdTypes
<1> QED BY <1>3, <1>4, <1>5

LEMMA KeptByEnd ==
  ASSUME CdInv, SeekIsAtomic, DiscEnd PROVE CdInv'
<1>1. /\ Raise(4) /\ Raised(4) /\ cdPc' = cdPc /\ count' = count
      /\ UNCHANGED program
      /\ UNCHANGED <<s_sectorCounter, s_dmaCounter, s_gotInt5,
                     s_initializationComplete, buffer, dmaIrq>>
      /\ pending' \subseteq pending \cup {END}
      /\ IF s_currentState = READN THEN s_currentState' = CD_IDLE
         ELSE s_currentState' = s_currentState
  BY DEF DiscEnd, program, dma, State, Deliver
<1>2. /\ ~dmaIrq /\ dmaIrq = FALSE /\ ~Rests
      /\ answers # <<>> => Head(answers) = 4
      /\ cdPc \in Starts => answers # <<>>
      /\ cdPc \notin Between /\ cdPc # "seekState"
  BY <1>1, InterruptWhere
<1>3. /\ answers \notin OneLeft /\ answers \notin TwoLeft /\ answers # <<1, 3, 2>>
      /\ answers # <<3>>
  BY <1>1, RaisedOne, RaisedTwo, RaisedLate DEF OneLeft
<1>4. CASE cdPc \in Starts
  <2>1. Starting
    BY <1>4 DEF CdInv, CdGood
  <2>2. s_currentState' = s_currentState /\ pending' = pending
    BY <2>1 DEF Starting, DiscEnd
  <2>3. answers' = Tail(answers) /\ reading' = reading /\ head' = head
    BY <1>1, <1>2, <1>4 DEF Raised
  <2>4. answers' \in Seq(1 .. 5)
    BY <1>2, <1>4, <2>3, TailTyped
  <2>5. CdTypes'
    BY <1>1, <2>2, <2>3, <2>4, InterruptTypes DEF CdInv, CdTypes
  <2>6. Closes(answers) => Closes(Tail(answers))
    <3>1. answers \in Seq(1 .. 5) /\ Head(answers) \notin {2, 5}
      BY <1>2, <1>4, SMT DEF CdInv, CdTypes
    <3> QED BY <3>1, ClosesTail
  <2>7. Starting'
    BY <1>1, <2>1, <2>2, <2>3, <2>6 DEF Starting
  <2>8. CdGood'
    BY <1>1, <1>4, <2>7, InterruptGood DEF Starts
  <2> QED BY <2>5, <2>8 DEF CdInv
<1>5. CASE cdPc \notin Starts
  <2>1. cdPc = "readWait" /\ Silent /\ Fills /\ (ACK \in pending => Len(buffer) = count)
    <3>1. cdPc \in Waits
      BY <1>2, <1>5 DEF CdInv, CdTypes
    <3>2. <<5>> \in OneLeft
      BY DEF OneLeft
    <3> QED BY <1>2, <1>3, <3>1, <3>2 DEF CdInv, CdGood, Seeking, Reading, Waiting,
               Waits, Asks, Resets, Opens, Pauses
  <2>2. answers = <<>>
    BY <1>3, <2>1 DEF Fills
  <2>3. answers' = <<>> /\ ~reading' /\ reading' \in BOOLEAN /\ head' = head
    <3>1. reading' = (4 = 1) /\ head' = IF 4 = 1 THEN head + 1 ELSE head
      BY <1>1, <2>2, Zenon DEF Raised
    <3>2. 4 # 1
      BY SMT
    <3> QED BY <1>1, <2>2, <3>1, <3>2, Zenon DEF Raised
  <2>4. s_currentState = READN /\ s_currentState' = CD_IDLE
    BY <1>1, <2>1 DEF Fills
  <2>5. pending' \subseteq CdEvent
    BY <1>1 DEF CdInv, CdTypes, CdEvent
  <2>6. CdTypes'
    BY <1>1, <1>2, <2>1, <2>3, <2>4, <2>5, LeftInSeq, InterruptTypes DEF CdInv, CdTypes
  <2>7. Reading'
    <3>1. DNE \notin pending' /\ (ACK \in pending' => Len(buffer') = count')
      BY <1>1, <2>1 DEF Silent
    <3> QED BY <1>1, <1>2, <2>3, <2>4, <3>1 DEF Reading, Rests, Quiet
  <2>8. CdGood'
    BY <1>1, <2>1, <2>7, InterruptGood DEF Starts
  <2> QED BY <2>6, <2>8 DEF CdInv
<1> QED BY <1>4, <1>5

LEMMA KeptByDiscError ==
  ASSUME CdInv, SeekIsAtomic, DiscError PROVE CdInv'
<1>1. /\ Raise(5) /\ cdPc' = cdPc /\ count' = count /\ UNCHANGED program
      /\ UNCHANGED <<s_sectorCounter, s_dmaCounter, buffer, dmaIrq>>
  BY DEF DiscError, program, dma
<1>2. /\ ~dmaIrq /\ dmaIrq = FALSE /\ ~Rests
      /\ answers # <<>> => Head(answers) = 5
      /\ cdPc \in Starts => answers # <<>>
      /\ cdPc \notin Between /\ cdPc # "seekState"
      /\ answers # <<1, 3, 2>>
  <2>1. answers # <<1, 3, 2>>
    BY <1>1, RaisedLate
  <2> QED BY <1>1, <2>1, InterruptWhere
<1>3. /\ s_gotInt5 \in BOOLEAN
      /\ s_gotInt5 <=> s_currentState = GOT_ERROR_AND_REINIT
  BY Zenon DEF CdInv, CdTypes
<1>4. CASE s_currentState = INITIALIZING
  <2>1. /\ s_initializationComplete' = 2 /\ Raised(5)
        /\ UNCHANGED <<s_currentState, s_gotInt5, pending>>
    BY <1>4 DEF DiscError
  <2>2. cdPc \in Starts
    <3>1. cdPc \in Starts \cup Waits
      BY <1>2 DEF CdInv, CdTypes
    <3> QED BY <1>2, <1>4, <3>1 DEF CdInv, CdGood, Seeking, Reading, Waiting, Waits,
               Rests, Asks, Resets, Opens, Fills, Pauses
  <2>3. answers' = Tail(answers) /\ reading' = reading /\ head' = head
    BY <1>2, <2>1, <2>2 DEF Raised
  <2>4. answers' \in Seq(1 .. 5) /\ 2 \in 0 .. 2
    BY <1>2, <2>2, <2>3, TailTyped, SMT
  <2>5. CdTypes'
    BY <1>1, <2>1, <2>3, <2>4, InterruptTypes DEF CdInv, CdTypes
  <2>6. Starting'
    BY <1>1, <1>4, <2>1, <2>2, <2>3 DEF CdInv, CdGood, Starting
  <2>7. CdGood'
    BY <1>1, <2>2, <2>6, InterruptGood DEF Starts
  <2> QED BY <2>5, <2>7 DEF CdInv
<1>5. CASE s_currentState = GOT_ERROR_AND_REINIT
  <2>1. /\ s_currentState' = CD_IDLE /\ Raised(5) /\ s_gotInt5' = ~s_gotInt5
        /\ pending' = pending \cup {ERR}
        /\ s_initializationComplete' = s_initializationComplete
    BY <1>3, <1>5 DEF DiscError, State, Deliver
  <2>2. answers # <<>>
    <3>1. <<>> \notin TwoLeft
      BY TwoNext
    <3>2. cdPc \in Starts \cup Waits
      BY <1>2 DEF CdInv, CdTypes
    <3> QED BY <1>2, <1>5, <3>1, <3>2 DEF CdInv, CdGood, Seeking, Reading, Waiting, Waits,
               Asks, Resets, Opens, Fills, Pauses
  <2>3. answers' = Tail(answers) /\ reading' = reading /\ head' = head
    BY <2>1, <2>2 DEF Raised
  <2>4. answers' \in Seq(1 .. 5) /\ pending' \subseteq CdEvent
    BY <2>1, <2>2, <2>3, TailTyped DEF CdInv, CdTypes, CdEvent
  <2>5. s_gotInt5' = (s_currentState' = GOT_ERROR_AND_REINIT)
    <3>1. s_gotInt5' = FALSE
      BY <1>3, <1>5, <2>1, Zenon
    <3> QED BY <2>1, <3>1
  <2>6. CdTypes'
    BY <1>1, <2>1, <2>3, <2>4, <2>5, InterruptTypes DEF CdInv, CdTypes
  <2>7. ASSUME cdPc \in Starts PROVE Starting'
    BY <1>1, <2>1, <2>3, <2>7 DEF CdInv, CdGood, Starting
  <2>8. ASSUME cdPc \in Waits PROVE Rests' /\ Silent
    <3>1. answers \in TwoLeft /\ ~reading /\ Silent
      BY <1>2, <1>5, <2>8 DEF CdInv, CdGood, Seeking, Reading, Waiting, Waits,
         Asks, Resets, Opens, Fills, Pauses
    <3>2. answers' = <<>>
      BY <1>1, <2>1, <3>1, RaisedTwo, SMT
    <3> QED BY <2>1, <2>3, <3>1, <3>2 DEF Rests, Quiet
  <2>9. DNE \in pending' => DNE \in pending
    BY <2>1
  <2>10. ASSUME cdPc = "seekWait" PROVE Seeking'
    BY <2>1, <2>8, <2>9, <2>10 DEF Seeking, Silent, Waits
  <2>11. ASSUME cdPc = "readWait" PROVE Reading'
    <3>1. DNE \notin pending' /\ (ACK \in pending' => Len(buffer) = count)
      BY <2>1, <2>8, <2>11 DEF Silent, Waits, CdInv, CdGood, Reading
    <3> QED BY <1>1, <1>2, <2>8, <2>11, <3>1 DEF Reading, Waits
  <2>12. ASSUME cdPc = "wait" PROVE Waiting'
    BY <2>8, <2>12 DEF Waiting, Waits
  <2>13. CdGood'
    BY <1>1, <2>7, <2>10, <2>11, <2>12, InterruptGood
  <2> QED BY <2>6, <2>13 DEF CdInv
<1>6. CASE s_currentState \notin {INITIALIZING, GOT_ERROR_AND_REINIT}
  <2>1. /\ s_currentState' = GOT_ERROR_AND_REINIT /\ Command("INIT", Rest)
        /\ s_gotInt5' = ~s_gotInt5 /\ pending' = pending
        /\ s_initializationComplete' = s_initializationComplete
    BY <1>3, <1>6 DEF DiscError, State
  <2>2. s_gotInt5' = (s_currentState' = GOT_ERROR_AND_REINIT)
    <3>1. s_gotInt5' = TRUE
      BY <1>3, <1>6, <2>1, Zenon
    <3> QED BY <2>1, <3>1
  <2>3. ASSUME cdPc \in Starts PROVE CdInv'
    <3>1. Rest \in Seq(1 .. 5)
      BY <1>2, <2>3, TailTyped
    <3>2. /\ Closes(answers') /\ answers' \in Seq(1 .. 5) /\ ~reading'
          /\ reading' \in BOOLEAN /\ head' = head
      BY <2>1, <3>1, ClosesInit
    <3>3. CdTypes'
      BY <1>1, <2>1, <2>2, <3>2, InterruptTypes DEF CdInv, CdTypes
    <3>4. Starting'
      BY <1>1, <2>1, <2>3, <3>2 DEF CdInv, CdGood, Starting
    <3>5. CdGood'
      BY <1>1, <2>3, <3>4, InterruptGood DEF Starts
    <3> QED BY <3>3, <3>5 DEF CdInv
  <2>4. ASSUME cdPc \in Waits PROVE CdInv'
    <3>1. /\ Silent
          /\ answers \in OneLeft \/ answers \in TwoLeft \/ answers = <<>>
      <4>1. <<5>> \in OneLeft /\ <<3>> \in OneLeft
        BY DEF OneLeft
      <4> QED BY <1>2, <2>4, <4>1 DEF CdInv, CdGood, Seeking, Reading, Waiting, Waits,
                 Asks, Resets, Opens, Fills, Pauses
    <3>2. Rest = <<>>
      <4>1. 5 # 3
        BY SMT
      <4> QED BY <1>1, <3>1, <4>1, RaisedOne, RaisedTwo, RaisedReading
    <3>3. /\ answers' \in TwoLeft /\ ~reading' /\ reading' \in BOOLEAN /\ head' = head
      BY <2>1, <3>2, CommandAnswers
    <3>4. CdTypes'
      BY <1>1, <2>1, <2>2, <3>3, LeftInSeq, InterruptTypes DEF CdInv, CdTypes
    <3>5. Resets' /\ Silent'
      BY <2>1, <3>1, <3>3 DEF Resets, Asks, Silent
    <3>6. ASSUME cdPc = "seekWait" PROVE Seeking'
      <4>1. DNE \notin pending'
        BY <2>1, <3>1 DEF Silent
      <4> QED BY <2>1, <3>5, <4>1 DEF Seeking
    <3>7. ASSUME cdPc = "readWait" PROVE Reading'
      BY <1>1, <1>2, <2>1, <3>5, <3>7 DEF CdInv, CdGood, Reading
    <3>8. ASSUME cdPc = "wait" PROVE Waiting'
      BY <3>5 DEF Waiting
    <3>9. CdGood'
      BY <1>1, <2>4, <3>6, <3>7, <3>8, InterruptGood DEF Starts, Waits
    <3> QED BY <3>4, <3>9 DEF CdInv
  <2>5. cdPc \in Starts \cup Waits
    BY <1>2 DEF CdInv, CdTypes
  <2> QED BY <2>3, <2>4, <2>5
<1> QED BY <1>4, <1>5, <1>6

LEMMA KeptByDmaVerifier ==
  ASSUME CdInv, DmaVerifier PROVE CdInv'
<1>1. /\ dmaIrq /\ dmaIrq' = FALSE /\ s_dmaCounter' = s_dmaCounter - 1
      /\ pending' = IF s_dmaCounter' = 0 THEN pending \cup {ACK} ELSE pending
      /\ UNCHANGED <<s_currentState, s_sectorCounter, s_gotInt5,
                     s_initializationComplete, buffer, answers, reading, head>>
      /\ UNCHANGED program /\ cdPc' = cdPc /\ count' = count
  BY DEF DmaVerifier, Deliver, drive, program
<1>2. cdPc = "readWait" /\ Silent /\ (ACK \in pending => Len(buffer) = count)
      /\ (Fills \/ Pauses)
  BY <1>1 DEF CdInv, CdTypes, CdGood, Reading, Opens
<1>3. pending' \subseteq CdEvent /\ Silent'
  BY <1>1, <1>2 DEF Silent, CdInv, CdTypes, CdEvent
<1>4. CASE Fills
  <2>1. s_dmaCounter' = s_sectorCounter /\ s_dmaCounter' # 0 /\ s_dmaCounter' \in Nat
    <3>1. s_sectorCounter \in Nat /\ s_sectorCounter > 0 /\ s_dmaCounter = s_sectorCounter + 1
      BY <1>1, <1>4 DEF CdInv, CdTypes, Fills
    <3> QED BY <1>1, <3>1, SMT
  <2>2. CdTypes'
    BY <1>1, <1>3, <2>1, InterruptTypes DEF CdInv, CdTypes
  <2>3. Fills'
    BY <1>1, <1>4, <2>1 DEF Fills, Prefix
  <2>4. Reading'
    BY <1>1, <1>2, <1>3, <2>1, <2>3 DEF Reading
  <2> QED BY <1>1, <1>2, <2>2, <2>4, Zenon DEF CdInv, CdGood, Starts, Between
<1>5. CASE Pauses
  <2>1. s_dmaCounter' = 0 /\ s_dmaCounter' \in Nat
    <3>1. s_dmaCounter = 1
      BY <1>1, <1>5 DEF Pauses
    <3> QED BY <1>1, <3>1, SMT
  <2>2. CdTypes'
    BY <1>1, <1>3, <2>1, InterruptTypes DEF CdInv, CdTypes
  <2>3. Pauses'
    BY <1>1, <1>5, <2>1 DEF Pauses, Prefix, Asks
  <2>4. Len(buffer') = count'
    BY <1>1, <1>5 DEF Pauses
  <2>5. Reading'
    BY <1>3, <2>3, <2>4 DEF Reading
  <2> QED BY <1>1, <1>2, <2>2, <2>5, Zenon DEF CdInv, CdGood, Starts, Between
<1> QED BY <1>2, <1>4, <1>5

LEMMA KeptByInit ==
  ASSUME CdInv, InitStep PROVE CdInv'
<1> USE DEF At, CdGoto, State, machine, dma, drive
<1>1. CASE InnerInit
  <2>1. /\ cdPc = "init" /\ cdPc' = "initCommand"
        /\ s_currentState' = INITIALIZING /\ s_initializationComplete' = 0
        /\ s_gotInt5' = FALSE
        /\ UNCHANGED <<s_sectorCounter, s_dmaCounter, buffer, dmaIrq, pending, answers,
                       reading, head, count, retries, cyclesToWait, result>>
    BY <1>1 DEF InnerInit
  <2>2. s_gotInt5' = (s_currentState' = GOT_ERROR_AND_REINIT) /\ 0 \in 0 .. 2 /\ 0 # 1
    <3>1. 0 \in 0 .. 2 /\ 0 # 1
      BY SMT
    <3>2. s_gotInt5' = (s_currentState' = GOT_ERROR_AND_REINIT)
      BY <2>1
    <3> QED BY <3>1, <3>2
  <2>3. CdTypes'
    BY <2>1, <2>2, Zenon DEF CdInv, CdTypes, Starts, Between, Reads, Waits, CdEvent
  <2>4. CdGood'
    BY <2>1, <2>2 DEF CdInv, CdGood, Starting, Starts, Between
  <2> QED BY <2>3, <2>4 DEF CdInv
<1>2. CASE InitCommand
  <2>1. /\ cdPc = "initCommand" /\ cdPc' = "initWait" /\ Command("INIT", answers)
        /\ UNCHANGED <<s_currentState, s_sectorCounter, s_dmaCounter, s_gotInt5,
                       s_initializationComplete, buffer, dmaIrq, pending,
                       count, retries, cyclesToWait, result>>
    BY <1>2 DEF InitCommand
  <2>2. answers \in Seq(1 .. 5)
    BY DEF CdInv, CdTypes
  <2>3. /\ Closes(answers') /\ answers' \in Seq(1 .. 5) /\ head' = head
        /\ reading' \in BOOLEAN /\ ~reading'
    BY <2>1, <2>2, ClosesInit
  <2>4. CdTypes'
    BY <2>1, <2>3, Zenon DEF CdInv, CdTypes, Starts, Between, Reads, Waits, CdEvent
  <2>5. CdGood'
    BY <2>1, <2>3 DEF CdInv, CdGood, Starting, Starts, Between
  <2> QED BY <2>4, <2>5 DEF CdInv
<1>3. CASE InitDone
  <2>1. /\ cdPc = "initWait" /\ cdPc' = "delay" /\ s_initializationComplete = 1
        /\ UNCHANGED <<s_currentState, s_sectorCounter, s_dmaCounter, s_gotInt5,
                       s_initializationComplete, buffer, dmaIrq, pending, answers,
                       reading, head, count, retries, cyclesToWait, result>>
    BY <1>3 DEF InitDone
  <2>2. CdTypes'
    BY <2>1, Zenon DEF CdInv, CdTypes, Starts, Between, Reads, Waits, CdEvent
  <2>3. CdGood'
    BY <2>1 DEF CdInv, CdGood, Starting, Starts, Between
  <2> QED BY <2>2, <2>3 DEF CdInv
<1>4. CASE InitFails
  <2>1. /\ cdPc = "initWait" /\ cdPc' = "init"
        /\ UNCHANGED <<s_currentState, s_sectorCounter, s_dmaCounter, s_gotInt5,
                       s_initializationComplete, buffer, dmaIrq, pending, answers,
                       reading, head, count, retries, cyclesToWait, result>>
    BY <1>4 DEF InitFails
  <2>2. CdTypes'
    BY <2>1, Zenon DEF CdInv, CdTypes, Starts, Between, Reads, Waits, CdEvent
  <2>3. CdGood'
    BY <2>1 DEF CdInv, CdGood, Starting, Starts, Between
  <2> QED BY <2>2, <2>3 DEF CdInv
<1>5. CASE Delay
  <2>1. /\ cdPc = "delay" /\ cdPc' = "idle" /\ Quiet
        /\ UNCHANGED <<s_currentState, s_sectorCounter, s_dmaCounter, s_gotInt5,
                       s_initializationComplete, buffer, dmaIrq, pending, answers,
                       reading, head, count, retries, cyclesToWait, result>>
    BY <1>5 DEF Delay
  <2>2. CdTypes'
    BY <2>1, Zenon DEF CdInv, CdTypes, Starts, Between, Reads, Waits, CdEvent
  <2>3. Rests'
    BY <2>1 DEF CdInv, CdGood, Starting, Starts, Rests, Quiet, Closes
  <2>4. CdGood'
    BY <2>1, <2>3 DEF CdGood, Starts, Between
  <2> QED BY <2>2, <2>4 DEF CdInv
<1> QED BY <1>1, <1>2, <1>3, <1>4, <1>5 DEF InitStep

(* A call, or a turn of its loop. *)
LEMMA KeptByCalls ==
  ASSUME DriverAssumption, CdInv,
         \/ \E n \in ReadCounts : BlockReading(n)
         \/ SingleCall("status") \/ SingleCall("setmode")
         \/ Refused
  PROVE  CdInv'
<1> USE DEF At, CdGoto, machine, dma, drive
<1>0. /\ MaxTries \in Nat /\ MaxTries \in 0 .. MaxTries /\ MaxTries # 0
      /\ 0 \in 0 .. MaxRetries /\ 0 < MaxRetries /\ ReadCounts \subseteq Nat \ {0}
  BY SMT DEF DriverAssumption
<1>1. ASSUME NEW n \in ReadCounts, BlockReading(n) PROVE CdInv'
  <2>1. /\ cdPc = "idle" /\ cdPc' = "seek" /\ count' = n /\ buffer' = <<>>
        /\ retries' = 0 /\ cyclesToWait' = MaxTries
        /\ UNCHANGED <<s_currentState, s_sectorCounter, s_dmaCounter, s_gotInt5,
                       s_initializationComplete, dmaIrq, pending, answers,
                       reading, head, result>>
    BY <1>1 DEF BlockReading
  <2>2. buffer' \in Seq(Nat) /\ Len(buffer') =< count'
    BY <1>0, <2>1, SMT
  <2>3. CdTypes'
    BY <1>0, <2>1, <2>2, Zenon DEF CdInv, CdTypes, Starts, Between, Reads, Waits, CdEvent
  <2>4. CdGood'
    BY <2>1 DEF CdInv, CdGood, Starts, Between, Rests, Quiet
  <2> QED BY <2>3, <2>4 DEF CdInv
<1>2. ASSUME NEW l \in {"status", "setmode"}, SingleCall(l) PROVE CdInv'
  <2>1. /\ cdPc = "idle" /\ cdPc' = l /\ cyclesToWait' = MaxTries
        /\ UNCHANGED <<s_currentState, s_sectorCounter, s_dmaCounter, s_gotInt5,
                       s_initializationComplete, buffer, dmaIrq, pending, answers,
                       reading, head, count, retries, result>>
    BY <1>2 DEF SingleCall
  <2>2. CdTypes'
    <3>1. l \in Between /\ l \notin Reads /\ l # "readWait"
      BY DEF Between, Reads
    <3> QED BY <1>0, <2>1, <3>1, Zenon DEF CdInv, CdTypes, CdEvent
  <2>3. CdGood'
    BY <2>1 DEF CdInv, CdGood, Starts, Between, Rests, Quiet
  <2> QED BY <2>2, <2>3 DEF CdInv
<1>3. CASE Refused
  <2>1. /\ cdPc \in Between \ {"idle"} /\ Rests
        /\ cyclesToWait' = cyclesToWait - 1
        /\ UNCHANGED <<s_currentState, s_gotInt5, s_initializationComplete, dmaIrq,
                       answers, reading, head, count, retries>>
        /\ IF cyclesToWait' < 1 THEN cdPc' = "idle" /\ result' = -1
           ELSE cdPc' = cdPc /\ result' = result
        /\ \/ UNCHANGED <<s_sectorCounter, s_dmaCounter, buffer, pending>>
           \/ /\ s_sectorCounter' = count /\ s_dmaCounter' = count
              /\ buffer' = <<>> /\ pending' = {}
    BY <1>3 DEF Refused, Return, PrepareRead, UndeliverAllBut, Between,
       CdInv, CdGood
  <2>2. /\ cyclesToWait' \in 0 .. MaxTries
        /\ cdPc' \in Between \ {"idle"} => cyclesToWait' # 0
    <3>1. cyclesToWait \in 0 .. MaxTries /\ cyclesToWait # 0
      BY <2>1 DEF CdInv, CdTypes
    <3>2. cyclesToWait' \in 0 .. MaxTries
      BY <1>0, <2>1, <3>1, SMT
    <3>3. ~(cyclesToWait' < 1) => cyclesToWait' # 0
      BY SMT
    <3> QED BY <2>1, <3>2, <3>3
  <2>3. /\ s_sectorCounter' \in Nat /\ s_dmaCounter' \in Nat
        /\ buffer' \in Seq(Nat) /\ Len(buffer') =< count'
        /\ pending' \subseteq CdEvent
    <3>1. count \in Nat
      BY <1>0 DEF CdInv, CdTypes
    <3>2. <<>> \in Seq(Nat) /\ Len(<<>>) =< count
      BY <3>1, SMT
    <3> QED BY <2>1, <3>1, <3>2 DEF CdInv, CdTypes
  <2>4. result' \in ReadCounts \cup {-1, 0} /\ cdPc' \in Between
        /\ (cdPc' = cdPc \/ cdPc' = "idle")
    BY <2>1 DEF CdInv, CdTypes, Between
  <2>5. CdTypes'
    <3>1. ~dmaIrq
      BY <2>1 DEF CdInv, CdTypes, Between
    <3> QED BY <2>1, <2>2, <2>3, <2>4, <3>1 DEF CdInv, CdTypes, Reads
  <2>6. CdGood'
    BY <2>1, <2>4 DEF CdInv, CdGood, Starts, Between, Rests, Quiet
  <2> QED BY <2>5, <2>6 DEF CdInv
<1> QED BY <1>1, <1>2, <1>3

(* The commands of the calls. *)
LEMMA KeptByCommands ==
  ASSUME DriverAssumption, CdInv,
         \/ CdromSeekL \/ SeekState \/ CdromRead
         \/ CdromGetStatus \/ CdromSetMode
  PROVE  CdInv'
<1> USE DEF At, CdGoto, State, machine, dma, drive
<1>1. CASE CdromSeekL
  <2>1. /\ cdPc = "seek" /\ cdPc' = "seekState" /\ Rests
        /\ pending' = pending \cap {ACK} /\ Command("SETLOC", answers)
        /\ UNCHANGED <<s_currentState, s_sectorCounter, s_dmaCounter, s_gotInt5,
                       s_initializationComplete, buffer, dmaIrq,
                       count, retries, cyclesToWait, result>>
    BY <1>1 DEF CdromSeekL, UndeliverAllBut, CdInv, CdGood, Between
  <2>2. answers = <<>>
    BY <2>1 DEF Rests, Quiet
  <2>3. /\ answers' \in OneLeft /\ answers' \in Seq(1 .. 5)
        /\ reading' \in BOOLEAN /\ ~reading' /\ head' = 0
    BY <2>1, <2>2, CommandAnswers, LeftInSeq
  <2>4. head' \in Nat /\ 0 \in Nat
    BY <2>3, SMT
  <2>5. CdTypes'
    BY <2>1, <2>3, <2>4 DEF CdInv, CdTypes, Starts, Between, Reads, Waits
  <2>6. CdGood'
    BY <2>1, <2>3 DEF CdGood, Starts, Between, Rests, Silent, Asks
  <2> QED BY <2>5, <2>6 DEF CdInv
<1>2. CASE SeekState
  <2>1. /\ cdPc = "seekState" /\ cdPc' = "seekWait" /\ s_currentState' = SEEKL_SETLOC
        /\ UNCHANGED <<s_sectorCounter, s_dmaCounter, s_gotInt5,
                       s_initializationComplete, buffer, dmaIrq, pending, answers,
                       reading, head, count, retries, cyclesToWait, result>>
    BY <1>2 DEF SeekState
  <2>2. Silent /\ Asks(CD_IDLE, OneLeft) /\ head = 0
    BY <2>1 DEF CdInv, CdGood
  <2>3. s_gotInt5' = (s_currentState' = GOT_ERROR_AND_REINIT)
    <3>1. s_gotInt5 = (s_currentState = GOT_ERROR_AND_REINIT)
      BY Zenon DEF CdInv, CdTypes
    <3>2. /\ s_currentState # GOT_ERROR_AND_REINIT
          /\ s_currentState' # GOT_ERROR_AND_REINIT
      BY <2>1, <2>2 DEF Asks
    <3> QED BY <2>1, <3>1, <3>2, Zenon
  <2>4. CdTypes'
    BY <2>1, <2>3, Zenon DEF CdInv, CdTypes, Starts, Between, Reads, Waits, CdEvent
  <2>5. CdGood'
    BY <2>1, <2>2 DEF CdGood, Starts, Between, Seeking, Silent, Asks
  <2> QED BY <2>4, <2>5 DEF CdInv
<1>3. CASE CdromRead
  <2>1. /\ cdPc = "read" /\ cdPc' = "readWait" /\ Rests /\ head = 0 /\ ~dmaIrq
        /\ s_currentState' = READ_SETMODE
        /\ pending' = {} /\ buffer' = <<>>
        /\ s_sectorCounter' = count /\ s_dmaCounter' = count
        /\ Command("SETMODE", answers)
        /\ UNCHANGED <<s_gotInt5, s_initializationComplete, dmaIrq,
                       count, retries, cyclesToWait, result>>
    BY <1>3 DEF CdromRead, PrepareRead, UndeliverAllBut, CdInv, CdGood, Between
  <2>2. answers = <<>>
    BY <2>1 DEF Rests, Quiet
  <2>3. /\ answers' \in OneLeft /\ answers' \in Seq(1 .. 5)
        /\ reading' \in BOOLEAN /\ ~reading' /\ head' = 0
    BY <2>1, <2>2, CommandAnswers, LeftInSeq
  <2>4. s_gotInt5' = (s_currentState' = GOT_ERROR_AND_REINIT)
    <3>1. s_gotInt5 = (s_currentState = GOT_ERROR_AND_REINIT)
      BY Zenon DEF CdInv, CdTypes
    <3>2. /\ s_currentState # GOT_ERROR_AND_REINIT
          /\ s_currentState' # GOT_ERROR_AND_REINIT
      BY <2>1 DEF Rests
    <3> QED BY <2>1, <3>1, <3>2, Zenon
  <2>5. count \in Nat /\ Len(<<>>) =< count /\ <<>> \in Seq(Nat) /\ 0 \in Nat
    <3>1. count \in Nat
      BY DEF CdInv, CdTypes, DriverAssumption
    <3> QED BY <3>1, SMT
  <2>6. CdTypes'
    BY <2>1, <2>3, <2>4, <2>5, Zenon DEF CdInv, CdTypes, Starts, Between, Reads, Waits, CdEvent
  <2>7. CdGood'
    BY <2>1, <2>3 DEF CdGood, Starts, Between, Reading, Opens, Silent, Asks
  <2> QED BY <2>6, <2>7 DEF CdInv
<1>4. ASSUME NEW l \in {"status", "setmode"}, NEW s \in {GETSTATUS, SETMODE},
             NEW c \in {"NOP", "SETMODE"}, Single(l, s, c)
      PROVE  CdInv'
  <2>1. /\ cdPc = l /\ cdPc' = "wait" /\ Rests /\ s_currentState' = s
        /\ pending' = {} /\ Command(c, answers)
        /\ UNCHANGED <<s_sectorCounter, s_dmaCounter, s_gotInt5,
                       s_initializationComplete, buffer, dmaIrq,
                       count, retries, cyclesToWait, result>>
    BY <1>4 DEF Single, UndeliverAllBut, CdInv, CdGood, Between
  <2>2. answers = <<>>
    BY <2>1 DEF Rests, Quiet
  <2>3. /\ answers' \in OneLeft /\ answers' \in Seq(1 .. 5)
        /\ reading' \in BOOLEAN /\ ~reading' /\ head' = head
    BY <2>1, <2>2, CommandAnswers, LeftInSeq
  <2>4. s_gotInt5' = (s_currentState' = GOT_ERROR_AND_REINIT)
    <3>1. s_gotInt5 = (s_currentState = GOT_ERROR_AND_REINIT)
      BY Zenon DEF CdInv, CdTypes
    <3>2. /\ s_currentState # GOT_ERROR_AND_REINIT
          /\ s_currentState' # GOT_ERROR_AND_REINIT
      BY <2>1 DEF Rests
    <3> QED BY <2>1, <3>1, <3>2, Zenon
  <2>5. CdTypes'
    BY <2>1, <2>3, <2>4, Zenon DEF CdInv, CdTypes, Starts, Between, Reads, Waits, CdEvent
  <2>6. CdGood'
    BY <2>1, <2>3 DEF CdGood, Starts, Between, Waiting, Silent, Asks
  <2> QED BY <2>5, <2>6 DEF CdInv
<1> QED BY <1>1, <1>2, <1>3, <1>4 DEF CdromGetStatus, CdromSetMode

(* What the calls do with the events. *)
LEMMA KeptByEvents ==
  ASSUME DriverAssumption, CdInv,
         \/ SeekDone \/ SeekFails \/ ReadDone \/ ReadFails
         \/ ReadEnds \/ SingleDone
  PROVE  CdInv'
<1> USE DEF At, CdGoto, Return, machine, dma, drive
<1>0. /\ MaxTries \in Nat /\ MaxTries \in 0 .. MaxTries /\ MaxTries # 0
      /\ MaxRetries \in Nat /\ ReadCounts \subseteq Nat \ {0}
  BY SMT DEF DriverAssumption
<1>1. ASSUME NEW e \in {DNE, END, ERR}, e \in pending, ~dmaIrq, cdPc \in Waits,
             pending' = pending \ {e},
             UNCHANGED <<s_currentState, s_sectorCounter, s_dmaCounter, s_gotInt5,
                         s_initializationComplete, buffer, dmaIrq, answers, reading,
                         head, count>>,
             cdPc' \in {"idle", "seek", "read"},
             retries' \in 0 .. MaxRetries, cdPc' # "idle" => retries' < MaxRetries,
             cyclesToWait' \in 0 .. MaxTries, cdPc' # "idle" => cyclesToWait' # 0,
             result' \in ReadCounts \cup {-1, 0},
             cdPc' = "read" => head = 0
      PROVE  CdInv'
  <2>1. Rests
    BY <1>1 DEF CdInv, CdGood, Seeking, Reading, Waiting, Silent, Waits
  <2>2. CdTypes'
    BY <1>1, Zenon DEF CdInv, CdTypes, Starts, Between, Reads, Waits, CdEvent
  <2>3. CdGood'
    BY <1>1, <2>1 DEF CdGood, Starts, Between, Rests, Quiet
  <2> QED BY <2>2, <2>3 DEF CdInv
<1>2. /\ retries \in 0 .. MaxRetries /\ cyclesToWait \in 0 .. MaxTries
      /\ count \in ReadCounts /\ (cdPc \in Reads => retries < MaxRetries)
      /\ result \in ReadCounts \cup {-1, 0}
  BY DEF CdInv, CdTypes
<1>3. CASE SeekDone
  <2>1. head = 0 /\ cdPc \in Waits /\ cdPc \in Reads
    BY <1>3 DEF SeekDone, CdInv, CdGood, Seeking, Waits, Reads
  <2> QED BY <1>0, <1>1, <1>2, <1>3, <2>1 DEF SeekDone
<1>4. CASE SeekFails
  <2>1. cdPc \in Waits
    BY <1>4 DEF SeekFails, Waits
  <2> QED BY <1>1, <1>2, <1>4, <2>1 DEF SeekFails
<1>5. CASE ReadDone
  <2>1. cdPc \in Waits
    BY <1>5 DEF ReadDone, Waits
  <2> QED BY <1>1, <1>2, <1>5, <2>1 DEF ReadDone
<1>6. CASE ReadFails
  <2>1. cdPc \in Waits /\ cdPc \in Reads
    BY <1>6 DEF ReadFails, Waits, Reads
  <2>2. retries' \in 0 .. MaxRetries
    <3>1. retries' = retries + 1 /\ retries < MaxRetries
      BY <1>2, <1>6, <2>1 DEF ReadFails
    <3> QED BY <1>0, <1>2, <3>1, SMT
  <2> QED BY <1>0, <1>1, <1>2, <1>6, <2>1, <2>2 DEF ReadFails
<1>7. CASE ReadEnds
  <2>1. cdPc \in Waits
    BY <1>7 DEF ReadEnds, Waits
  <2> QED BY <1>1, <1>2, <1>7, <2>1 DEF ReadEnds
<1>8. CASE SingleDone
  <2>1. cdPc \in Waits
    BY <1>8 DEF SingleDone, Waits
  <2> QED BY <1>1, <1>2, <1>8, <2>1 DEF SingleDone
<1> QED BY <1>3, <1>4, <1>5, <1>6, <1>7, <1>8

LEMMA CdStarts ==
  ASSUME DriverAssumption PROVE CdInit => CdInv
<1> SUFFICES ASSUME CdInit PROVE CdInv
  OBVIOUS
<1>1. /\ 0 \in Nat /\ 0 \in 0 .. 2 /\ <<>> \in Seq(Nat) /\ <<>> \in Seq(1 .. 5)
      /\ 0 \in 0 .. MaxRetries /\ 0 \in 0 .. MaxTries
      /\ \A n \in ReadCounts : Len(<<>>) =< n
  BY SMT DEF DriverAssumption
<1>2. CdTypes
  <2>1. s_gotInt5 = (s_currentState = GOT_ERROR_AND_REINIT)
    BY DEF CdInit
  <2> QED BY <1>1, <2>1, Zenon DEF CdInit, CdTypes, Starts, Between, Reads, Waits, CdEvent
<1>3. CdGood
  BY DEF CdInit, CdGood, Starting, Starts, Between
<1> QED BY <1>2, <1>3 DEF CdInv

LEMMA CdStep ==
  ASSUME DriverAssumption, SeekIsAtomic
  PROVE  CdInv /\ [CdNext]_(cdVars) => CdInv'
<1> SUFFICES ASSUME CdInv, [CdNext]_(cdVars) PROVE CdInv'
  OBVIOUS
<1>1. ReadCounts \subseteq Nat \ {0}
  BY DEF DriverAssumption
<1>2. CASE CdInterrupt
  BY <1>1, <1>2, KeptByDataReady, KeptByComplete, KeptByAcknowledge, KeptByEnd,
     KeptByDiscError, KeptByDmaVerifier DEF CdInterrupt
<1>3. CASE InitStep
  BY <1>3, KeptByInit
<1>4. CASE \/ \E n \in ReadCounts : BlockReading(n)
           \/ SingleCall("status") \/ SingleCall("setmode")
  BY <1>4, KeptByCalls
<1>5. CASE CallStep
  BY <1>5, KeptByCalls, KeptByCommands, KeptByEvents DEF CallStep
<1>6. CASE UNCHANGED cdVars
  <2>1. UNCHANGED <<s_currentState, s_sectorCounter, s_dmaCounter, s_gotInt5,
                    s_initializationComplete, buffer, dmaIrq, pending, answers,
                    reading, head, cdPc, count, retries, cyclesToWait, result>>
    BY <1>6 DEF cdVars, machine, dma, drive, program
  <2>2. CdTypes'
    BY <2>1, Zenon DEF CdInv, CdTypes
  <2>3. CdGood'
    BY <2>1 DEF CdInv, CdGood, Starting, Closes, Seeking, Reading, Waiting, Rests, Silent, Asks,
       Resets, Opens, Fills, Pauses, Prefix, Quiet
  <2> QED BY <2>2, <2>3 DEF CdInv
<1> QED BY <1>2, <1>3, <1>4, <1>5, <1>6 DEF CdNext


(* What the invariant says of the driver's answers. *)
LEMMA CdSafe ==
  ASSUME DriverAssumption, CdInv
  PROVE  AnswersAreOwn
<1>1. CdTypeOK
  <2>1. s_currentState \in CDRomState
    <3>1. CASE cdPc \in Starts
      BY <3>1 DEF CdInv, CdGood, Starting, CDRomState
    <3>2. CASE cdPc \in Between
      BY <3>2 DEF CdInv, CdGood, Rests, CDRomState
    <3>3. CASE cdPc = "seekState"
      BY <3>3 DEF CdInv, CdGood, Asks, CDRomState
    <3>4. CASE cdPc = "seekWait"
      BY <3>4 DEF CdInv, CdGood, Seeking, Rests, Resets, Asks, CDRomState
    <3>5. CASE cdPc = "readWait"
      BY <3>5 DEF CdInv, CdGood, Reading, Opens, Fills, Pauses, Rests, Resets, Asks,
                  CDRomState
    <3>6. CASE cdPc = "wait"
      BY <3>6 DEF CdInv, CdGood, Waiting, Rests, Resets, Asks, CDRomState
    <3> QED BY <3>1, <3>2, <3>3, <3>4, <3>5, <3>6 DEF CdInv, CdTypes, Waits
  <2>2. s_gotInt5 \in BOOLEAN
    BY Zenon DEF CdInv, CdTypes
  <2>3. cdPc \in {"init", "initCommand", "initWait", "delay", "idle", "seek",
                "seekState", "read", "status", "setmode"} \cup Waits
    BY DEF CdInv, CdTypes, Starts, Between
  <2> QED BY <2>1, <2>2, <2>3, Zenon DEF CdInv, CdTypes, CdTypeOK
<1>2. DmaStaysInBuffer
  BY DEF CdInv, CdTypes, DmaStaysInBuffer
<1>3. EventsMeanIdle
  BY DEF CdInv, CdGood, Seeking, Reading, Waiting, Silent, Rests, Waits,
         EventsMeanIdle
<1>4. AckMeansAllIn
  BY DEF CdInv, CdGood, Reading, AckMeansAllIn
<1> QED BY <1>1, <1>2, <1>3, <1>4 DEF AnswersAreOwn

(* The answer to an earlier command is never taken for that of a later one, *)
(* the ACK of a read means that all its sectors are in, and the DMA never   *)
(* writes past the caller's buffer, whatever the drive answers and however  *)
(* often a read is tried again (statemachine.c:161-311, 563-696).           *)
THEOREM CdAnswers ==
  ASSUME DriverAssumption, SeekIsAtomic
  PROVE  CdSpec => []AnswersAreOwn
<1>1. CdInit => CdInv
  BY CdStarts
<1>2. CdInv /\ [CdNext]_(cdVars) => CdInv'
  BY CdStep
<1>3. CdInv => AnswersAreOwn
  BY CdSafe
<1> QED BY <1>1, <1>2, <1>3, PTL DEF CdSpec

(* cdromBlockReading returns the count only with that many sectors in the   *)
(* buffer, from the one asked for, in order (helpers.c:66-86).              *)
THEOREM CdReadsAreWhole ==
  ASSUME DriverAssumption, SeekIsAtomic
  PROVE  CdSpec => ReadIsWhole
<1>1. CdInit => CdInv
  BY CdStarts
<1>2. CdInv /\ [CdNext]_(cdVars) => CdInv'
  BY CdStep
<1>3. ASSUME CdInv, ReadDone
      PROVE  buffer = [k \in 1 .. count |-> k - 1]
  <2>1. cdPc = "readWait" /\ DNE \in pending
    BY <1>3 DEF ReadDone, At
  <2>2. Prefix /\ Len(buffer) = count
    BY <1>3, <2>1 DEF CdInv, CdGood, Reading, Silent
  <2> QED BY <2>2 DEF Prefix
<1>4. CdInv /\ [CdNext]_(cdVars) =>
        [ReadDone => buffer = [k \in 1 .. count |-> k - 1]]_(cdVars)
  BY <1>3
<1> QED BY <1>1, <1>2, <1>4, PTL DEF CdSpec, ReadIsWhole

=============================================================================
