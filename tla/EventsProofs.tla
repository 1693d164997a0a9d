---------------------------- MODULE EventsProofs ----------------------------
(***************************************************************************)
(* The invariants of Events hold for a table of any size, any number of    *)
(* causes and callbacks, and an interrupt at any point of any call; those  *)
(* of Exceptions wherever the program's own handler goes; those of Patches *)
(* and ExceptionSlots for any set of games' codes, in any order.           *)
(***************************************************************************)
EXTENDS Events, Exceptions, ExceptionSlots, FiniteSetTheorems, WellFoundedInduction, TLAPS

(* A slot is in use from openEvent's write of its flags to closeEvent. *)
SlotsInv ==
  /\ \A s \in Slots :
       (pc \in {"openFlags", "openHandler"} => s # cur) =>
         (flags[s] = FREE <=> asked[s] = {})
  /\ pc \in {"openFlags", "openHandler"} => asked[cur] = {}
  /\ pc = "openFlags" => flags[cur] = FREE
  /\ pc = "openHandler" => flags[cur] = DISABLED
  /\ pc = "openHandler" => req = [what |-> info[cur].what,
                                  mode |-> info[cur].mode,
                                  handler |-> req.handler]
  /\ pc = "openFlags" => req = [what |-> info[cur].what,
                                mode |-> info[cur].mode,
                                handler |-> req.handler]

(* What is in the table is what the program asked for, and its flags say    *)
(* whether the program has enabled the event.                               *)
AskedInv == \A s \in Slots : \A r \in asked[s] : info[s] = r
OnInv == on = {s \in Slots : flags[s] \in {ENABLED_FLAG, PENDING}}

(* Where a call stands, the event it is about is held by the program. *)
CallInv ==
  /\ pc \in {"enable", "disable", "wait", "answer"} => asked[cur] # {}
  /\ pc = "answer" => flags[cur] = PENDING

IInv == TypeOK /\ SlotsInv /\ AskedInv /\ OnInv /\ CallInv /\ NoDeliveryLost

(* openEvent: its slot is free until its flags are written, and disabled,   *)
(* so deaf to interrupts, until its handler is (events.c:69-80).            *)
LEMMA OpenKeeps ==
  ASSUME IInv, (\E r \in Request : OpenEvent(r)) \/ OpenFlags \/ OpenHandler
  PROVE  IInv'
<1> USE DEF Flag, FREE, DISABLED, ENABLED_FLAG, PENDING, Mode, Request
<1>1. ASSUME NEW r \in Request, OpenEvent(r) PROVE IInv'
  BY <1>1 DEF IInv, TypeOK, SlotsInv, AskedInv, OnInv, CallInv, NoDeliveryLost,
              OpenEvent, IsFreeSlot, Goto, history
<1>2. CASE OpenFlags
  BY <1>2 DEF IInv, TypeOK, SlotsInv, AskedInv, OnInv, CallInv, NoDeliveryLost,
              OpenFlags, Set, Goto, history
<1>3. CASE OpenHandler
  BY <1>3 DEF IInv, TypeOK, SlotsInv, AskedInv, OnInv, CallInv, NoDeliveryLost,
              OpenHandler, Goto
<1> QED BY <1>1, <1>2, <1>3

(* enableEvent, disableEvent and closeEvent (events.c:99-115): no callback  *)
(* opens or closes, so a slot in use when they looked is in use when they   *)
(* write.                                                                   *)
LEMMA SwitchKeeps ==
  ASSUME IInv,
         \/ \E s \in Slots : StartEnable(s) \/ StartDisable(s) \/ CloseEvent(s)
         \/ Enable \/ Disable
  PROVE  IInv'
<1> USE DEF Flag, FREE, DISABLED, ENABLED_FLAG, PENDING, Mode, Request,
            IInv, TypeOK, SlotsInv, AskedInv, OnInv, CallInv, NoDeliveryLost
<1>1. ASSUME NEW s \in Slots, StartEnable(s) \/ StartDisable(s) PROVE IInv'
  BY <1>1 DEF StartEnable, StartDisable, Goto, table, history
<1>2. ASSUME NEW s \in Slots, CloseEvent(s) PROVE IInv'
  BY <1>2 DEF CloseEvent, Set, call
<1>3. CASE Enable
  BY <1>3 DEF Enable, Set, Goto
<1>4. CASE Disable
  BY <1>4 DEF Disable, Set, Goto
<1> QED BY <1>1, <1>2, <1>3, <1>4

(* testEvent, waitEvent and undeliverEvent (events.c:117-152): a flag that  *)
(* was seen pending is still pending when it is written, because deliveries *)
(* leave it so.                                                             *)
LEMMA AnswerKeeps ==
  ASSUME IInv,
         \/ \E s \in Slots : TestEvent(s) \/ WaitEvent(s)
         \/ \E r \in Request : StartUndeliver(r)
         \/ WaitLoop \/ Answer \/ Undeliver
  PROVE  IInv'
<1> USE DEF Flag, FREE, DISABLED, ENABLED_FLAG, PENDING, Mode, Request,
            IInv, TypeOK, SlotsInv, AskedInv, OnInv, CallInv, NoDeliveryLost
<1>1. ASSUME NEW s \in Slots, TestEvent(s) \/ WaitEvent(s) PROVE IInv'
  BY <1>1 DEF TestEvent, WaitEvent, Goto, table, history
<1>2. ASSUME NEW r \in Request, StartUndeliver(r) PROVE IInv'
  BY <1>2 DEF StartUndeliver, Goto, table, history
<1>3. CASE WaitLoop
  BY <1>3 DEF WaitLoop, Goto, table, history
<1>4. CASE Answer
  BY <1>4 DEF Answer, Set, Goto
<1>5. CASE Undeliver
  BY <1>5, SMTT(30) DEF Undeliver, IsUndelivered, Set, Goto
<1> QED BY <1>1, <1>2, <1>3, <1>4, <1>5

(* deliverEvent: an event the program expects to hear of is pending after   *)
(* it, because the table holds what the program asked for.                  *)
LEMMA DeliverKeeps ==
  ASSUME IInv, NEW w \in Whats, DeliverEvent(w)
  PROVE  IInv'
<1> USE DEF IInv
<1>1. PICK off \in SUBSET Called(w) :
        /\ flags' = [s \in Slots |-> IF s \in Marked(w) THEN PENDING
                                    ELSE IF s \in off THEN DISABLED
                                    ELSE flags[s]]
        /\ on' = on \ off
  BY DEF DeliverEvent
<1>2. unseen' = unseen \cup Expecting(w) /\ UNCHANGED <<info, call, asked>>
  BY DEF DeliverEvent
<1> USE DEF Flag, FREE, DISABLED, ENABLED_FLAG, PENDING, CALLBACK, NO_CALLBACK,
            Called, Marked, Matches
<1>3. \A s \in Expecting(w) : flags'[s] = PENDING
  BY <1>1 DEF Expecting, OnInv, AskedInv, TypeOK
<1>4. OnInv'
  BY <1>1 DEF OnInv, TypeOK
<1>5. NoDeliveryLost'
  BY <1>1, <1>2, <1>3 DEF NoDeliveryLost, TypeOK
<1>6. unseen' \subseteq Slots
  BY <1>2 DEF Expecting, OnInv, TypeOK
<1>7. TypeOK'
  BY <1>1, <1>2, <1>4, <1>5, <1>6 DEF TypeOK, call, OnInv, NoDeliveryLost
<1>8. SlotsInv' /\ AskedInv' /\ CallInv'
  BY <1>1, <1>2 DEF TypeOK, SlotsInv, AskedInv, CallInv, call
<1> QED BY <1>4, <1>5, <1>7, <1>8

LEMMA InitInv == Init => IInv
  BY DEF Init, IInv, TypeOK, SlotsInv, AskedInv, OnInv, CallInv, NoDeliveryLost,
         Flag, FREE, DISABLED, ENABLED_FLAG, PENDING, Request

LEMMA StepInv == IInv /\ [Next]_vars => IInv'
<1> SUFFICES ASSUME IInv, [Next]_vars PROVE IInv'
  OBVIOUS
<1>1. CASE Program
  BY <1>1, OpenKeeps, SwitchKeeps, AnswerKeeps DEF Program
<1>2. ASSUME NEW w \in Whats, DeliverEvent(w) PROVE IInv'
  BY <1>2, DeliverKeeps
<1>3. CASE UNCHANGED vars
  BY <1>3 DEF vars, table, call, history, IInv, TypeOK, SlotsInv, AskedInv,
              OnInv, CallInv, NoDeliveryLost
<1> QED BY <1>1, <1>2, <1>3 DEF Next

LEMMA Invariance == Spec => []IInv
<1> QED BY InitInv, StepInv, PTL DEF Spec

(* Types, and that the program only ever enables events it holds. *)
THEOREM TypeCorrect == Spec => []TypeOK
<1>1. IInv => TypeOK BY DEF IInv
<1> QED BY <1>1, Invariance, PTL

(* No call of events.c revives a closed event or loses a slot. *)
THEOREM SlotsAreAccounted == Spec => []SlotsAccounted
<1>1. IInv => SlotsAccounted BY DEF IInv, SlotsInv, SlotsAccounted
<1> QED BY <1>1, Invariance, PTL

(* No delivery to an enabled event is lost, wherever the interrupt came. *)
THEOREM DeliveriesAreSeen == Spec => []NoDeliveryLost
<1>1. IInv => NoDeliveryLost BY DEF IInv
<1> QED BY <1>1, Invariance, PTL

(* Only callbacks the program asked for are ever called. *)
THEOREM CallbacksAreAsked == Spec => []CallsAreAsked
<1>1. IInv => CallsAreAsked
  <2> SUFFICES ASSUME IInv, NEW w \in Whats, NEW s \in Called(w)
               PROVE  /\ s \in on
                      /\ [what |-> w, mode |-> CALLBACK,
                          handler |-> info[s].handler] \in asked[s]
    BY DEF CallsAreAsked
  <2>1. /\ s \in Slots /\ flags[s] = ENABLED_FLAG
        /\ info[s].what = w /\ info[s].mode = CALLBACK
    BY DEF Called, Matches
  <2>2. s \in on /\ asked[s] # {}
    BY <2>1 DEF IInv, OnInv, TypeOK
  <2>3. PICK r \in asked[s] : info[s] = r
    BY <2>1, <2>2 DEF IInv, AskedInv
  <2>4. r = [what |-> r.what, mode |-> r.mode, handler |-> r.handler]
    BY <2>1, <2>3 DEF IInv, TypeOK, Request
  <2> QED BY <2>1, <2>2, <2>3, <2>4
<1> QED BY <1>1, Invariance, PTL

(* Every slot is whose it was opened for, and every delivery is seen or     *)
(* called, for every table and every set of causes (kernel/events.c).       *)
THEOREM Delivered == Spec => []EventsDelivered
BY TypeCorrect, SlotsAreAccounted, DeliveriesAreSeen, CallbacksAreAsked, PTL
   DEF EventsDelivered

-----------------------------------------------------------------------------
(* Exceptions: the chains.                                                 *)

(* Of any numbers one is the least.                                        *)
LEMMA LeastExists ==
  ASSUME NEW T, T \subseteq Nat, T # {}
  PROVE  \E m \in T : \A n \in T : m =< n
<1> DEFINE R == OpToRel(<, Nat)
<1>1. \A m, n \in Nat : <<m, n>> \in R <=> m < n
  BY DEF OpToRel
<1> HIDE DEF R
<1>2. PICK m \in T : \A n \in T : ~(<<n, m>> \in R)
  BY NatLessThanWellFounded, WFMin DEF R
<1>3. \A n \in T : ~(n < m)
  BY <1>1, <1>2
<1>4. \A n \in T : m =< n
  BY <1>3, SMT
<1> QED BY <1>4

(* No chain has more than four handlers: its walk ends within the number   *)
(* of them all.                                                            *)
Places == Handler \cup {NoHandler}
Steps == Cardinality(Handler)

LEMMA StepsEnough == Steps \in Nat /\ Steps >= 4
<1> DEFINE S4 == {"cdIO", "cdDMA", "syscall", "irq"}
           S1 == {"cdIO"}
           S2 == S1 \cup {"cdDMA"}
           S3 == S2 \cup {"syscall"}
<1>1. IsFiniteSet(S1) /\ Cardinality(S1) = 1
  BY FS_Singleton
<1>2. IsFiniteSet(S2) /\ Cardinality(S2) = 2
  BY <1>1, FS_AddElement
<1>3. IsFiniteSet(S3) /\ Cardinality(S3) = 3
  BY <1>2, FS_AddElement
<1>4. IsFiniteSet(S4) /\ Cardinality(S4) = 4
  <2>1. S4 = S3 \cup {"irq"} /\ "irq" \notin S3
    OBVIOUS
  <2> QED BY <1>3, <2>1, FS_AddElement
<1>5. IsFiniteSet(Handler)
  <2> DEFINE T5 == S4 \cup {"mc"}
             T6 == T5 \cup {"sio0"}
             T7 == T6 \cup {"user"}
             T8 == T7 \cup {"t0"}
             T9 == T8 \cup {"t3"}
  <2>1. IsFiniteSet(T5) BY <1>4, FS_AddElement
  <2>2. IsFiniteSet(T6) BY <2>1, FS_AddElement
  <2>3. IsFiniteSet(T7) BY <2>2, FS_AddElement
  <2>4. IsFiniteSet(T8) BY <2>3, FS_AddElement
  <2>5. IsFiniteSet(T9) BY <2>4, FS_AddElement
  <2>6. Handler = T9
    BY DEF Handler, Timers
  <2> QED BY <2>5, <2>6
<1>6. S4 \subseteq Handler
  BY DEF Handler
<1>7. Steps \in Nat /\ 4 <= Steps
  BY <1>4, <1>5, <1>6, FS_Subset, FS_CardinalityType DEF Steps
<1> QED BY <1>7

(* The links of a chain of up to four handlers, padded with none.          *)
Link(fi, nx, p, a, b, c, d) ==
  /\ fi[p] = a
  /\ b = IF a = NoHandler THEN NoHandler ELSE nx[a]
  /\ c = IF b = NoHandler THEN NoHandler ELSE nx[b]
  /\ d = IF c = NoHandler THEN NoHandler ELSE nx[c]
  /\ d # NoHandler => nx[d] = NoHandler

Apart4(a, b, c, d) ==
  /\ {a, b, c, d} \subseteq Places
  /\ a # NoHandler => a \notin {b, c, d}
  /\ b # NoHandler => b \notin {c, d}
  /\ c # NoHandler => c # d

Typed(fi, nx) == fi \in [Priority -> Places] /\ nx \in [Handler -> Places]

(* The places the walk along a chain comes to.                             *)
LEMMA ChainIs ==
  ASSUME NEW p \in Priority, NEW a, NEW b, NEW c, NEW d, Typed(first, next),
         Link(first, next, p, a, b, c, d), Apart4(a, b, c, d)
  PROVE  Chain(p) = {a, b, c, d} \ {NoHandler}
<1> DEFINE K == Cardinality(Handler)
           E(f) == [n \in 0 .. K |-> IF n = 0 THEN first[p]
                                     ELSE IF f[n - 1] = NoHandler THEN NoHandler ELSE next[f[n - 1]]]
           w == [n \in 0 .. K |-> IF n = 0 THEN a ELSE IF n = 1 THEN b ELSE IF n = 2 THEN c
                                  ELSE IF n = 3 THEN d ELSE NoHandler]
           f == Along(p)
<1>1. K \in Nat /\ K >= 4
  BY StepsEnough DEF Steps
<1> HIDE DEF K
<1>2. w = E(w)
  <2>1. ASSUME NEW n \in 0 .. K PROVE w[n] = E(w)[n]
    <3>1. n \in {0, 1, 2, 3, 4} \/ n - 1 >= 4
      BY <1>1, SMT
    <3>2. n # 0 => n - 1 \in 0 .. K
      BY <1>1, SMT
    <3>3. (n = 1 => n - 1 = 0) /\ (n = 2 => n - 1 = 1) /\ (n = 3 => n - 1 = 2)
          /\ (n = 4 => n - 1 = 3) /\ (n - 1 >= 4 => n - 1 \notin {0, 1, 2, 3} /\ n \notin {0, 1, 2, 3, 4})
      BY <1>1, SMT
    <3>4. n # 0 => w[n - 1] = IF n = 1 THEN a ELSE IF n = 2 THEN b ELSE IF n = 3 THEN c
                              ELSE IF n = 4 THEN d ELSE NoHandler
      BY <3>1, <3>2, <3>3
    <3> QED BY <3>1, <3>4 DEF Link
  <2> HIDE DEF E
  <2>2. DOMAIN w = 0 .. K
    OBVIOUS
  <2>3. E(w) = [n \in 0 .. K |-> E(w)[n]]
    BY DEF E
  <2>4. w = [n \in 0 .. K |-> w[n]]
    OBVIOUS
  <2> HIDE DEF w
  <2> QED BY <2>1, <2>3, <2>4
<1>3. f = CHOOSE x : x = E(x)
  BY DEF Along, K
<1> HIDE DEF w
<1>4. f = E(f)
  <2> HIDE DEF E, f
  <2> QED BY <1>2, <1>3
<1> HIDE DEF f
<1>5. f[0] = a
  BY <1>1, <1>4 DEF Link
<1>6. ASSUME NEW n \in 1 .. K
      PROVE  f[n] = IF f[n - 1] = NoHandler THEN NoHandler ELSE next[f[n - 1]]
  <2>1. n \in 0 .. K /\ n # 0
    BY <1>1, SMT
  <2> QED BY <1>4, <2>1
<1>7. f[1] = b /\ f[2] = c /\ f[3] = d /\ f[4] = NoHandler
  <2>1. 1 \in 1 .. K /\ 2 \in 1 .. K /\ 3 \in 1 .. K /\ 4 \in 1 .. K
    BY <1>1, SMT
  <2>2. f[1] = b
    BY <1>5, <1>6, <2>1 DEF Link
  <2>3. f[2] = c
    BY <1>6, <2>1, <2>2 DEF Link
  <2>4. f[3] = d
    BY <1>6, <2>1, <2>3 DEF Link
  <2>5. f[4] = NoHandler
    BY <1>6, <2>1, <2>4 DEF Link
  <2> QED BY <2>2, <2>3, <2>4, <2>5
<1>8. \A n \in 4 .. K : f[n] = NoHandler
  <2> DEFINE T == {n \in 4 .. K : f[n] # NoHandler}
  <2>1. SUFFICES ASSUME T # {} PROVE FALSE
    OBVIOUS
  <2>2. T \subseteq Nat
    BY SMT
  <2>3. PICK m \in T : \A n \in T : m =< n
    BY <2>1, <2>2, LeastExists
  <2>4. m # 4
    BY <1>7, <2>3
  <2>5. m - 1 \in 4 .. K /\ m \in 1 .. K /\ ~(m =< m - 1)
    BY <1>1, <2>3, <2>4, SMT
  <2>6. f[m - 1] = NoHandler
    BY <2>3, <2>5
  <2> QED BY <1>6, <2>3, <2>5, <2>6
<1>9. \A n \in 0 .. K : n \in {0, 1, 2, 3} \/ n \in 4 .. K
  BY <1>1, SMT
<1>10. 0 \in 0 .. K /\ 1 \in 0 .. K /\ 2 \in 0 .. K /\ 3 \in 0 .. K
  BY <1>1, SMT
<1>11. {f[n] : n \in 0 .. K} \ {NoHandler} = {a, b, c, d} \ {NoHandler}
  BY <1>5, <1>7, <1>8, <1>9, <1>10
<1> QED BY <1>11 DEF Chain, f, K

(* What sysDeqIntRP finds h behind.                                        *)
Behind(fi, nx, p, h) ==
  LET behind[n \in 0 .. Cardinality(Handler)] ==
        IF n = 0 THEN fi[p]
        ELSE IF behind[n - 1] = NoHandler \/ nx[behind[n - 1]] = h THEN behind[n - 1]
        ELSE nx[behind[n - 1]]
  IN  behind[Cardinality(Handler)]

LEMMA BehindIs ==
  ASSUME NEW fi, NEW nx, NEW p, NEW h, NEW a, NEW b, NEW c, NEW d,
         Link(fi, nx, p, a, b, c, d), Apart4(a, b, c, d), h # NoHandler, h # a
  PROVE  Behind(fi, nx, p, h) =
           IF h = b THEN a ELSE IF h = c THEN b ELSE IF h = d THEN c ELSE NoHandler
<1> DEFINE K == Cardinality(Handler)
           st(x) == IF x = NoHandler \/ nx[x] = h THEN x ELSE nx[x]
           E(f) == [n \in 0 .. K |-> IF n = 0 THEN fi[p]
                      ELSE IF f[n - 1] = NoHandler \/ nx[f[n - 1]] = h THEN f[n - 1]
                      ELSE nx[f[n - 1]]]
           w1 == st(a)
           w2 == st(w1)
           w3 == st(w2)
           w4 == IF h = b THEN a ELSE IF h = c THEN b ELSE IF h = d THEN c ELSE NoHandler
           w == [n \in 0 .. K |-> IF n = 0 THEN a ELSE IF n = 1 THEN w1 ELSE IF n = 2 THEN w2
                                  ELSE IF n = 3 THEN w3 ELSE w4]
           f == CHOOSE x : x = E(x)
<1>1. K \in Nat /\ K >= 4
  BY StepsEnough DEF Steps
<1> HIDE DEF K
<1>2. fi[p] = a /\ st(w3) = w4 /\ st(w4) = w4
  <2>1. fi[p] = a
    BY DEF Link
  <2>2. CASE h = b
    <3>1. nx[a] = h /\ a # NoHandler
      BY <2>2 DEF Link
    <3> QED BY <2>1, <2>2, <3>1
  <2>3. CASE h # b /\ h = c
    <3>1. b # NoHandler /\ a # NoHandler /\ nx[a] = b /\ nx[b] = h
      BY <2>3 DEF Link
    <3>2. w1 = b
      BY <2>3, <3>1
    <3> QED BY <2>1, <2>3, <3>1, <3>2
  <2>4. CASE h # b /\ h # c /\ h = d
    <3>1. c # NoHandler /\ b # NoHandler /\ a # NoHandler /\ nx[a] = b /\ nx[b] = c /\ nx[c] = h
      BY <2>4 DEF Link
    <3>2. w1 = b
      BY <2>4, <3>1
    <3>3. w2 = c
      BY <2>4, <3>1, <3>2
    <3> QED BY <2>1, <2>4, <3>1, <3>3
  <2>5. CASE h \notin {b, c, d}
    <3>1. w1 = b
      BY <2>5 DEF Link
    <3>2. w2 = c
      <4>1. st(b) = c
        BY <2>5 DEF Link
      <4> QED BY <3>1, <4>1
    <3>3. w3 = d
      <4>1. st(c) = d
        BY <2>5 DEF Link
      <4> QED BY <3>2, <4>1
    <3>4. st(d) = NoHandler /\ w4 = NoHandler
      BY <2>5 DEF Link
    <3> QED BY <2>1, <3>3, <3>4
  <2> QED BY <2>2, <2>3, <2>4, <2>5
<1> HIDE DEF w4, w3, w2, w1
<1>3. w = E(w)
  <2>1. ASSUME NEW n \in 0 .. K PROVE w[n] = E(w)[n]
    <3>1. n \in {0, 1, 2, 3, 4} \/ n - 1 >= 4
      BY <1>1, SMT
    <3>2. n # 0 => n - 1 \in 0 .. K
      BY <1>1, SMT
    <3>3. (n = 1 => n - 1 = 0) /\ (n = 2 => n - 1 = 1) /\ (n = 3 => n - 1 = 2)
          /\ (n = 4 => n - 1 = 3) /\ (n - 1 >= 4 => n - 1 \notin {0, 1, 2, 3} /\ n \notin {0, 1, 2, 3, 4})
      BY <1>1, SMT
    <3>4. n # 0 => w[n - 1] = IF n = 1 THEN a ELSE IF n = 2 THEN w1 ELSE IF n = 3 THEN w2
                              ELSE IF n = 4 THEN w3 ELSE w4
      BY <3>1, <3>2, <3>3
    <3>5. w[n] = IF n = 0 THEN a ELSE st(w[n - 1])
      <4>1. w1 = st(a) /\ w2 = st(w1) /\ w3 = st(w2)
        BY DEF w1, w2, w3
      <4>2. w[n] = IF n = 0 THEN a ELSE IF n = 1 THEN w1 ELSE IF n = 2 THEN w2
                   ELSE IF n = 3 THEN w3 ELSE w4
        OBVIOUS
      <4>3. CASE n \in {0, 1, 2, 3, 4}
        <5> HIDE DEF w, st
        <5> QED BY <1>2, <3>4, <4>1, <4>2, <4>3
      <4>4. CASE n - 1 >= 4
        <5> HIDE DEF w, st
        <5> QED BY <1>2, <3>3, <3>4, <4>2, <4>4
      <4> QED BY <3>1, <4>3, <4>4
    <3>6. E(w)[n] = IF n = 0 THEN a ELSE st(w[n - 1])
      <4> HIDE DEF w
      <4> QED BY <1>2
    <3> QED BY <3>5, <3>6
  <2> HIDE DEF E
  <2>3. E(w) = [n \in 0 .. K |-> E(w)[n]]
    BY DEF E
  <2>4. w = [n \in 0 .. K |-> w[n]]
    OBVIOUS
  <2> HIDE DEF w
  <2> QED BY <2>1, <2>3, <2>4
<1>4. Behind(fi, nx, p, h) = f[K]
  BY DEF Behind, K
<1> HIDE DEF w
<1>5. f = E(f)
  <2> HIDE DEF E
  <2> QED BY <1>3
<1> HIDE DEF f
<1>6. f[0] = a
  BY <1>1, <1>2, <1>5
<1>7. ASSUME NEW n \in 1 .. K PROVE f[n] = st(f[n - 1])
  <2>1. n \in 0 .. K /\ n # 0
    BY <1>1, SMT
  <2> QED BY <1>5, <2>1
<1> HIDE DEF st
<1>8. f[4] = w4
  <2>1. 1 \in 1 .. K /\ 2 \in 1 .. K /\ 3 \in 1 .. K /\ 4 \in 1 .. K
    BY <1>1, SMT
  <2>2. f[1] = st(f[0]) /\ f[2] = st(f[1]) /\ f[3] = st(f[2]) /\ f[4] = st(f[3])
    <3>1. f[1] = st(f[1 - 1]) /\ f[2] = st(f[2 - 1]) /\ f[3] = st(f[3 - 1]) /\ f[4] = st(f[4 - 1])
      BY <1>7, <2>1
    <3>2. 1 - 1 = 0 /\ 2 - 1 = 1 /\ 3 - 1 = 2 /\ 4 - 1 = 3
      BY SMT
    <3> QED BY <3>1, <3>2
  <2> QED BY <1>2, <1>6, <2>2 DEF w1, w2, w3
<1>9. \A n \in 4 .. K : f[n] = w4
  <2> DEFINE T == {n \in 4 .. K : f[n] # w4}
  <2>1. SUFFICES ASSUME T # {} PROVE FALSE
    OBVIOUS
  <2>2. T \subseteq Nat
    BY SMT
  <2>3. PICK m \in T : \A n \in T : m =< n
    BY <2>1, <2>2, LeastExists
  <2>4. m # 4
    BY <1>8, <2>3
  <2>5. m - 1 \in 4 .. K /\ m \in 1 .. K /\ ~(m =< m - 1)
    BY <1>1, <2>3, <2>4, SMT
  <2>6. f[m - 1] = w4
    BY <2>3, <2>5
  <2> QED BY <1>2, <1>7, <2>3, <2>5, <2>6
<1>10. K \in 4 .. K
  BY <1>1, SMT
<1> QED BY <1>4, <1>9, <1>10 DEF w4

(* What is left of four places when h is taken out.                        *)
Out1(h, a, b) == IF h = a THEN b ELSE a
Out2(h, a, b, c) == IF h \in {a, b} THEN c ELSE b
Out3(h, a, b, c, d) == IF h \in {a, b, c} THEN d ELSE c
Out4(h, a, b, c, d) == IF h \in {a, b, c, d} THEN NoHandler ELSE d

(* sysDeqIntRP takes a handler out of its chain, or leaves a chain that    *)
(* does not have it; all others stay, and so does its own link.            *)
LEMMA DeqLinks ==
  ASSUME NEW fi, NEW nx, NEW p \in Priority, NEW h \in Handler,
         NEW a, NEW b, NEW c, NEW d, Typed(fi, nx),
         Link(fi, nx, p, a, b, c, d), Apart4(a, b, c, d),
         NEW r, r = sysDeqIntRP([first |-> fi, next |-> nx], p, h)
  PROVE  /\ Typed(r.first, r.next)
         /\ r = [first |-> r.first, next |-> r.next]
         /\ Link(r.first, r.next, p, Out1(h, a, b), Out2(h, a, b, c), Out3(h, a, b, c, d),
                 Out4(h, a, b, c, d))
         /\ Apart4(Out1(h, a, b), Out2(h, a, b, c), Out3(h, a, b, c, d), Out4(h, a, b, c, d))
         /\ \A q \in Priority \ {p} : r.first[q] = fi[q]
         /\ \A x \in Handler \ ({a, b, c, d} \ {h}) : r.next[x] = nx[x]
<1> DEFINE fn == [first |-> fi, next |-> nx]
           prev == Behind(fi, nx, p, h)
<1>0. h # NoHandler /\ fi[p] = a
  BY DEF Handler, Timers, NoHandler, Link
<1>1. r = IF fi[p] = h THEN [fn EXCEPT !.first[p] = fn.next[h]]
          ELSE IF prev # NoHandler THEN [fn EXCEPT !.next[prev] = fn.next[h]] ELSE fn
  BY DEF sysDeqIntRP, Behind
<1> HIDE DEF prev
<1>2. nx[h] \in Places
  BY DEF Typed
<1>3. CASE h = a
  <2>1. r = [first |-> [fi EXCEPT ![p] = nx[h]], next |-> nx]
    BY <1>0, <1>1, <1>3
  <2>2. r.first = [fi EXCEPT ![p] = nx[h]] /\ r.next = nx
    <3> DEFINE f2 == [fi EXCEPT ![p] = nx[h]]
    <3>1. r = [first |-> f2, next |-> nx]
      BY <2>1
    <3> HIDE DEF f2
    <3>2. r.first = f2 /\ r.next = nx
      BY <3>1
    <3> QED BY <3>2 DEF f2
  <2>3. Typed(r.first, r.next)
    BY <1>2, <2>2 DEF Typed
  <2>4. r.first[p] = nx[h] /\ \A q \in Priority \ {p} : r.first[q] = fi[q]
    BY <2>2 DEF Typed
  <2>5. nx[h] = b
    BY <1>0, <1>3 DEF Link
  <2>6. Link(r.first, r.next, p, b, c, d, NoHandler)
    BY <2>2, <2>4, <2>5 DEF Link
  <2>7. Apart4(b, c, d, NoHandler)
    BY DEF Apart4, Places
  <2>8. Out1(h, a, b) = b /\ Out2(h, a, b, c) = c /\ Out3(h, a, b, c, d) = d
        /\ Out4(h, a, b, c, d) = NoHandler
    BY <1>3 DEF Out1, Out2, Out3, Out4
  <2> QED BY <2>1, <2>2, <2>3, <2>4, <2>6, <2>7, <2>8
<1>4. CASE h # a /\ h \notin {b, c, d}
  <2>1. r = fn
    BY <1>0, <1>1, <1>4, BehindIs DEF prev
  <2>2. r.first = fi /\ r.next = nx
    BY <2>1
  <2>8. Out1(h, a, b) = a /\ Out2(h, a, b, c) = b /\ Out3(h, a, b, c, d) = c
        /\ Out4(h, a, b, c, d) = d
    BY <1>4 DEF Out1, Out2, Out3, Out4
  <2> QED BY <2>1, <2>2, <2>8
<1>5. CASE h # a /\ h \in {b, c, d}
  <2> DEFINE q == IF h = b THEN a ELSE IF h = c THEN b ELSE c
  <2>0. prev = q
    BY <1>0, <1>5, BehindIs DEF prev
  <2>1. q # NoHandler /\ q \in Handler /\ nx[q] = h
    BY <1>0, <1>5 DEF Link, Apart4, Places
  <2>2. r = [first |-> fi, next |-> [nx EXCEPT ![q] = nx[h]]]
    <3> HIDE DEF q
    <3> QED BY <1>0, <1>1, <1>5, <2>0, <2>1
  <2>3. r.first = fi /\ r.next = [nx EXCEPT ![q] = nx[h]]
    <3> DEFINE n2 == [nx EXCEPT ![q] = nx[h]]
    <3>1. r = [first |-> fi, next |-> n2]
      BY <2>2
    <3> HIDE DEF n2, q
    <3>2. r.first = fi /\ r.next = n2
      BY <3>1
    <3> QED BY <3>2 DEF n2
  <2>4. Typed(r.first, r.next)
    <3> HIDE DEF q
    <3> QED BY <1>2, <2>1, <2>3 DEF Typed
  <2>5. r.next[q] = nx[h] /\ \A x \in Handler \ {q} : r.next[x] = nx[x]
    <3> HIDE DEF q
    <3> QED BY <2>1, <2>3 DEF Typed
  <2>6. q \in {a, b, c} /\ q # h
    BY <1>0, <1>5 DEF Apart4
  <2>7. CASE h = b
    <3>1. q = a /\ nx[h] = c
      BY <1>0, <1>5, <2>7 DEF Link
    <3>2. Link(r.first, r.next, p, a, c, d, NoHandler) /\ Apart4(a, c, d, NoHandler)
      <4>1. /\ c # NoHandler => c \in Handler /\ c # a
            /\ d # NoHandler => d \in Handler /\ d # a
        BY <1>0, <2>7 DEF Apart4, Places, Link
      <4>2. Apart4(a, c, d, NoHandler)
        BY <1>0, <2>7 DEF Apart4, Places
      <4>3. /\ c # NoHandler => r.next[c] = nx[c]
            /\ d # NoHandler => r.next[d] = nx[d]
            /\ r.next[a] = c /\ a # NoHandler
        BY <2>1, <2>5, <3>1, <4>1
      <4> QED BY <1>0, <2>3, <4>2, <4>3 DEF Link
    <3>3. Out1(h, a, b) = a /\ Out2(h, a, b, c) = c /\ Out3(h, a, b, c, d) = d
          /\ Out4(h, a, b, c, d) = NoHandler
      BY <1>5, <2>7 DEF Out1, Out2, Out3, Out4
    <3> QED BY <2>2, <2>3, <2>4, <2>5, <2>6, <3>2, <3>3
  <2>8. CASE h # b /\ h = c
    <3>1. q = b /\ nx[h] = d
      BY <1>0, <1>5, <2>8 DEF Link
    <3>2. Link(r.first, r.next, p, a, b, d, NoHandler) /\ Apart4(a, b, d, NoHandler)
      <4>1. /\ a \in Handler /\ a # b /\ b # NoHandler /\ a # NoHandler
            /\ d # NoHandler => d \in Handler /\ d # b
        BY <1>0, <2>8 DEF Apart4, Places, Link
      <4>2. Apart4(a, b, d, NoHandler)
        BY <1>0, <2>8 DEF Apart4, Places
      <4>3. /\ r.next[a] = nx[a] /\ r.next[b] = d
            /\ d # NoHandler => r.next[d] = nx[d]
        BY <2>1, <2>5, <3>1, <4>1
      <4>4. nx[a] = b /\ (d # NoHandler => nx[d] = NoHandler)
        BY <4>1 DEF Link
      <4> QED BY <1>0, <2>3, <4>1, <4>2, <4>3, <4>4 DEF Link
    <3>3. Out1(h, a, b) = a /\ Out2(h, a, b, c) = b /\ Out3(h, a, b, c, d) = d
          /\ Out4(h, a, b, c, d) = NoHandler
      BY <1>5, <2>8 DEF Out1, Out2, Out3, Out4
    <3> QED BY <2>2, <2>3, <2>4, <2>5, <2>6, <3>2, <3>3
  <2>9. CASE h # b /\ h # c /\ h = d
    <3>1. q = c /\ nx[h] = NoHandler
      BY <1>0, <1>5, <2>9 DEF Link
    <3>2. Link(r.first, r.next, p, a, b, c, NoHandler) /\ Apart4(a, b, c, NoHandler)
      <4>1. /\ a \in Handler /\ b \in Handler /\ a # c /\ b # c
            /\ c # NoHandler /\ b # NoHandler /\ a # NoHandler
        BY <1>0, <2>9 DEF Apart4, Places, Link
      <4>2. Apart4(a, b, c, NoHandler)
        BY DEF Apart4, Places
      <4>3. r.next[a] = nx[a] /\ r.next[b] = nx[b] /\ r.next[c] = NoHandler
        BY <2>1, <2>5, <3>1, <4>1
      <4>4. nx[a] = b /\ nx[b] = c
        BY <4>1 DEF Link
      <4> QED BY <1>0, <2>3, <4>1, <4>2, <4>3, <4>4 DEF Link
    <3>3. Out1(h, a, b) = a /\ Out2(h, a, b, c) = b /\ Out3(h, a, b, c, d) = c
          /\ Out4(h, a, b, c, d) = NoHandler
      BY <1>5, <2>9 DEF Out1, Out2, Out3, Out4
    <3> QED BY <2>2, <2>3, <2>4, <2>5, <2>6, <3>2, <3>3
  <2> QED BY <1>5, <2>7, <2>8, <2>9
<1> QED BY <1>3, <1>4, <1>5

(* sysEnqIntRP puts a handler before a chain that does not have it.        *)
LEMMA EnqLinks ==
  ASSUME NEW fi, NEW nx, NEW p \in Priority, NEW h \in Handler,
         NEW a, NEW b, NEW c, Typed(fi, nx),
         Link(fi, nx, p, a, b, c, NoHandler), Apart4(a, b, c, NoHandler), h \notin {a, b, c},
         NEW r, r = sysEnqIntRP([first |-> fi, next |-> nx], p, h)
  PROVE  /\ Typed(r.first, r.next)
         /\ r = [first |-> r.first, next |-> r.next]
         /\ Link(r.first, r.next, p, h, a, b, c) /\ Apart4(h, a, b, c)
         /\ \A q \in Priority \ {p} : r.first[q] = fi[q]
         /\ \A x \in Handler \ {h} : r.next[x] = nx[x]
<1>1. r.first = [fi EXCEPT ![p] = h] /\ r.next = [nx EXCEPT ![h] = fi[p]]
      /\ r = [first |-> r.first, next |-> r.next]
  BY DEF sysEnqIntRP
<1>2. h # NoHandler /\ fi[p] = a /\ a \in Places
  BY DEF Handler, Timers, NoHandler, Link, Apart4
<1>3. Typed(r.first, r.next)
  BY <1>1, <1>2 DEF Typed, Places
<1>4. /\ r.first[p] = h /\ r.next[h] = a
      /\ \A q \in Priority \ {p} : r.first[q] = fi[q]
      /\ \A x \in Handler \ {h} : r.next[x] = nx[x]
  BY <1>1, <1>2 DEF Typed
<1>5. /\ a # NoHandler => r.next[a] = nx[a]
      /\ b # NoHandler => r.next[b] = nx[b]
      /\ c # NoHandler => r.next[c] = nx[c]
  BY <1>4 DEF Apart4, Places
<1>6. Link(r.first, r.next, p, h, a, b, c)
  BY <1>2, <1>4, <1>5 DEF Link
<1>7. Apart4(h, a, b, c)
  BY <1>2 DEF Apart4, Places
<1> QED BY <1>1, <1>3, <1>4, <1>6, <1>7

(* The handlers there are for a chain: never more than four.               *)
Mine(p) ==
  (CASE p = 0 -> {"syscall", "cdIO", "cdDMA"} [] p = 1 -> Timers \cup {"mc"}
     [] p = 2 -> {"sio0"} [] p = 3 -> {"irq"})
  \cup (IF p = UserPriority THEN {"user"} ELSE {})

Listed(fi, nx, hu, p) ==
  \E a, b, c, d \in Places :
    /\ Link(fi, nx, p, a, b, c, d) /\ Apart4(a, b, c, d)
    /\ hu[p] = {a, b, c, d} \ {NoHandler}
SameNext(nx, nx2, S) == \A x \in S : nx2[x] = nx[x]

Lists(fi, nx, hu) ==
  /\ Typed(fi, nx) /\ hu \in [Priority -> SUBSET Handler]
  /\ \A p \in Priority : hu[p] \subseteq Mine(p) /\ Listed(fi, nx, hu, p)

LEMMA MineApart ==
  ASSUME NEW p \in Priority, NEW q \in Priority, p # q, NEW h \in Mine(p)
  PROVE  h \notin Mine(q) /\ h \in Handler /\ h # NoHandler
<1>1. p \in {0, 1, 2, 3} /\ q \in {0, 1, 2, 3}
  BY SMT DEF Priority
<1>2. h = "user" => p = UserPriority
  BY <1>1 DEF Mine, Timers
<1>3. h \in Mine(q) /\ h = "user" => q = UserPriority
  BY <1>1 DEF Mine, Timers
<1>4. h # "user" => h \notin Mine(q)
  BY <1>1 DEF Mine, Timers
<1>5. h \in Handler /\ h # NoHandler
  BY <1>1 DEF Mine, Timers, Handler, NoHandler
<1> QED BY <1>2, <1>3, <1>4, <1>5

(* Three are in a chain at most, if one of its four is not.                *)
LEMMA RoomForOne ==
  ASSUME NEW p \in Priority, NEW h \in Mine(p), NEW a, NEW b, NEW c, NEW d,
         Apart4(a, b, c, d), {a, b, c, d} \ {NoHandler} \subseteq Mine(p) \ {h},
         b # NoHandler => a # NoHandler, c # NoHandler => b # NoHandler,
         d # NoHandler => c # NoHandler
  PROVE  d = NoHandler
<1>1. SUFFICES ASSUME d # NoHandler PROVE FALSE
  OBVIOUS
<1>2. /\ a \in Mine(p) \ {h} /\ b \in Mine(p) \ {h} /\ c \in Mine(p) \ {h} /\ d \in Mine(p) \ {h}
      /\ a # b /\ a # c /\ a # d /\ b # c /\ b # d /\ c # d
  BY <1>1 DEF Apart4
<1>3. \E x, y, z, u : Mine(p) \subseteq {x, y, z, u}
  <2>1. p \in {0, 1, 2, 3}
    BY SMT DEF Priority
  <2>2. CASE p = 0
    <3>1. Mine(p) \subseteq {"syscall", "cdIO", "cdDMA", "user"}
      BY <2>2 DEF Mine
    <3> QED BY <3>1
  <2>3. CASE p = 1
    <3>1. Mine(p) \subseteq {"t0", "t3", "mc", "user"}
      BY <2>3 DEF Mine, Timers
    <3> QED BY <3>1
  <2>4. CASE p = 2
    <3>1. Mine(p) \subseteq {"sio0", "sio0", "sio0", "user"}
      BY <2>4 DEF Mine
    <3> QED BY <3>1
  <2>5. CASE p = 3
    <3>1. Mine(p) \subseteq {"irq", "irq", "irq", "user"}
      BY <2>5 DEF Mine
    <3> QED BY <3>1
  <2> QED BY <2>1, <2>2, <2>3, <2>4, <2>5
<1>4. PICK x, y, z, u : Mine(p) \subseteq {x, y, z, u}
  BY <1>3
<1>5. /\ h \in {x, y, z, u} /\ a \in {x, y, z, u} /\ b \in {x, y, z, u} /\ c \in {x, y, z, u}
      /\ d \in {x, y, z, u} /\ h # a /\ h # b /\ h # c /\ h # d
  BY <1>2, <1>4
<1> QED BY <1>2, <1>5

(* A chain that is left alone.                                             *)
LEMMA ListedStays ==
  ASSUME NEW fi, NEW nx, NEW hu, NEW p \in Priority, Listed(fi, nx, hu, p),
         NEW fi2, NEW nx2, NEW hu2, fi2[p] = fi[p], hu2[p] = hu[p],
         SameNext(nx, nx2, hu[p])
  PROVE  Listed(fi2, nx2, hu2, p)
<1>1. PICK a, b, c, d \in Places : /\ Link(fi, nx, p, a, b, c, d) /\ Apart4(a, b, c, d)
                                   /\ hu[p] = {a, b, c, d} \ {NoHandler}
  BY DEF Listed
<1>2. /\ a # NoHandler => nx2[a] = nx[a]
      /\ b # NoHandler => nx2[b] = nx[b]
      /\ c # NoHandler => nx2[c] = nx[c]
      /\ d # NoHandler => nx2[d] = nx[d]
  BY <1>1 DEF SameNext
<1>3. Link(fi2, nx2, p, a, b, c, d)
  BY <1>1, <1>2 DEF Link
<1>4. hu2[p] = {a, b, c, d} \ {NoHandler}
  BY <1>1
<1> QED BY <1>1, <1>3, <1>4, Zenon DEF Listed

(* What the two operations make of the chains, r, and of the history, hu2. *)
TakesOut(fi, nx, hu, p, h, r, hu2) ==
  /\ r = sysDeqIntRP([first |-> fi, next |-> nx], p, h)
  /\ hu2 = [hu EXCEPT ![p] = @ \ {h}]
PutsIn(fi, nx, hu, p, h, r, hu2) ==
  /\ r = sysEnqIntRP([first |-> fi, next |-> nx], p, h)
  /\ hu2 = [hu EXCEPT ![p] = @ \cup {h}]

LEMMA DeqLists ==
  ASSUME NEW fi, NEW nx, NEW hu, Lists(fi, nx, hu), NEW p \in Priority, NEW h \in Mine(p),
         NEW r, NEW hu2, TakesOut(fi, nx, hu, p, h, r, hu2)
  PROVE  /\ Lists(r.first, r.next, hu2) /\ r = [first |-> r.first, next |-> r.next]
         /\ r.next[h] = nx[h] /\ \A x \in Handler \ Mine(p) : r.next[x] = nx[x]
<1> USE DEF TakesOut
<1>0. h \in Handler /\ h # NoHandler
  <2>1. p \in {0, 1, 2, 3}
    BY SMT DEF Priority
  <2> QED BY <2>1 DEF Mine, Timers, Handler, NoHandler
<1>1. PICK a, b, c, d \in Places : /\ Link(fi, nx, p, a, b, c, d) /\ Apart4(a, b, c, d)
                                   /\ hu[p] = {a, b, c, d} \ {NoHandler}
  BY DEF Lists, Listed
<1> DEFINE a2 == Out1(h, a, b)
           b2 == Out2(h, a, b, c)
           c2 == Out3(h, a, b, c, d)
           d2 == Out4(h, a, b, c, d)
<1>2. /\ Typed(r.first, r.next)
      /\ r = [first |-> r.first, next |-> r.next]
      /\ Link(r.first, r.next, p, a2, b2, c2, d2)
      /\ Apart4(a2, b2, c2, d2)
      /\ \A q \in Priority \ {p} : r.first[q] = fi[q]
      /\ \A x \in Handler \ ({a, b, c, d} \ {h}) : r.next[x] = nx[x]
  <2>1. Typed(fi, nx)
    BY DEF Lists
  <2> QED BY <1>0, <1>1, <2>1, DeqLinks
<1>3. hu2[p] = hu[p] \ {h} /\ (\A q \in Priority \ {p} : hu2[q] = hu[q])
      /\ hu2 \in [Priority -> SUBSET Handler]
  BY DEF Lists
<1>4. {a2, b2, c2, d2} \ {NoHandler} = ({a, b, c, d} \ {NoHandler}) \ {h}
  BY <1>0, <1>1 DEF Out1, Out2, Out3, Out4, Apart4, Link
<1> HIDE DEF a2, b2, c2, d2
<1>5. Listed(r.first, r.next, hu2, p)
  <2>1. a2 \in Places /\ b2 \in Places /\ c2 \in Places /\ d2 \in Places
    BY <1>2 DEF Apart4
  <2>2. hu2[p] = {a2, b2, c2, d2} \ {NoHandler}
    BY <1>1, <1>3, <1>4
  <2>3. Link(r.first, r.next, p, a2, b2, c2, d2) /\ Apart4(a2, b2, c2, d2)
    BY <1>2
  <2> QED BY <2>1, <2>2, <2>3, Zenon DEF Listed
<1>6. ASSUME NEW q \in Priority \ {p} PROVE Listed(r.first, r.next, hu2, q)
  <2>1. Listed(fi, nx, hu, q) /\ hu[q] \subseteq Mine(q) /\ hu[p] \subseteq Mine(p)
        /\ hu[q] \subseteq Handler
    BY DEF Lists
  <2>2. ASSUME NEW x \in hu[q] PROVE r.next[x] = nx[x]
    <3>1. x \notin Mine(p) /\ x # NoHandler /\ x \in Handler
      BY <2>1, MineApart
    <3>2. x \notin {a, b, c, d}
      BY <1>1, <2>1, <3>1
    <3> QED BY <1>2, <3>1, <3>2
  <2>3. SameNext(nx, r.next, hu[q])
    BY <2>2 DEF SameNext
  <2>4. r.first[q] = fi[q] /\ hu2[q] = hu[q] /\ q \in Priority
    BY <1>2, <1>3
  <2> QED BY <2>1, <2>3, <2>4, ListedStays
<1>7. \A q \in Priority : hu2[q] \subseteq Mine(q)
  BY <1>3 DEF Lists
<1>8. Lists(r.first, r.next, hu2)
  BY <1>2, <1>3, <1>5, <1>6, <1>7 DEF Lists
<1>9. ASSUME NEW x \in Handler \ Mine(p) PROVE r.next[x] = nx[x]
  <2>1. hu[p] \subseteq Mine(p) /\ x # NoHandler
    BY DEF Lists, Handler, Timers, NoHandler
  <2> QED BY <1>1, <1>2, <2>1
<1>10. r.next[h] = nx[h]
  BY <1>0, <1>2
<1> QED BY <1>2, <1>8, <1>9, <1>10

LEMMA EnqLists ==
  ASSUME NEW fi, NEW nx, NEW hu, Lists(fi, nx, hu), NEW p \in Priority, NEW h \in Mine(p),
         h \notin hu[p],
         NEW r, NEW hu2, PutsIn(fi, nx, hu, p, h, r, hu2)
  PROVE  /\ Lists(r.first, r.next, hu2) /\ r = [first |-> r.first, next |-> r.next]
         /\ \A x \in Handler \ Mine(p) : r.next[x] = nx[x]
<1> USE DEF PutsIn
<1>0. h \in Handler /\ h # NoHandler
  <2>1. p \in {0, 1, 2, 3}
    BY SMT DEF Priority
  <2> QED BY <2>1 DEF Mine, Timers, Handler, NoHandler
<1>1. PICK a, b, c, d \in Places : /\ Link(fi, nx, p, a, b, c, d) /\ Apart4(a, b, c, d)
                                   /\ hu[p] = {a, b, c, d} \ {NoHandler}
  BY DEF Lists, Listed
<1>2. d = NoHandler
  <2>1. hu[p] \subseteq Mine(p)
    BY DEF Lists
  <2>2. {a, b, c, d} \ {NoHandler} \subseteq Mine(p) \ {h}
    BY <1>1, <2>1
  <2>3. /\ b # NoHandler => a # NoHandler
        /\ c # NoHandler => b # NoHandler
        /\ d # NoHandler => c # NoHandler
    BY <1>1 DEF Link
  <2> QED BY <1>1, <2>2, <2>3, RoomForOne
<1>3. /\ Typed(r.first, r.next)
      /\ r = [first |-> r.first, next |-> r.next]
      /\ Link(r.first, r.next, p, h, a, b, c) /\ Apart4(h, a, b, c)
      /\ \A q \in Priority \ {p} : r.first[q] = fi[q]
      /\ \A x \in Handler \ {h} : r.next[x] = nx[x]
  <2>1. Typed(fi, nx)
    BY DEF Lists
  <2>2. h \notin {a, b, c}
    BY <1>0, <1>1
  <2> QED BY <1>0, <1>1, <1>2, <2>1, <2>2, EnqLinks
<1>4. hu2[p] = hu[p] \cup {h} /\ (\A q \in Priority \ {p} : hu2[q] = hu[q])
      /\ hu2 \in [Priority -> SUBSET Handler]
  BY <1>0 DEF Lists
<1>5. Listed(r.first, r.next, hu2, p)
  <2>1. hu2[p] = {h, a, b, c} \ {NoHandler}
    BY <1>0, <1>1, <1>2, <1>4
  <2>2. h \in Places
    BY <1>0 DEF Places
  <2>3. Link(r.first, r.next, p, h, a, b, c) /\ Apart4(h, a, b, c)
    BY <1>3
  <2>4. a \in Places /\ b \in Places /\ c \in Places
    BY <1>1
  <2> QED BY <2>1, <2>2, <2>3, <2>4, Zenon DEF Listed
<1>6. ASSUME NEW q \in Priority \ {p} PROVE Listed(r.first, r.next, hu2, q)
  <2>1. Listed(fi, nx, hu, q) /\ hu[q] \subseteq Mine(q) /\ hu[q] \subseteq Handler
    BY DEF Lists
  <2>2. ASSUME NEW x \in hu[q] PROVE r.next[x] = nx[x]
    <3>1. x \notin Mine(p) /\ x \in Handler
      BY <2>1, MineApart
    <3> QED BY <1>3, <3>1
  <2>3. SameNext(nx, r.next, hu[q])
    BY <2>2 DEF SameNext
  <2>4. r.first[q] = fi[q] /\ hu2[q] = hu[q] /\ q \in Priority
    BY <1>3, <1>4
  <2> QED BY <2>1, <2>3, <2>4, ListedStays
<1>7. \A q \in Priority : hu2[q] \subseteq Mine(q)
  BY <1>4 DEF Lists
<1>8. Lists(r.first, r.next, hu2)
  BY <1>3, <1>4, <1>5, <1>6, <1>7 DEF Lists
<1> QED BY <1>3, <1>8

(* Where a walk is: at a handler that is hung.                             *)
AtHung(w, hu) ==
  w = Running \/ (w = <<w[1], w[2]>> /\ w[1] \in Priority /\ w[2] \in hu[w[1]])

LEMMA FirstIsHung ==
  ASSUME NEW fi, NEW nx, NEW hu, Lists(fi, nx, hu), NEW p \in Int
  PROVE  AtHung(FirstFrom(p, fi), hu)
<1> DEFINE S == {q \in Priority : q >= p /\ fi[q] # NoHandler}
           m == Min(S)
<1>1. CASE S = {}
  BY <1>1 DEF FirstFrom, AtHung
<1>2. CASE S # {}
  <2>1. S \subseteq Nat
    BY SMT DEF Priority
  <2>2. \E x \in S : \A y \in S : x <= y
    BY <1>2, <2>1, LeastExists
  <2>3. m \in S
    BY <2>2 DEF Min
  <2>4. FirstFrom(p, fi) = <<m, fi[m]>>
    BY <1>2 DEF FirstFrom
  <2> HIDE DEF m
  <2>5. m \in Priority /\ fi[m] # NoHandler
    BY <2>3
  <2>6. fi[m] \in hu[m]
    BY <2>5 DEF Lists, Listed, Link
  <2> QED BY <2>4, <2>5, <2>6 DEF AtHung
<1> QED BY <1>1, <1>2

LEMMA NextIsHung ==
  ASSUME NEW fi, NEW nx, NEW hu, Lists(fi, nx, hu), NEW p \in Priority, NEW x \in hu[p]
  PROVE  nx[x] = NoHandler \/ nx[x] \in hu[p] \ {x}
<1>1. PICK a, b, c, d \in Places : /\ Link(fi, nx, p, a, b, c, d) /\ Apart4(a, b, c, d)
                                   /\ hu[p] = {a, b, c, d} \ {NoHandler}
  BY DEF Lists, Listed
<1> QED BY <1>1 DEF Link, Apart4

Lines == raised \subseteq Line /\ mask \subseteq Line
Flags == autoAck \subseteq Timers \cup {"sio0"} /\ started \subseteq {"pad", "card"}

HungInv ==
  /\ Lists(first, next, hung) /\ AtHung(at, hung)
  /\ "cdIO" \in hung[0] <=> "cdDMA" \in hung[0]
  /\ Lines /\ Flags

LEMMA MineFacts ==
  /\ 0 \in Priority /\ 1 \in Priority /\ 2 \in Priority
  /\ "cdIO" \in Mine(0) /\ "cdDMA" \in Mine(0) /\ "cdIO" # "cdDMA"
  /\ "mc" \in Mine(1) /\ "sio0" \in Mine(2)
  /\ UserPriority \in Priority /\ "user" \in Mine(UserPriority)
  /\ \A p \in Priority : "mc" \in Mine(p) => p = 1
  /\ \A p \in Priority : "sio0" \in Mine(p) => p = 2
  /\ \A p \in Priority : {"cdIO", "cdDMA"} \cap Mine(p) # {} => p = 0
  /\ Mine(2) = {"sio0"}
<1>1. Priority = {0, 1, 2, 3}
  BY SMT DEF Priority
<1>2. UserPriority \in {0, 1, 3}
  BY ExceptionsAssumption
<1> QED BY <1>1, <1>2 DEF Mine, Timers

LEMMA UnhungStep ==
  ASSUME Lists(first, next, hung), NEW p \in Priority, NEW h \in Mine(p), Unhung(p, h)
  PROVE  /\ Lists(first', next', hung') /\ hung' = [hung EXCEPT ![p] = @ \ {h}]
         /\ next'[h] = next[h] /\ \A x \in Handler \ Mine(p) : next'[x] = next[x]
<1> DEFINE r == sysDeqIntRP([first |-> first, next |-> next], p, h)
           hu == [hung EXCEPT ![p] = @ \ {h}]
<1>1. first' = r.first /\ next' = r.next /\ hung' = hu
  BY DEF Unhung, Sets, Leaves, FN
<1>2. /\ Lists(r.first, r.next, hu) /\ r = [first |-> r.first, next |-> r.next]
      /\ r.next[h] = next[h] /\ \A x \in Handler \ Mine(p) : r.next[x] = next[x]
  <2>1. TakesOut(first, next, hung, p, h, r, hu)
    BY DEF TakesOut
  <2> HIDE DEF r, hu
  <2> QED BY <2>1, DeqLists
<1> HIDE DEF r
<1> QED BY <1>1, <1>2

LEMMA RehungStep ==
  ASSUME Lists(first, next, hung), NEW p \in Priority, NEW h \in Mine(p), Rehung(p, h)
  PROVE  /\ Lists(first', next', hung') /\ hung' = [hung EXCEPT ![p] = @ \cup {h}]
         /\ \A x \in Handler \ Mine(p) : next'[x] = next[x]
<1> DEFINE r == sysDeqIntRP([first |-> first, next |-> next], p, h)
           hu == [hung EXCEPT ![p] = @ \ {h}]
           t == sysEnqIntRP([first |-> r.first, next |-> r.next], p, h)
           hv == [hu EXCEPT ![p] = @ \cup {h}]
<1>1. /\ Lists(r.first, r.next, hu) /\ r = [first |-> r.first, next |-> r.next]
      /\ \A x \in Handler \ Mine(p) : r.next[x] = next[x]
  <2>1. TakesOut(first, next, hung, p, h, r, hu)
    BY DEF TakesOut
  <2> HIDE DEF r, hu
  <2> QED BY <2>1, DeqLists
<1>2. first' = t.first /\ next' = t.next /\ hung' = [hung EXCEPT ![p] = @ \cup {h}]
  <2>1. /\ first' = sysEnqIntRP(r, p, h).first /\ next' = sysEnqIntRP(r, p, h).next
        /\ hung' = [hung EXCEPT ![p] = @ \cup {h}]
    BY DEF Rehung, Sets, Hangs, FN
  <2> HIDE DEF r
  <2>2. sysEnqIntRP(r, p, h) = t
    BY <1>1
  <2> QED BY <2>1, <2>2
<1>3. hv = [hung EXCEPT ![p] = @ \cup {h}] /\ h \notin hu[p]
  BY DEF Lists
<1> HIDE DEF r, hu
<1>4. Lists(t.first, t.next, hv) /\ \A x \in Handler \ Mine(p) : t.next[x] = r.next[x]
  <2>1. PutsIn(r.first, r.next, hu, p, h, t, hv)
    BY DEF PutsIn
  <2> HIDE DEF t, hv
  <2> QED BY <1>1, <1>3, <2>1, EnqLists
<1> HIDE DEF t, hv
<1> QED BY <1>1, <1>2, <1>3, <1>4

LEMMA PassOnStep ==
  ASSUME Lists(first', next', hung'), at[1] \in Priority, PassOn,
         next'[at[2]] = NoHandler \/ next'[at[2]] \in hung'[at[1]]
  PROVE  AtHung(at', hung')
<1>1. CASE next'[at[2]] # NoHandler
  <2>1. at' = <<at[1], next'[at[2]]>>
    BY <1>1 DEF PassOn
  <2> QED BY <1>1, <2>1 DEF AtHung
<1>2. CASE next'[at[2]] = NoHandler
  <2>1. at' = FirstFrom(at[1] + 1, first')
    BY <1>2 DEF PassOn
  <2>2. at[1] + 1 \in Int
    BY SMT DEF Priority
  <2> QED BY <2>1, <2>2, FirstIsHung
<1> QED BY <1>1, <1>2

(* A handler that is passed while the chains stay.                         *)
LEMMA PassStep ==
  ASSUME Lists(first, next, hung), AtHung(at, hung), at # Running, UNCHANGED chains, PassOn
  PROVE  AtHung(at', hung')
<1>1. at[1] \in Priority /\ at[2] \in hung[at[1]]
  BY DEF AtHung
<1>2. next[at[2]] = NoHandler \/ next[at[2]] \in hung[at[1]]
  BY <1>1, NextIsHung
<1>3. first' = first /\ next' = next /\ hung' = hung
  BY DEF chains
<1> QED BY <1>1, <1>2, <1>3, PassOnStep

LEMMA AtHandler ==
  ASSUME Lists(first, next, hung), AtHung(at, hung), NEW h \in Handler, at[2] = h
  PROVE  at # Running /\ at[1] \in Priority /\ h \in hung[at[1]] /\ h \in Mine(at[1])
<1>1. at # Running
  BY DEF Running, Handler, Timers, NoHandler
<1> QED BY <1>1 DEF AtHung, Lists

LEMMA WalkKeeps == ASSUME HungInv, Walk PROVE HungInv'
<1>0. Lists(first, next, hung) /\ AtHung(at, hung)
  BY DEF HungInv
<1>1. CASE Passes
  <2>1. UNCHANGED <<chains, raised, mask, sio>> /\ at # Running /\ PassOn
    BY <1>1 DEF Passes
  <2>2. AtHung(at', hung')
    BY <1>0, <2>1, PassStep
  <2> QED BY <2>1, <2>2 DEF HungInv, chains, sio, Lines, Flags
<1>2. CASE TimerHandler
  <2>1. UNCHANGED <<chains, mask, sio>> /\ raised' \subseteq raised /\ (at' = Running \/ PassOn)
    BY <1>2 DEF TimerHandler
  <2>2. at # Running
    BY <1>0, <1>2, AtHandler DEF TimerHandler, Handler
  <2>3. AtHung(at', hung')
    <3>1. CASE at' = Running
      BY <3>1 DEF AtHung
    <3>2. CASE PassOn
      BY <1>0, <2>1, <2>2, <3>2, PassStep
    <3> QED BY <2>1, <3>1, <3>2
  <2> QED BY <2>1, <2>3 DEF HungInv, chains, sio, Lines, Flags
<1>3. CASE mcHandler
  <2>1. /\ at[2] = "mc" /\ raised' \subseteq raised /\ PassOn /\ UNCHANGED <<autoAck, started>>
        /\ mask' \subseteq mask \cup {"controller"}
        /\ UNCHANGED chains \/ Unhung(1, "mc")
    BY <1>3 DEF mcHandler, CardGoesOn, CardIsOver
  <2>2. at # Running /\ at[1] = 1 /\ "mc" \in hung[1]
    <3>1. "mc" \in Handler
      BY DEF Handler
    <3> QED BY <1>0, <2>1, <3>1, AtHandler, MineFacts
  <2>3. CASE UNCHANGED chains
    <3>1. AtHung(at', hung')
      BY <1>0, <2>1, <2>2, <2>3, PassStep
    <3> QED BY <2>1, <2>3, <3>1 DEF HungInv, chains, Lines, Flags, Line
  <2>4. CASE Unhung(1, "mc")
    <3>1. /\ Lists(first', next', hung') /\ hung' = [hung EXCEPT ![1] = @ \ {"mc"}]
          /\ next'["mc"] = next["mc"]
      BY <1>0, <2>4, MineFacts, UnhungStep
    <3>2. next["mc"] = NoHandler \/ next["mc"] \in hung[1] \ {"mc"}
      BY <1>0, <2>2, MineFacts, NextIsHung
    <3>3. hung'[1] = hung[1] \ {"mc"} /\ hung'[0] = hung[0]
      BY <1>0, <3>1, MineFacts DEF Lists
    <3>4. AtHung(at', hung')
      BY <2>1, <2>2, <3>1, <3>2, <3>3, MineFacts, PassOnStep
    <3> QED BY <2>1, <3>1, <3>3, <3>4 DEF HungInv, Lines, Flags, Line
  <2> QED BY <2>1, <2>3, <2>4
<1>4. CASE sio0Handler
  <2>1. /\ at[2] = "sio0" /\ raised' \subseteq raised /\ PassOn /\ UNCHANGED <<autoAck, started>>
        /\ mask' \subseteq mask \cup {"controller"}
        /\ UNCHANGED chains \/ Unhung(1, "mc") \/ Rehung(1, "mc")
    BY <1>4 DEF sio0Handler, CardAborts, CardBegins, CardWaits, CardGoesOn, CardIsOver
  <2>2. at # Running /\ at[1] = 2 /\ "sio0" \in hung[2]
    <3>1. "sio0" \in Handler
      BY DEF Handler
    <3> QED BY <1>0, <2>1, <3>1, AtHandler, MineFacts
  <2>3. CASE UNCHANGED chains
    <3>1. AtHung(at', hung')
      BY <1>0, <2>1, <2>2, <2>3, PassStep
    <3> QED BY <2>1, <2>3, <3>1 DEF HungInv, chains, Lines, Flags, Line
  <2>4. CASE Unhung(1, "mc") \/ Rehung(1, "mc")
    <3>1. /\ Lists(first', next', hung')
          /\ hung' = [hung EXCEPT ![1] = @ \ {"mc"}] \/ hung' = [hung EXCEPT ![1] = @ \cup {"mc"}]
          /\ \A x \in Handler \ Mine(1) : next'[x] = next[x]
      BY <1>0, <2>4, MineFacts, UnhungStep, RehungStep
    <3>2. next["sio0"] = NoHandler \/ next["sio0"] \in hung[2]
      BY <1>0, <2>2, MineFacts, NextIsHung
    <3>3. hung'[2] = hung[2] /\ hung'[0] = hung[0]
      BY <1>0, <3>1, MineFacts DEF Lists
    <3>4. next'["sio0"] = next["sio0"]
      <4>1. "sio0" \in Handler \ Mine(1)
        BY MineFacts DEF Handler
      <4> QED BY <3>1, <4>1
    <3>5. AtHung(at', hung')
      BY <2>1, <2>2, <3>1, <3>2, <3>3, <3>4, MineFacts, PassOnStep
    <3> QED BY <2>1, <3>1, <3>3, <3>5 DEF HungInv, Lines, Flags, Line
  <2> QED BY <2>1, <2>3, <2>4
<1> QED BY <1>1, <1>2, <1>3, <1>4 DEF Walk

(* What cuts off the end of a chain of one, or of none.                    *)
LEMMA CutStep ==
  ASSUME Lists(first, next, hung), NEW S, S \subseteq {"sio0", "mc"},
         "mc" \in S => "mc" \notin hung[1], NEW nx,
         nx = [h \in Handler |-> IF h \in S THEN NoHandler ELSE next[h]]
  PROVE  Lists(first, nx, hung)
<1>1. Typed(first, nx)
  BY DEF Lists, Typed, Places
<1>2. ASSUME NEW p \in Priority PROVE Listed(first, nx, hung, p)
  <2>1. Listed(first, next, hung, p) /\ hung[p] \subseteq Mine(p) /\ hung[p] \subseteq Handler
    BY DEF Lists
  <2>2. ASSUME NEW x \in hung[p] PROVE nx[x] = next[x]
    <3>1. CASE x \notin S
      BY <2>1, <3>1
    <3>2. CASE x = "mc" /\ x \in S
      BY <2>1, <3>2, MineFacts
    <3>3. CASE x = "sio0" /\ x \in S
      <4>1. p = 2
        BY <2>1, <3>3, MineFacts
      <4>2. next[x] = NoHandler
        BY <2>1, <3>3, <4>1, MineFacts, NextIsHung
      <4> QED BY <2>1, <3>3, <4>2
    <3> QED BY <3>1, <3>2, <3>3
  <2>3. SameNext(next, nx, hung[p])
    BY <2>2 DEF SameNext
  <2> QED BY <2>1, <2>3, ListedStays
<1> QED BY <1>1, <1>2 DEF Lists

LEMMA ChainsOfLists ==
  ASSUME Lists(first, next, hung), NEW p \in Priority
  PROVE  Chain(p) = hung[p]
<1>1. PICK a, b, c, d \in Places : /\ Link(first, next, p, a, b, c, d) /\ Apart4(a, b, c, d)
                                   /\ hung[p] = {a, b, c, d} \ {NoHandler}
  BY DEF Lists, Listed
<1>2. Typed(first, next)
  BY DEF Lists
<1> QED BY <1>1, <1>2, ChainIs

LEMMA CallsKeep == ASSUME HungInv, Calls PROVE HungInv'
<1>0. Lists(first, next, hung) /\ Lines /\ Flags /\ next \in [Handler -> Places]
  BY DEF HungInv, Lists, Typed
<1>1. at' = Running
  BY DEF Calls, initPad, initPadEnds, startPad, stopPad, initCard, startCard, stopCard, AskCard,
         EnableTimer, CdHangs, CdLeaves, User, Runs, GoesOn
<1>2. Lines' /\ Flags'
  BY <1>0 DEF Calls, initPad, initPadEnds, startPad, stopPad, initCard, startCard, stopCard, AskCard,
         EnableTimer, CdHangs, CdLeaves, User, Runs, GoesOn, sio, wanted, TakenFromCounters,
         GivenToCounters, Lines, Flags, Line, Timers
<1>3. SUFFICES /\ Lists(first', next', hung')
               /\ "cdIO" \in hung'[0] <=> "cdDMA" \in hung'[0]
  BY <1>1, <1>2 DEF HungInv, AtHung
<1>4. ASSUME UNCHANGED chains
      PROVE  /\ Lists(first', next', hung')
             /\ "cdIO" \in hung'[0] <=> "cdDMA" \in hung'[0]
  BY <1>4 DEF chains, HungInv
<1>5. ASSUME NEW S, S \subseteq {"sio0", "mc"}, "mc" \in S => "mc" \notin hung[1],
             UNCHANGED <<first, hung>>,
             next' = [h \in Handler |-> IF h \in S THEN NoHandler ELSE next[h]]
      PROVE  /\ Lists(first', next', hung')
             /\ "cdIO" \in hung'[0] <=> "cdDMA" \in hung'[0]
  <2>1. Lists(first, next', hung)
    BY <1>0, <1>5, CutStep
  <2> QED BY <1>5, <2>1 DEF HungInv
<1>6. ASSUME NEW p \in Priority, NEW h \in Mine(p), h \notin {"cdIO", "cdDMA"},
             Rehung(p, h) \/ Unhung(p, h)
      PROVE  /\ Lists(first', next', hung')
             /\ "cdIO" \in hung'[0] <=> "cdDMA" \in hung'[0]
  <2>1. /\ Lists(first', next', hung')
        /\ hung' = [hung EXCEPT ![p] = @ \ {h}] \/ hung' = [hung EXCEPT ![p] = @ \cup {h}]
    BY <1>0, <1>6, UnhungStep, RehungStep
  <2>2. hung'[0] \in {hung[0], hung[0] \ {h}, hung[0] \cup {h}}
    BY <1>0, <2>1, MineFacts DEF Lists
  <2> QED BY <1>6, <2>1, <2>2 DEF HungInv
<1>7. CASE initPad
  <2>1. next' = [next EXCEPT !["sio0"] = NoHandler] /\ UNCHANGED <<first, hung>>
    BY <1>7 DEF initPad, SioSetup
  <2>2. next' = [h \in Handler |-> IF h \in {"sio0"} THEN NoHandler ELSE next[h]]
    BY <1>0, <2>1
  <2> QED BY <1>5, <2>1, <2>2
<1>8. CASE initCard
  <2>1. /\ next' = [next EXCEPT !["sio0"] = NoHandler, !["mc"] = NoHandler]
        /\ UNCHANGED <<first, hung>> /\ "mc" \notin Chain(1)
    BY <1>8 DEF initCard
  <2>2. next' = [h \in Handler |-> IF h \in {"sio0", "mc"} THEN NoHandler ELSE next[h]]
    BY <1>0, <2>1
  <2>3. "mc" \notin hung[1]
    BY <1>0, <2>1, MineFacts, ChainsOfLists
  <2> QED BY <1>5, <2>1, <2>2, <2>3
<1>9. CASE startPad \/ stopPad \/ startCard \/ stopCard
  <2>1. Rehung(2, "sio0") \/ Unhung(2, "sio0")
    BY <1>9 DEF startPad, stopPad, startCard, stopCard
  <2> QED BY <1>6, <2>1, MineFacts
<1>10. CASE initPadEnds \/ AskCard \/ (\E line \in {"timer0", "vblank"} : EnableTimer(line))
  <2>1. UNCHANGED chains
    BY <1>10 DEF initPadEnds, AskCard, EnableTimer
  <2> QED BY <1>4, <2>1
<1>11. CASE CdHangs
  <2> DEFINE r == sysEnqIntRP([first |-> first, next |-> next], 0, "cdIO")
             hu == [hung EXCEPT ![0] = @ \cup {"cdIO"}]
             t == sysEnqIntRP([first |-> r.first, next |-> r.next], 0, "cdDMA")
             hv == [hu EXCEPT ![0] = @ \cup {"cdDMA"}]
  <2>1. /\ "cdIO" \notin hung[0]
        /\ first' = sysEnqIntRP(r, 0, "cdDMA").first /\ next' = sysEnqIntRP(r, 0, "cdDMA").next
        /\ hung' = [hung EXCEPT ![0] = @ \cup {"cdIO", "cdDMA"}]
    BY <1>11 DEF CdHangs, Sets, FN
  <2>2. Lists(r.first, r.next, hu) /\ r = [first |-> r.first, next |-> r.next]
    <3>1. PutsIn(first, next, hung, 0, "cdIO", r, hu)
      BY DEF PutsIn
    <3> HIDE DEF r, hu
    <3> QED BY <1>0, <2>1, <3>1, MineFacts, EnqLists
  <2> HIDE DEF r
  <2>3. sysEnqIntRP(r, 0, "cdDMA") = t
    BY <2>2
  <2>4. "cdDMA" \notin hu[0] /\ hv = hung' /\ {"cdIO", "cdDMA"} \subseteq hung'[0]
    BY <1>0, <2>1, MineFacts DEF HungInv, Lists
  <2>5. Lists(t.first, t.next, hv)
    <3>1. PutsIn(r.first, r.next, hu, 0, "cdDMA", t, hv)
      BY DEF PutsIn
    <3> HIDE DEF hu, t, hv
    <3> QED BY <2>2, <2>4, <3>1, MineFacts, EnqLists
  <2> HIDE DEF hu, t, hv
  <2> QED BY <2>1, <2>3, <2>4, <2>5
<1>12. CASE CdLeaves
  <2> DEFINE r == sysDeqIntRP([first |-> first, next |-> next], 0, "cdIO")
             hu == [hung EXCEPT ![0] = @ \ {"cdIO"}]
             t == sysDeqIntRP([first |-> r.first, next |-> r.next], 0, "cdDMA")
             hv == [hu EXCEPT ![0] = @ \ {"cdDMA"}]
  <2>1. /\ first' = sysDeqIntRP(r, 0, "cdDMA").first /\ next' = sysDeqIntRP(r, 0, "cdDMA").next
        /\ hung' = [hung EXCEPT ![0] = @ \ {"cdIO", "cdDMA"}]
    BY <1>12 DEF CdLeaves, Sets, FN
  <2>2. Lists(r.first, r.next, hu) /\ r = [first |-> r.first, next |-> r.next]
    <3>1. TakesOut(first, next, hung, 0, "cdIO", r, hu)
      BY DEF TakesOut
    <3> HIDE DEF r, hu
    <3> QED BY <1>0, <3>1, MineFacts, DeqLists
  <2> HIDE DEF r
  <2>3. sysDeqIntRP(r, 0, "cdDMA") = t
    BY <2>2
  <2>4. hv = hung' /\ {"cdIO", "cdDMA"} \cap hung'[0] = {}
    BY <1>0, <2>1, MineFacts DEF HungInv, Lists
  <2>5. Lists(t.first, t.next, hv)
    <3>1. TakesOut(r.first, r.next, hu, 0, "cdDMA", t, hv)
      BY DEF TakesOut
    <3> HIDE DEF hu, t, hv
    <3> QED BY <2>2, <3>1, MineFacts, DeqLists
  <2> HIDE DEF hu, t, hv
  <2> QED BY <2>1, <2>3, <2>4, <2>5
<1>13. CASE User
  <2> DEFINE p == UserPriority
  <2>1. CASE "user" \in hung[p]
    <3>1. Unhung(p, "user")
      BY <1>13, <2>1 DEF User
    <3> QED BY <1>6, <3>1, MineFacts
  <2>2. CASE "user" \notin hung[p]
    <3> DEFINE r == sysEnqIntRP([first |-> first, next |-> next], p, "user")
               hu == [hung EXCEPT ![p] = @ \cup {"user"}]
    <3>1. first' = r.first /\ next' = r.next /\ hung' = hu
      BY <1>13, <2>2 DEF User, Sets, Hangs, FN
    <3>2. hu[0] \in {hung[0], hung[0] \cup {"user"}}
      BY <1>0, MineFacts DEF Lists
    <3>3. Lists(r.first, r.next, hu)
      <4>1. PutsIn(first, next, hung, p, "user", r, hu)
        BY DEF PutsIn
      <4> HIDE DEF r, hu
      <4> QED BY <1>0, <2>2, <4>1, MineFacts, EnqLists
    <3> HIDE DEF r, hu
    <3> QED BY <3>1, <3>2, <3>3 DEF HungInv
  <2> QED BY <2>1, <2>2
<1> QED BY <1>7, <1>8, <1>9, <1>10, <1>11, <1>12, <1>13 DEF Calls

LEMMA ChainsStart == ChainsInit => HungInv
<1> SUFFICES ASSUME ChainsInit PROVE HungInv
  OBVIOUS
<1>1. Priority = {0, 1, 2, 3}
  BY SMT DEF Priority
<1>2. /\ first[0] = "syscall" /\ first[1] = "t3" /\ first[2] = NoHandler /\ first[3] = "irq"
      /\ hung[0] = {"syscall"} /\ hung[1] = {"t0", "t3"} /\ hung[2] = {} /\ hung[3] = {"irq"}
  BY <1>1 DEF ChainsInit, Timers
<1>3. /\ next["t3"] = "t0" /\ next["t0"] = NoHandler /\ next["syscall"] = NoHandler
      /\ next["irq"] = NoHandler
  BY DEF ChainsInit, Handler, Timers
<1>4. Typed(first, next)
  <2>1. first \in [Priority -> Places]
    BY <1>1, <1>2 DEF ChainsInit, Places, Handler, Timers
  <2>2. next \in [Handler -> Places]
    BY DEF ChainsInit, Places, Handler, Timers
  <2> QED BY <2>1, <2>2 DEF Typed
<1>5. hung \in [Priority -> SUBSET Handler]
  <2> DEFINE f(p) == CASE p = 0 -> {"syscall"} [] p = 1 -> Timers [] p = 2 -> {} [] p = 3 -> {"irq"}
  <2>0. hung = [p \in Priority |-> f(p)]
    BY DEF ChainsInit
  <2>1. DOMAIN hung = Priority /\ hung = [p \in Priority |-> hung[p]]
    <3> HIDE DEF f
    <3> QED BY <2>0
  <2> HIDE DEF f
  <2>2. \A p \in Priority : hung[p] \subseteq Handler
    BY <1>1, <1>2 DEF Handler, Timers
  <2> HIDE DEF Priority
  <2> QED BY <2>1, <2>2
<1>6. \A p \in Priority : hung[p] \subseteq Mine(p)
  BY <1>1, <1>2 DEF Mine, Timers
<1>7. ASSUME NEW p \in Priority PROVE Listed(first, next, hung, p)
  <2> DEFINE N == NoHandler
             a == first[p]
             b == IF p = 1 THEN "t0" ELSE N
  <2>1. Link(first, next, p, a, b, N, N)
    BY <1>1, <1>2, <1>3 DEF Link, NoHandler
  <2>2. Apart4(a, b, N, N)
    BY <1>1, <1>2 DEF Apart4, Places, Handler, Timers, NoHandler
  <2>3. hung[p] = {a, b, N, N} \ {N}
    BY <1>1, <1>2 DEF NoHandler
  <2>4. a \in Places /\ b \in Places /\ N \in Places
    BY <2>2 DEF Apart4
  <2> HIDE DEF a, b, N
  <2>5. N = NoHandler
    BY DEF N
  <2> QED BY <2>1, <2>2, <2>3, <2>4, <2>5, Zenon DEF Listed
<1>8. Lists(first, next, hung)
  BY <1>4, <1>5, <1>6, <1>7 DEF Lists
<1> QED BY <1>2, <1>8 DEF ChainsInit, HungInv, AtHung, Lines, Flags, Timers

(* The chains of exception handlers hold what is hung into them, and the   *)
(* walk is never at a handler that was taken out (kernel/vectors.s,        *)
(* handlers/setup.c), wherever the program's own handler goes.             *)
THEOREM ChainsKept == ChainsSpec => []ChainsAreKept
<1>1. HungInv => ChainsAreKept
  <2> SUFFICES ASSUME HungInv PROVE ChainsAreKept
    OBVIOUS
  <2>1. Lists(first, next, hung)
    BY DEF HungInv
  <2>2. NothingLost
    BY <2>1, ChainsOfLists DEF NothingLost
  <2>3. ChainsTypeOK
    BY <2>1 DEF HungInv, Lists, Typed, Places, AtHung, ChainsTypeOK, Lines, Flags
  <2> QED BY <2>2, <2>3 DEF ChainsAreKept
<1>2. HungInv /\ [ChainsNext]_chainVars => HungInv'
  <2> SUFFICES ASSUME HungInv, [ChainsNext]_chainVars PROVE HungInv'
    OBVIOUS
  <2>1. CASE Exception
    <3>1. at' = FirstFrom(0, first) /\ UNCHANGED <<chains, raised, mask, sio>>
      BY <2>1 DEF Exception
    <3>2. AtHung(at', hung)
      <4>1. Lists(first, next, hung)
        BY DEF HungInv
      <4> QED BY <3>1, <4>1, FirstIsHung
    <3> QED BY <3>1, <3>2 DEF HungInv, chains, sio, Lines, Flags
  <2>2. CASE Walk
    BY <2>2, WalkKeeps
  <2>3. CASE \E line \in Line : RaiseLine(line)
    BY <2>3 DEF RaiseLine, HungInv, chains, sio, Lines, Flags
  <2>4. CASE Calls
    BY <2>4, CallsKeep
  <2>5. CASE UNCHANGED chainVars
    BY <2>5 DEF chainVars, HungInv, chains, sio, Lines, Flags
  <2> QED BY <2>1, <2>2, <2>3, <2>4, <2>5 DEF ChainsNext
<1> QED BY <1>1, <1>2, ChainsStart, PTL DEF ChainsSpec

-----------------------------------------------------------------------------
(* Patches: what patch_hook makes of the codes it knows.                   *)

(* The code of a patch: what captures, writes to the kernel, leaves the    *)
(* critical section and returns are different words.  A counterpatch jumps *)
(* over or clears the captures, gives the same variables itself, and goes  *)
(* on before the section is left.                                          *)
Shape(p) ==
  /\ p.return \in Nat /\ p.return > 3 /\ p.jump \in Nat /\ p.exit \in Nat
  /\ p.kernel \subseteq 3 .. p.return - 1
  /\ \A h, i : <<h, i>> \in p.capture =>
       /\ h \in 0 .. i /\ i > 0 /\ (i \in p.zeros \/ i \in 4 .. p.jump + 2)
       /\ i # p.return /\ i \notin p.kernel /\ i # p.exit
  /\ \A v \in p.capture : \E h, i \in Nat : v = <<h, i>>
  /\ p.exit = 0 \/ (p.jump + 3 =< p.exit /\ p.exit < p.return)
  /\ p.exit \notin p.kernel /\ p.exit \notin p.nops /\ p.return \notin p.nops
  /\ (\A i \in p.kernel : i \notin p.nops) /\ 0 \notin p.nops
  /\ \A h, i : <<h, i>> \in p.capture => i \notin p.nops
  /\ p.gives = p.capture
  /\ 3 \in p.zeros /\ 2 \notin p.zeros /\ p.return \notin p.zeros
  /\ p.exit \notin p.zeros /\ p.return >= p.jump + 3

(* No word that writes to the kernel is left to run.                       *)
KernelLeftOut(p) == \A i \in p.kernel : i \in p.zeros \/ i \in 4 .. p.jump + 2

LEMMA TuplePairs == \A a, b, c, d : <<a, b>> = <<c, d>> <=> a = c /\ b = d
  OBVIOUS

LEMMA PatchesHaveShape ==
  \A n \in Replaced : Shape(B0patches[n]) /\ (n # "patch_card2_1" => KernelLeftOut(B0patches[n]))
<1> SUFFICES ASSUME NEW n \in Replaced
             PROVE  Shape(B0patches[n]) /\ (n # "patch_card2_1" => KernelLeftOut(B0patches[n]))
  OBVIOUS
<1> DEFINE p == B0patches[n]
<1>1. CASE n = "patch_card_info_1"
  <2>1. /\ p.jump = 0 /\ p.zeros = {3, 5} /\ p.exit = 0 /\ p.return = 9
        /\ p.gives = {} /\ p.capture = {}
        /\ p.kernel = {5} /\ p.nops = {2, 8, 10}
    BY <1>1 DEF B0patches, patch_card_info_1
  <2>2. \A v : v \notin p.capture
    BY <2>1
  <2> QED BY <1>1, <2>1, <2>2, SMT DEF Shape, KernelLeftOut
<1>2. CASE n = "patch_card2_1"
  <2>1. /\ p.jump = 9 /\ p.zeros = {3} /\ p.exit = 0 /\ p.return = 18
        /\ p.gives = {} /\ p.capture = {}
        /\ p.kernel = {12} /\ p.nops = {14, 17, 19}
    BY <1>2 DEF B0patches, patch_card2_1
  <2>2. \A v : v \notin p.capture
    BY <2>1
  <2> QED BY <1>2, <2>1, <2>2, SMT DEF Shape, KernelLeftOut
<1>3. CASE n = "patch_card2_2"
  <2>1. /\ p.jump = 9 /\ p.zeros = {3} /\ p.exit = 0 /\ p.return = 18
        /\ p.gives = {} /\ p.capture = {}
        /\ p.kernel = {9} /\ p.nops = {1, 8, 14, 17, 19}
    BY <1>3 DEF B0patches, patch_card2_2
  <2>2. \A v : v \notin p.capture
    BY <2>1
  <2> QED BY <1>3, <2>1, <2>2, SMT DEF Shape, KernelLeftOut
<1>4. CASE n = "patch_pad_1"
  <2>1. /\ p.jump = 11 /\ p.zeros = {3} /\ p.exit = 0 /\ p.return = 18
        /\ p.gives = {<<3, 4>>, <<6, 7>>} /\ p.capture = {<<3, 4>>, <<6, 7>>}
        /\ p.kernel = {8} /\ p.nops = {12, 14, 17, 19}
    BY <1>4 DEF B0patches, patch_pad_1
  <2>2. \A h, i : <<h, i>> \in p.capture <=> (h = 3 /\ i = 4) \/ (h = 6 /\ i = 7)
    BY <2>1, TuplePairs
  <2>3. \A v \in p.capture : \E h, i \in Nat : v = <<h, i>>
    BY <2>1
  <2> QED BY <1>4, <2>1, <2>2, <2>3, SMT DEF Shape, KernelLeftOut
<1>5. CASE n = "patch_pad_2"
  <2>1. /\ p.jump = 10 /\ p.zeros = {3} /\ p.exit = 0 /\ p.return = 17
        /\ p.gives = {<<1, 3>>, <<4, 7>>} /\ p.capture = {<<1, 3>>, <<4, 7>>}
        /\ p.kernel = {9} /\ p.nops = {13, 16, 18}
    BY <1>5 DEF B0patches, patch_pad_2
  <2>2. \A h, i : <<h, i>> \in p.capture <=> (h = 1 /\ i = 3) \/ (h = 4 /\ i = 7)
    BY <2>1, TuplePairs
  <2>3. \A v \in p.capture : \E h, i \in Nat : v = <<h, i>>
    BY <2>1
  <2> QED BY <1>5, <2>1, <2>2, <2>3, SMT DEF Shape, KernelLeftOut
<1>6. CASE n = "patch_pad_3"
  <2>1. /\ p.jump = 2 /\ p.zeros = {3} /\ p.exit = 0 /\ p.return = 11
        /\ p.gives = {} /\ p.capture = {}
        /\ p.kernel = {3} /\ p.nops = {7, 10, 12}
    BY <1>6 DEF B0patches, patch_pad_3
  <2>2. \A v : v \notin p.capture
    BY <2>1
  <2> QED BY <1>6, <2>1, <2>2, SMT DEF Shape, KernelLeftOut
<1>7. CASE n = "remove_ChgclrPAD_1"
  <2>1. /\ p.jump = 7 /\ p.zeros = {3} /\ p.exit = 11 /\ p.return = 16
        /\ p.gives = {} /\ p.capture = {}
        /\ p.kernel = {4} /\ p.nops = {2, 8, 10, 12, 15, 17}
    BY <1>7 DEF B0patches, remove_ChgclrPAD_1
  <2>2. \A v : v \notin p.capture
    BY <2>1
  <2> QED BY <1>7, <2>1, <2>2, SMT DEF Shape, KernelLeftOut
<1>8. CASE n = "remove_ChgclrPAD_2"
  <2>1. /\ p.jump = 5 /\ p.zeros = {3} /\ p.exit = 9 /\ p.return = 14
        /\ p.gives = {} /\ p.capture = {}
        /\ p.kernel = {4} /\ p.nops = {8, 10, 13, 15}
    BY <1>8 DEF B0patches, remove_ChgclrPAD_2
  <2>2. \A v : v \notin p.capture
    BY <2>1
  <2> QED BY <1>8, <2>1, <2>2, SMT DEF Shape, KernelLeftOut
<1>9. CASE n = "send_pad_1"
  <2>1. /\ p.jump = 15 /\ p.zeros = {3} /\ p.exit = 19 /\ p.return = 25
        /\ p.gives = {<<7, 8>>} /\ p.capture = {<<7, 8>>}
        /\ p.kernel = {11, 12} /\ p.nops = {5, 10, 16, 18, 20, 26}
    BY <1>9 DEF B0patches, send_pad_1
  <2>2. \A h, i : <<h, i>> \in p.capture <=> (h = 7 /\ i = 8)
    BY <2>1, TuplePairs
  <2>3. \A v \in p.capture : \E h, i \in Nat : v = <<h, i>>
    BY <2>1
  <2> QED BY <1>9, <2>1, <2>2, <2>3, SMT DEF Shape, KernelLeftOut
<1>10. CASE n = "send_pad_2"
  <2>1. /\ p.jump = 12 /\ p.zeros = {3} /\ p.exit = 16 /\ p.return = 22
        /\ p.gives = {<<3, 7>>} /\ p.capture = {<<3, 7>>}
        /\ p.kernel = {10, 13} /\ p.nops = {15, 17, 23}
    BY <1>10 DEF B0patches, send_pad_2
  <2>2. \A h, i : <<h, i>> \in p.capture <=> (h = 3 /\ i = 7)
    BY <2>1, TuplePairs
  <2>3. \A v \in p.capture : \E h, i \in Nat : v = <<h, i>>
    BY <2>1
  <2> QED BY <1>10, <2>1, <2>2, <2>3, SMT DEF Shape, KernelLeftOut
<1> QED BY <1>1, <1>2, <1>3, <1>4, <1>5, <1>6, <1>7, <1>8, <1>9, <1>10 DEF Replaced, B0patches

(* What each word of a patch's code does.                                  *)
LEMMA CodeWords ==
  ASSUME NEW p, Shape(p)
  PROVE  /\ DOMAIN Code(p) = 0 .. p.return + 1
         /\ Code(p)[0] # <<"nop">>
         /\ \A i \in 0 .. p.return + 1 :
              /\ Code(p)[i][1] = "kernel" <=> i \in p.kernel
              /\ Code(p)[i][1] = "capture" <=> \E h \in 0 .. i : <<h, i>> \in p.capture
              /\ Code(p)[i][1] = "exit" <=> i = p.exit /\ i > 0
              /\ Code(p)[i][1] = "return" <=> i = p.return
              /\ Code(p)[i][1] # "jump"
<1>1. DOMAIN Code(p) = 0 .. p.return + 1
  BY DEF Code
<1>2. ASSUME NEW i \in 0 .. p.return + 1
      PROVE  /\ Code(p)[i][1] = "kernel" <=> i \in p.kernel
             /\ Code(p)[i][1] = "capture" <=> \E h \in 0 .. i : <<h, i>> \in p.capture
             /\ Code(p)[i][1] = "exit" <=> i = p.exit /\ i > 0
             /\ Code(p)[i][1] = "return" <=> i = p.return
             /\ Code(p)[i][1] # "jump"
             /\ i = 0 => Code(p)[i] # <<"nop">>
  <2> DEFINE held(j) == \E h \in 0 .. j : <<h, j>> \in p.capture
  <2>1. Code(p)[i] =
          CASE i \in p.kernel -> <<"kernel">>
            [] held(i) -> <<"capture", CHOOSE h \in 0 .. i : <<h, i>> \in p.capture>>
            [] i = p.exit /\ i > 0 -> <<"exit">>
            [] i = p.return -> <<"return">>
            [] i \in p.nops -> <<"nop">>
            [] OTHER -> <<"own">>
    BY DEF Code
  <2>2. held(i) => i # p.return /\ i \notin p.kernel /\ i # p.exit /\ i \notin p.nops /\ i > 0
    BY DEF Shape
  <2>3. /\ i \in p.kernel => i # p.return /\ i # p.exit /\ i \notin p.nops /\ i > 0
        /\ i = p.exit /\ i > 0 => i # p.return /\ i \notin p.nops
        /\ i = p.return => i \notin p.nops /\ i > 0
        /\ i = 0 => i \notin p.nops
    BY DEF Shape
  <2> HIDE DEF held
  <2>4. CASE i \in p.kernel
    <3>1. Code(p)[i] = <<"kernel">> /\ ~held(i) /\ ~(i = p.exit /\ i > 0) /\ i # p.return
      BY <2>1, <2>2, <2>3, <2>4
    <3> QED BY <2>3, <2>4, <3>1 DEF held
  <2>5. CASE held(i)
    <3>1. Code(p)[i][1] = "capture"
      BY <2>1, <2>2, <2>5
    <3> QED BY <2>2, <2>5, <3>1 DEF held
  <2>6. CASE i = p.exit /\ i > 0
    <3>1. Code(p)[i] = <<"exit">> /\ ~held(i) /\ i \notin p.kernel
      BY <2>1, <2>2, <2>3, <2>6
    <3> QED BY <2>2, <2>3, <2>6, <3>1 DEF held
  <2>7. CASE i = p.return
    <3>1. Code(p)[i] = <<"return">> /\ ~held(i) /\ i \notin p.kernel /\ i # p.exit
      BY <2>1, <2>2, <2>3, <2>7
    <3> QED BY <2>2, <2>3, <2>7, <3>1 DEF held
  <2>8. CASE i \in p.nops
    <3>1. Code(p)[i] = <<"nop">> /\ ~held(i) /\ i \notin p.kernel /\ ~(i = p.exit /\ i > 0) /\ i # p.return
      BY <2>1, <2>2, <2>3, <2>8
    <3> QED BY <2>2, <2>3, <2>8, <3>1 DEF held
  <2>9. CASE ~(i \in p.kernel) /\ ~held(i) /\ ~(i = p.exit /\ i > 0) /\ i # p.return /\ i \notin p.nops
    <3>1. Code(p)[i] = <<"own">>
      BY <2>1, <2>9
    <3> QED BY <2>9, <3>1 DEF held
  <2> QED BY <2>4, <2>5, <2>6, <2>7, <2>8, <2>9
<1>3. 0 \in 0 .. p.return + 1
  BY DEF Shape
<1> QED BY <1>1, <1>2, <1>3

(* What is left of the code runs nothing of what the patch was for.        *)
LEMMA RewrittenRuns ==
  ASSUME NEW p, Shape(p), NEW code, code = Rewritten(Code(p), p)
  PROVE  /\ DOMAIN code = 0 .. p.return + 1
         /\ Patched(code) /\ code # Code(p)
         /\ {j \in WordsRun(code) : code[j][1] = "capture"} = {}
         /\ KernelLeftOut(p) => ~\E i \in WordsRun(code) : code[i][1] = "kernel"
         /\ ~\E i \in DOMAIN code : code[i][1] = "exit" /\ i \notin WordsRun(code)
<1>1. /\ DOMAIN code = 0 .. p.return + 1
      /\ \A i \in 0 .. p.return + 1 :
           code[i] = IF i \in {0, 1} \cup p.zeros THEN <<"nop">>
                     ELSE IF i = 2 THEN <<"jump", p.jump>> ELSE Code(p)[i]
  <2>1. \A i : i = 2 => i \notin {0, 1} \cup p.zeros
    BY DEF Shape
  <2> QED BY <2>1, CodeWords DEF Rewritten
<1>2. 0 \in DOMAIN code /\ 1 \in DOMAIN code /\ 3 \in DOMAIN code /\ 3 \in p.zeros
  BY <1>1 DEF Shape
<1>3. Patched(code)
  BY <1>1, <1>2 DEF Patched
<1>4. code # Code(p)
  <2>1. code[0] = <<"nop">>
    BY <1>1, <1>2
  <2> QED BY <2>1, CodeWords
<1>5. \A i \in 0 .. p.return + 1 :
        /\ code[i][1] = "kernel" => i \in p.kernel /\ i \notin p.zeros
        /\ code[i][1] = "capture" => i \notin p.zeros /\ \E h \in 0 .. i : <<h, i>> \in p.capture
        /\ code[i][1] = "exit" => i = p.exit /\ i > 0
        /\ code[i][1] = "return" <=> i = p.return
        /\ code[i][1] = "jump" <=> i = 2
  <2> SUFFICES ASSUME NEW i \in 0 .. p.return + 1
        PROVE /\ code[i][1] = "kernel" => i \in p.kernel /\ i \notin p.zeros
              /\ code[i][1] = "capture" => i \notin p.zeros /\ \E h \in 0 .. i : <<h, i>> \in p.capture
              /\ code[i][1] = "exit" => i = p.exit /\ i > 0
              /\ code[i][1] = "return" <=> i = p.return
              /\ code[i][1] = "jump" <=> i = 2
    OBVIOUS
  <2>1. p.return \notin {0, 1, 2} \cup p.zeros /\ 2 \notin p.zeros
    BY DEF Shape
  <2>2. CASE i \in {0, 1} \cup p.zeros
    BY <1>1, <2>1, <2>2
  <2>3. CASE i = 2
    BY <1>1, <2>1, <2>3
  <2>4. CASE i \notin {0, 1, 2} \cup p.zeros
    <3>1. code[i] = Code(p)[i]
      BY <1>1, <2>4
    <3> QED BY <2>4, <3>1, CodeWords
  <2> QED BY <2>2, <2>3, <2>4
<1>6. p.return \in DOMAIN code /\ 2 \in 0 .. p.return + 1
  BY <1>1 DEF Shape
<1>7. (CHOOSE i \in DOMAIN code : code[i][1] = "return") = p.return
  BY <1>1, <1>5, <1>6
<1>8. \A i \in 0 .. p.return : i \in WordsRun(code) <=> i \notin 4 .. p.jump + 2
  <2> SUFFICES ASSUME NEW i \in 0 .. p.return
               PROVE  i \in WordsRun(code) <=> i \notin 4 .. p.jump + 2
    OBVIOUS
  <2>1. i \in WordsRun(code) <=>
          ~\E j \in 0 .. i : code[j][1] = "jump" /\ i > j + 1 /\ i < j + 1 + code[j][2]
    BY <1>7 DEF WordsRun
  <2>2. \A j \in 0 .. i : code[j][1] = "jump" <=> j = 2
    BY <1>5 DEF Shape
  <2>3. code[2][2] = p.jump
    BY <1>1, <1>6 DEF Shape
  <2>4. (\E j \in 0 .. i : code[j][1] = "jump" /\ i > j + 1 /\ i < j + 1 + code[j][2])
          <=> (i >= 2 /\ i > 3 /\ i < 3 + p.jump)
    BY <2>2, <2>3 DEF Shape
  <2> QED BY <2>1, <2>4 DEF Shape
<1>9. WordsRun(code) \subseteq 0 .. p.return
  BY <1>7 DEF WordsRun
<1>10. 0 .. p.return \subseteq 0 .. p.return + 1
  BY DEF Shape
<1>11. {j \in WordsRun(code) : code[j][1] = "capture"} = {}
  <2> SUFFICES ASSUME NEW j \in WordsRun(code), code[j][1] = "capture" PROVE FALSE
    OBVIOUS
  <2>1. j \notin p.zeros /\ \E h \in 0 .. j : <<h, j>> \in p.capture
    BY <1>5, <1>9, <1>10
  <2>2. j \in 4 .. p.jump + 2
    BY <2>1 DEF Shape
  <2> QED BY <2>2, <1>8, <1>9
<1>12. ASSUME KernelLeftOut(p), NEW i \in WordsRun(code), code[i][1] = "kernel" PROVE FALSE
  BY <1>12, <1>5, <1>8, <1>9, <1>10 DEF KernelLeftOut
<1>13. ASSUME NEW i \in DOMAIN code, code[i][1] = "exit", i \notin WordsRun(code) PROVE FALSE
  <2>1. i = p.exit /\ i > 0
    BY <1>1, <1>5, <1>13
  <2>2. i \in 0 .. p.return /\ i \notin 4 .. p.jump + 2
    BY <2>1 DEF Shape
  <2> QED BY <2>2, <1>8, <1>13
<1> QED BY <1>1, <1>3, <1>4, <1>11, <1>12, <1>13

(* No two of the codes that are known are the same.                        *)
LEMMA CodesDiffer ==
  ASSUME NEW n \in Replaced, NEW m \in Replaced, Code(B0patches[n]) = Code(B0patches[m])
  PROVE  n = m
<1> DEFINE p == B0patches[n]
           q == B0patches[m]
<1>1. /\ Shape(p) /\ Shape(q)
      /\ p.return = q.return
  <2>1. Shape(p) /\ Shape(q)
    BY PatchesHaveShape
  <2> HIDE DEF p, q
  <2>2. 0 .. p.return + 1 = 0 .. q.return + 1
    BY <2>1, CodeWords DEF p, q
  <2>3. p.return \in Nat /\ q.return \in Nat
    BY <2>1 DEF Shape
  <2>4. p.return + 1 \in 0 .. q.return + 1 /\ q.return + 1 \in 0 .. p.return + 1
    BY <2>2, <2>3
  <2> QED BY <2>1, <2>3, <2>4
<1>2. 9 \in 0 .. 19 /\ 12 \in 0 .. 19 /\ 8 \in 0 .. 19
  OBVIOUS
<1>3. \A i \in 0 .. p.return + 1 : i \in p.kernel <=> i \in q.kernel
  <2> HIDE DEF p, q
  <2> QED BY <1>1, CodeWords DEF p, q
<1>4. \A k \in Replaced :
        B0patches[k].return =
          CASE k = "patch_card_info_1" -> 9
            [] k \in {"patch_card2_1", "patch_card2_2", "patch_pad_1"} -> 18
            [] k = "patch_pad_2" -> 17
            [] k = "patch_pad_3" -> 11
            [] k = "remove_ChgclrPAD_1" -> 16
            [] k = "remove_ChgclrPAD_2" -> 14
            [] k = "send_pad_1" -> 25
            [] OTHER -> 22
  BY DEF Replaced, B0patches, patch_card_info_1, patch_card2_1, patch_card2_2, patch_pad_1,
         patch_pad_2, patch_pad_3, remove_ChgclrPAD_1, remove_ChgclrPAD_2, send_pad_1, send_pad_2
<1>5. /\ B0patches["patch_card2_1"].kernel = {12}
      /\ B0patches["patch_card2_2"].kernel = {9}
      /\ B0patches["patch_pad_1"].kernel = {8}
  BY DEF B0patches, patch_card2_1, patch_card2_2, patch_pad_1
<1>6. Replaced = {"patch_card_info_1", "patch_card2_1", "patch_card2_2", "patch_pad_1",
                  "patch_pad_2", "patch_pad_3", "remove_ChgclrPAD_1", "remove_ChgclrPAD_2",
                  "send_pad_1", "send_pad_2"}
  BY DEF Replaced, B0patches
<1>7. CASE p.return = 18
  <2> DEFINE S == {"patch_card2_1", "patch_card2_2", "patch_pad_1"}
  <2>1. \A k \in Replaced : k \in S \/ B0patches[k].return # 18
    BY <1>6 DEF B0patches, patch_card_info_1, patch_pad_2, patch_pad_3, remove_ChgclrPAD_1,
                remove_ChgclrPAD_2, send_pad_1, send_pad_2
  <2>2. \A i \in 0 .. 19 : i \in p.kernel <=> i \in q.kernel
    BY <1>3, <1>7
  <2>3. \A i \in {8, 9, 12} : i \in p.kernel <=> i \in q.kernel
    BY <1>2, <2>2
  <2>4. n \in S /\ m \in S
    <3> HIDE DEF S
    <3> QED BY <1>1, <1>7, <2>1
  <2> QED BY <1>5, <2>3, <2>4
<1>8. CASE p.return # 18
  BY <1>1, <1>4, <1>6, <1>8
<1> QED BY <1>7, <1>8

(* A code that is not of a known patch is none of theirs, is not taken for *)
(* one rewritten, and neither captures nor leaves the critical section.    *)
LEMMA PlainIsKnown ==
  ASSUME NEW site \in Sites
  PROVE  /\ ~Patched(PlainCode[site])
         /\ {n \in Replaced : PlainCode[site] = KnownCodes[n]} = Replaced \cap {site}
         /\ site \in Replaced => PlainCode[site] = Code(B0patches[site])
         /\ site \notin Replaced =>
              /\ {j \in WordsRun(PlainCode[site]) : PlainCode[site][j][1] = "capture"} = {}
              /\ ~\E i \in DOMAIN PlainCode[site] : PlainCode[site][i][1] = "exit"
<1> DEFINE code == PlainCode[site]
<1>1. \A n \in Replaced : KnownCodes[n] = Code(B0patches[n])
  BY DEF KnownCodes, Replaced
<1>2. CASE site \in Replaced
  <2>1. code = Code(B0patches[site])
    BY <1>1, <1>2 DEF PlainCode, Replaced
  <2>2. code[0] # <<"nop">>
    BY <2>1, <1>2, PatchesHaveShape, CodeWords
  <2>3. {n \in Replaced : code = KnownCodes[n]} = Replaced \cap {site}
    BY <1>1, <1>2, <2>1, CodesDiffer
  <2> QED BY <1>2, <2>1, <2>2, <2>3 DEF Patched
<1>3. CASE site \notin Replaced
  <2>1. code = [i \in 0 .. 3 |->
                 <<CASE i = 1 -> "kernel" [] i = 2 -> "return" [] OTHER -> "own", site>>]
    BY <1>3 DEF PlainCode, Replaced
  <2>2. /\ DOMAIN code = 0 .. 3 /\ 0 \in 0 .. 3
        /\ \A i \in 0 .. 3 : code[i][1] \in {"kernel", "return", "own"}
        /\ code[0] = <<"own", site>>
    BY <2>1
  <2>3. code[0] # <<"nop">>
    BY <2>2
  <2>4. \A n \in Replaced : code # KnownCodes[n]
    <3> SUFFICES ASSUME NEW n \in Replaced, code = KnownCodes[n] PROVE FALSE
      OBVIOUS
    <3>1. Shape(B0patches[n])
      BY PatchesHaveShape
    <3>2. 0 .. 3 = 0 .. B0patches[n].return + 1
      <4>1. DOMAIN Code(B0patches[n]) = 0 .. B0patches[n].return + 1
        BY <3>1, CodeWords
      <4>2. code = Code(B0patches[n])
        BY <1>1
      <4> HIDE DEF code
      <4> QED BY <2>2, <4>1, <4>2
    <3>3. B0patches[n].return \in Nat /\ B0patches[n].return > 3
      BY <3>1 DEF Shape
    <3>4. B0patches[n].return + 1 \in 0 .. 3
      BY <3>2, <3>3
    <3> QED BY <3>3, <3>4
  <2>5. (CHOOSE i \in DOMAIN code : code[i][1] = "return") = 2
    <3>1. \A i \in 0 .. 3 : code[i][1] = "return" <=> i = 2
      BY <2>1
    <3>2. 2 \in 0 .. 3
      OBVIOUS
    <3> QED BY <2>2, <3>1, <3>2
  <2>6. WordsRun(code) \subseteq 0 .. 3
    <3>1. WordsRun(code) \subseteq 0 .. 2
      BY <2>5 DEF WordsRun
    <3> QED BY <3>1
  <2> QED BY <1>3, <2>2, <2>3, <2>4, <2>6 DEF Patched
<1> QED BY <1>2, <1>3

-----------------------------------------------------------------------------
(* A site holds its code, or what patch_hook left of a known one: then its *)
(* variables hold what it was given.                                       *)
AsLoaded(site) == words[site] = PlainCode[site] /\ variables[site] = {}
AsLeft(site) ==
  /\ site \in Replaced
  /\ words[site] = Rewritten(Code(B0patches[site]), B0patches[site])
  /\ variables[site] = {<<v, "kernel">> : v \in B0patches[site].capture}

PatchInv ==
  /\ DOMAIN words = Sites /\ DOMAIN variables = Sites
  /\ \A site \in Sites : AsLoaded(site) \/ AsLeft(site)
  /\ instead \subseteq {B0patches[n].sets : n \in Replaced}
  /\ touched \cap Replaced \subseteq {"patch_card2_1"} \cap Sites
  /\ critical = {}
  /\ PatchedSitesReturn

LEMMA PatchStarts == PatchInit => PatchInv
<1>1. PatchInit => \A site \in Sites : AsLoaded(site)
  BY DEF PatchInit, AsLoaded
<1>2. PatchInit => DOMAIN words = Sites /\ DOMAIN variables = Sites
  BY DEF PatchInit, PlainCode
<1> QED BY <1>1, <1>2 DEF PatchInit, PatchInv, PatchedSitesReturn

(* patch_hook: the site is one it knows, one it has rewritten, or neither. *)
LEMMA HookGives ==
  ASSUME PatchInv, NEW site \in Sites, patch_hook(site)
  PROVE  /\ \/ words' = words
            \/ /\ AsLoaded(site) /\ site \in Replaced
               /\ words' = [words EXCEPT ![site] =
                              Rewritten(Code(B0patches[site]), B0patches[site])]
         /\ AsLoaded(site) /\ site \in Replaced => words' # words
         /\ instead' \subseteq {B0patches[n].sets : n \in Replaced}
         /\ stopped' => stopped \/ ~(Sites \subseteq Replaced \cup C0patches)
<1> DEFINE code == words[site]
           known == {n \in DOMAIN B0patches : code = KnownCodes[n]}
<1>1. \/ Patched(code) /\ UNCHANGED <<words, instead, stopped>>
      \/ /\ ~Patched(code) /\ known # {}
         /\ words' = [words EXCEPT ![site] =
                        Rewritten(code, B0patches[CHOOSE n \in known : TRUE])]
         /\ instead' \subseteq instead \cup {B0patches[CHOOSE n \in known : TRUE].sets}
         /\ UNCHANGED stopped
      \/ /\ ~Patched(code) /\ known = {}
         /\ stopped' = (site \notin C0patches /\ ~Permissive)
         /\ UNCHANGED <<words, instead>>
  BY DEF patch_hook
<1>2. CASE AsLeft(site)
  <2>1. Shape(B0patches[site])
    BY <1>2, PatchesHaveShape DEF AsLeft
  <2>2. Patched(code)
    BY <1>2, <2>1, RewrittenRuns DEF AsLeft
  <2>3. code # PlainCode[site]
    BY <1>2, <2>1, RewrittenRuns, PlainIsKnown DEF AsLeft
  <2> QED BY <1>1, <2>2, <2>3 DEF AsLoaded, PatchInv
<1>3. CASE AsLoaded(site) /\ site \in Replaced
  <2>1. known = {site} /\ ~Patched(code) /\ code = Code(B0patches[site])
    BY <1>3, PlainIsKnown DEF AsLoaded, Replaced
  <2>2. (CHOOSE n \in known : TRUE) = site
    BY <2>1
  <2>3. /\ words' = [words EXCEPT ![site] = Rewritten(code, B0patches[site])]
        /\ instead' \subseteq instead \cup {B0patches[site].sets}
        /\ UNCHANGED stopped
    BY <1>1, <2>1, <2>2
  <2>4. Rewritten(code, B0patches[site]) # code
    BY <2>1, <1>3, PatchesHaveShape, RewrittenRuns
  <2>5. words' # words
    BY <2>3, <2>4 DEF PatchInv
  <2> QED BY <1>3, <2>1, <2>3, <2>5 DEF PatchInv
<1>4. CASE AsLoaded(site) /\ site \notin Replaced
  <2>1. known = {} /\ ~Patched(code)
    BY <1>4, PlainIsKnown DEF AsLoaded, Replaced
  <2> QED BY <1>1, <1>4, <2>1 DEF PatchInv
<1> QED BY <1>2, <1>3, <1>4 DEF PatchInv

LEMMA CallsKeepPatches == PatchInv /\ PatchNext => PatchInv'
<1> SUFFICES ASSUME PatchInv, NEW site \in Sites, CallTable(site) PROVE PatchInv'
  BY DEF PatchNext
<1>1. ~stopped /\ patch_hook(site)
  BY DEF CallTable
<1>2. DOMAIN words' = Sites /\ \A s \in Sites \ {site} : words'[s] = words[s]
  BY <1>1, HookGives DEF PatchInv
<1>3. PatchedSitesReturn'
  BY <1>1, HookGives DEF PatchedSitesReturn, PatchInv
<1>4. instead' \subseteq {B0patches[n].sets : n \in Replaced}
  BY <1>1, HookGives
<1>5. CASE stopped'
  <2>1. UNCHANGED <<variables, touched, critical>>
    BY <1>5 DEF CallTable
  <2>2. words' = words
    <3>1. ASSUME AsLoaded(site) /\ site \in Replaced PROVE FALSE
      <4>1. UNCHANGED stopped
        <5>1. {n \in Replaced : words[site] = KnownCodes[n]} # {}
          BY <3>1, PlainIsKnown DEF AsLoaded
        <5> QED BY <5>1, <1>1 DEF patch_hook, Replaced
      <4> QED BY <1>1, <1>5, <4>1
    <3> QED BY <3>1, <1>1, HookGives
  <2> QED BY <1>3, <1>4, <2>1, <2>2 DEF PatchInv, AsLoaded, AsLeft
<1>6. CASE ~stopped'
  <2> DEFINE code == words'[site]
             runs == WordsRun(code)
             captured == {<<code[i][2], i>> : i \in {j \in runs : code[j][1] = "capture"}}
             left == {v \in variables[site] \cup Given(site) : v[1] \notin captured}
  <2>1. /\ variables' = [variables EXCEPT ![site] = left \cup {<<v, "game">> : v \in captured}]
        /\ touched' = IF \E i \in runs : code[i][1] = "kernel"
                      THEN touched \cup {site} ELSE touched
        /\ critical' = IF \E i \in DOMAIN code : code[i][1] = "exit" /\ i \notin runs
                       THEN critical \cup {site} ELSE critical
    BY <1>6 DEF CallTable
  <2>2. CASE site \in Replaced
    <3> DEFINE p == B0patches[site]
    <3>1. Shape(p) /\ (site # "patch_card2_1" => KernelLeftOut(p))
      BY <2>2, PatchesHaveShape
    <3>2. code = Rewritten(Code(p), p)
      <4>1. CASE AsLeft(site)
        <5>1. words[site] = Rewritten(Code(p), p) /\ ~AsLoaded(site)
          BY <4>1, <3>1, <2>2, RewrittenRuns, PlainIsKnown DEF AsLeft, AsLoaded
        <5> QED BY <5>1, <1>1, HookGives
      <4>2. CASE AsLoaded(site)
        BY <4>2, <2>2, <1>1, HookGives DEF PatchInv
      <4> QED BY <4>1, <4>2 DEF PatchInv
    <3> HIDE DEF code
    <3>3. {j \in runs : code[j][1] = "capture"} = {}
      BY <3>1, <3>2, RewrittenRuns
    <3>4. captured = {}
      <4> DEFINE Cs == {j \in runs : code[j][1] = "capture"}
      <4> HIDE DEF Cs
      <4>1. captured = {<<code[i][2], i>> : i \in Cs} /\ Cs = {}
        BY <3>3 DEF Cs
      <4> QED BY <4>1
    <3>5. critical' = {}
      BY <3>1, <3>2, <2>1, RewrittenRuns DEF PatchInv
    <3>6. touched' \cap Replaced \subseteq {"patch_card2_1"} \cap Sites
      BY <3>1, <3>2, <2>1, RewrittenRuns DEF PatchInv
    <3>7. variables[site] \cup Given(site) = {<<v, "kernel">> : v \in p.capture}
      <4>1. p.gives = p.capture
        BY <3>1 DEF Shape
      <4>2. CASE AsLeft(site)
        <5>1. words'[site] = words[site]
          BY <4>2, <3>2 DEF AsLeft, code
        <5> QED BY <4>2, <5>1 DEF AsLeft, Given
      <4>3. CASE AsLoaded(site)
        <5>1. words[site] # words'[site]
          <6>1. words[site] = Code(p)
            BY <4>3, <2>2, PlainIsKnown DEF AsLoaded
          <6> QED BY <3>1, <3>2, <6>1, RewrittenRuns DEF code
        <5>2. Given(site) = {<<v, "kernel">> : v \in p.gives}
          BY <5>1 DEF Given
        <5> QED BY <4>1, <4>3, <5>2 DEF AsLoaded
      <4> QED BY <4>2, <4>3 DEF PatchInv
    <3>8. variables'[site] = {<<v, "kernel">> : v \in p.capture}
      <4> HIDE DEF captured
      <4>1. left = variables[site] \cup Given(site) /\ {<<v, "game">> : v \in captured} = {}
        BY <3>4
      <4>2. variables'[site] = left \cup {<<v, "game">> : v \in captured}
        BY <2>1 DEF PatchInv
      <4> QED BY <3>7, <4>1, <4>2
    <3>9. AsLeft(site)'
      BY <2>2, <3>2, <3>8 DEF AsLeft, code
    <3>10. \A s \in Sites \ {site} : AsLoaded(s)' \/ AsLeft(s)'
      BY <1>2, <2>1 DEF PatchInv, AsLoaded, AsLeft
    <3>11. DOMAIN variables' = Sites
      BY <2>1 DEF PatchInv
    <3> QED BY <1>2, <1>3, <1>4, <3>5, <3>6, <3>9, <3>10, <3>11 DEF PatchInv
  <2>3. CASE site \notin Replaced
    <3>1. words' = words /\ AsLoaded(site)
      BY <2>3, <1>1, HookGives DEF PatchInv, AsLeft
    <3>2. code = PlainCode[site]
      BY <3>1 DEF AsLoaded
    <3> HIDE DEF code
    <3>3. {j \in runs : code[j][1] = "capture"} = {}
      BY <2>3, <3>2, PlainIsKnown
    <3>4. captured = {}
      <4> DEFINE Cs == {j \in runs : code[j][1] = "capture"}
      <4> HIDE DEF Cs
      <4>1. captured = {<<code[i][2], i>> : i \in Cs} /\ Cs = {}
        BY <3>3 DEF Cs
      <4> QED BY <4>1
    <3>5. critical' = {}
      BY <2>3, <3>2, <2>1, PlainIsKnown DEF PatchInv
    <3>6. touched' \cap Replaced \subseteq {"patch_card2_1"} \cap Sites
      BY <2>1, <2>3 DEF PatchInv
    <3>7. left = {} /\ {<<v, "game">> : v \in captured} = {}
      BY <3>1, <3>4 DEF Given, AsLoaded
    <3>8. AsLoaded(site)'
      <4> HIDE DEF captured, left
      <4> QED BY <2>1, <3>1, <3>7 DEF AsLoaded, PatchInv
    <3>9. \A s \in Sites \ {site} : AsLoaded(s)' \/ AsLeft(s)'
      BY <1>2, <2>1 DEF PatchInv, AsLoaded, AsLeft
    <3>10. DOMAIN variables' = Sites
      BY <2>1 DEF PatchInv
    <3> QED BY <1>2, <1>3, <1>4, <3>5, <3>6, <3>8, <3>9, <3>10 DEF PatchInv
  <2> QED BY <2>2, <2>3
<1> QED BY <1>5, <1>6

(* What follows for every code a game may have but patch_card2_1, whose    *)
(* branch is a word too short.                                             *)
LEMMA PatchInvShows == PatchInv /\ "patch_card2_1" \notin Sites => PatchesReplaced
<1> SUFFICES ASSUME PatchInv, "patch_card2_1" \notin Sites PROVE PatchesReplaced
  OBVIOUS
<1>1. \A site \in Sites : DOMAIN words[site] = DOMAIN PlainCode[site]
  <2> SUFFICES ASSUME NEW site \in Sites, AsLeft(site)
               PROVE  DOMAIN words[site] = DOMAIN PlainCode[site]
    BY DEF PatchInv, AsLoaded
  <2>1. Shape(B0patches[site]) /\ PlainCode[site] = Code(B0patches[site])
    BY PatchesHaveShape, PlainIsKnown DEF AsLeft
  <2> QED BY <2>1, RewrittenRuns, CodeWords DEF AsLeft
<1>2. \A site \in Sites : variables[site] \subseteq
       (IF site \in Replaced THEN B0patches[site].capture ELSE {}) \X {"kernel", "game"}
  <2> SUFFICES ASSUME NEW site \in Sites, NEW v \in variables[site]
               PROVE  v \in (IF site \in Replaced THEN B0patches[site].capture ELSE {})
                              \X {"kernel", "game"}
    OBVIOUS
  <2>1. AsLeft(site)
    BY DEF PatchInv, AsLoaded
  <2>2. PICK u \in B0patches[site].capture : v = <<u, "kernel">>
    BY <2>1 DEF AsLeft
  <2> QED BY <2>1, <2>2 DEF AsLeft
<1>3. PatchTypeOK
  BY <1>1, <1>2 DEF PatchInv, PatchTypeOK
<1>4. KernelUntouched
  BY DEF KernelUntouched, PatchInv
<1>5. VariablesHoldFunctions
  BY DEF VariablesHoldFunctions, PatchInv, AsLoaded, AsLeft
<1> QED BY <1>3, <1>4, <1>5 DEF PatchesReplaced, PatchInv, SectionIsLeft

-----------------------------------------------------------------------------
(* ExceptionSlots: the words of the handler as they may have been left.    *)

(* After is what its definition says of it.                                *)
LEMMA AfterUnfolds ==
  ASSUME NEW L \in Nat, Len(HandlerWords) = L
  PROVE  /\ After[0] = Registers
         /\ \A i \in 1 .. L : After[i] = Does(After[i - 1], vectors[i - 1])
<1> DEFINE E(n, g) == [i \in 0 .. n |-> IF i = 0 THEN Registers
                                       ELSE Does(g[i - 1], vectors[i - 1])]
           Bad == {n \in Nat : \A g : g # E(n, g)}
<1>1. Bad = {}
  <2> SUFFICES ASSUME Bad # {} PROVE FALSE
    OBVIOUS
  <2>1. PICK n \in Bad : \A m \in Bad : n =< m
    BY LeastExists
  <2>2. n # 0
    <3> SUFFICES ASSUME n = 0 PROVE FALSE
      OBVIOUS
    <3> DEFINE g == [i \in 0 .. 0 |-> Registers]
    <3>1. g = E(0, g)
      OBVIOUS
    <3> QED BY <2>1, <3>1
  <2>3. PICK g : g = E(n - 1, g)
    <3>1. n - 1 \in Nat /\ ~(n =< n - 1)
      BY <2>1, <2>2
    <3>2. n - 1 \notin Bad
      BY <2>1, <3>1
    <3> QED BY <3>1, <3>2
  <2> DEFINE h == [i \in 0 .. n |-> IF i = n THEN Does(g[n - 1], vectors[n - 1]) ELSE g[i]]
  <2>4. \A i \in 0 .. n - 1 : g[i] = IF i = 0 THEN Registers ELSE Does(g[i - 1], vectors[i - 1])
    BY <2>3
  <2>5. ASSUME NEW i \in 0 .. n
        PROVE  h[i] = IF i = 0 THEN Registers ELSE Does(h[i - 1], vectors[i - 1])
    <3>1. i # 0 => i - 1 \in 0 .. n - 1 /\ i - 1 \in 0 .. n /\ i - 1 # n
      BY <2>1
    <3>2. i # n => i \in 0 .. n - 1
      BY <2>1
    <3> QED BY <2>2, <2>4, <3>1, <3>2
  <2>6. h = E(n, h)
    BY <2>5
  <2> QED BY <2>1, <2>6
<1> DEFINE f == CHOOSE g : g = E(L, g)
<1>2. f = E(L, f)
  <2>1. \E g : g = E(L, g)
    BY <1>1
  <2> HIDE DEF E
  <2> QED BY <2>1
<1>3. After = f
  BY DEF After
<1> HIDE DEF f
<1>4. \A i \in 0 .. L : f[i] = IF i = 0 THEN Registers ELSE Does(f[i - 1], vectors[i - 1])
  BY <1>2
<1> QED BY <1>3, <1>4

-----------------------------------------------------------------------------
(* The registers, as the words leave them when nothing is lost.            *)
Kept(k0, late, v0, v1, ra, saved, called) ==
  [k0 |-> k0, late |-> late, v0 |-> v0, v1 |-> v1, at |-> "program", ra |-> ra,
   saved |-> saved, called |-> called, lost |-> FALSE]

(* What each kind of word does to them.                                    *)
LEMMA PlainDoes ==
  ASSUME NEW k0, NEW v0, NEW v1, NEW ra, NEW saved, NEW called, NEW w \in {Nop, Own}
  PROVE  Does(Kept(k0, "none", v0, v1, ra, saved, called), w)
           = Kept(k0, "none", v0, v1, ra, saved, called)
<1> DEFINE r == Kept(k0, "none", v0, v1, ra, saved, called)
<1>1. w[1] \in {"nop", "own"}
  BY DEF Nop, Own
<1>2. r.late = "none"
  BY DEF Kept
<1> HIDE DEF r
<1> QED BY <1>1, <1>2 DEF Does, Arrived, r

LEMMA NopDoes ==
  ASSUME NEW k0, NEW v0, NEW v1, NEW ra, NEW saved, NEW called,
         NEW late,
         late # "none"
  PROVE  Does(Kept(k0, late, v0, v1, ra, saved, called), Nop)
           = Kept(late, "none", v0, v1, ra, saved, called)
<1> DEFINE w == Nop
           r == Kept(k0, late, v0, v1, ra, saved, called)
<1>1. w[1] = "nop"
  BY DEF Nop
<1>2. /\ r.k0 = k0 /\ r.late = late /\ r.v0 = v0 /\ r.v1 = v1
      /\ r.saved = saved /\ r.called = called /\ r.lost = FALSE
  BY DEF Kept
<1>3. Does(r, w) = [r EXCEPT !.k0 = late, !.late = "none"]
  <2> HIDE DEF w, r
  <2> QED BY <1>1, <1>2 DEF Does, Arrived
<1> DEFINE e == Does(r, w)
<1> HIDE DEF w
<1>4. DOMAIN e = DOMAIN r /\ e = [field \in DOMAIN e |-> e[field]]
  BY <1>3
<1>5. /\ e.k0 = late /\ e.late = "none" /\ e.v0 = v0 /\ e.v1 = v1
      /\ e.at = "program" /\ e.ra = ra /\ e.saved = saved
      /\ e.called = called /\ e.lost = FALSE
  BY <1>3 DEF Kept
<1> HIDE DEF e
<1>6. e = Kept(late, "none", v0, v1, ra, saved, called)
  BY <1>4, <1>5 DEF Kept
<1> QED BY <1>6 DEF e, w

LEMMA LoadDoes ==
  ASSUME NEW k0, NEW v0, NEW v1, NEW ra, NEW saved, NEW called,
         NEW to
  PROVE  Does(Kept(k0, "none", v0, v1, ra, saved, called), Load(k0, to))
           = Kept(k0, to, v0, v1, ra, saved, called)
<1> DEFINE w == Load(k0, to)
           r == Kept(k0, "none", v0, v1, ra, saved, called)
<1>1. w[1] = "load" /\ w[2] = k0 /\ w[3] = to
  BY DEF Load
<1>2. /\ r.k0 = k0 /\ r.late = "none" /\ r.v0 = v0 /\ r.v1 = v1
      /\ r.saved = saved /\ r.called = called /\ r.lost = FALSE
  BY DEF Kept
<1>3. Does(r, w) = [r EXCEPT !.late = to]
  <2> HIDE DEF w, r
  <2> QED BY <1>1, <1>2 DEF Does, Arrived
<1> DEFINE e == Does(r, w)
<1> HIDE DEF w
<1>4. DOMAIN e = DOMAIN r /\ e = [field \in DOMAIN e |-> e[field]]
  BY <1>3
<1>5. /\ e.k0 = k0 /\ e.late = to /\ e.v0 = v0 /\ e.v1 = v1
      /\ e.at = "program" /\ e.ra = ra /\ e.saved = saved
      /\ e.called = called /\ e.lost = FALSE
  BY <1>3 DEF Kept
<1> HIDE DEF e
<1>6. e = Kept(k0, to, v0, v1, ra, saved, called)
  BY <1>4, <1>5 DEF Kept
<1> QED BY <1>6 DEF e, w

LEMMA PutDoes ==
  ASSUME NEW k0, NEW v0, NEW v1, NEW ra, NEW saved, NEW called,
         NEW to, NEW from,
         from \in {"any", k0}
  PROVE  Does(Kept(k0, "none", v0, v1, ra, saved, called), Put(from, to))
           = Kept(to, "none", v0, v1, ra, saved, called)
<1> DEFINE w == Put(from, to)
           r == Kept(k0, "none", v0, v1, ra, saved, called)
<1>1. w[1] = "set" /\ w[2] = from /\ w[3] = to
  BY DEF Put
<1>2. /\ r.k0 = k0 /\ r.late = "none" /\ r.v0 = v0 /\ r.v1 = v1
      /\ r.saved = saved /\ r.called = called /\ r.lost = FALSE
  BY DEF Kept
<1>3. Does(r, w) = [r EXCEPT !.k0 = to, !.late = "none"]
  <2> HIDE DEF w, r
  <2> QED BY <1>1, <1>2 DEF Does, Arrived
<1> DEFINE e == Does(r, w)
<1> HIDE DEF w
<1>4. DOMAIN e = DOMAIN r /\ e = [field \in DOMAIN e |-> e[field]]
  BY <1>3
<1>5. /\ e.k0 = to /\ e.late = "none" /\ e.v0 = v0 /\ e.v1 = v1
      /\ e.at = "program" /\ e.ra = ra /\ e.saved = saved
      /\ e.called = called /\ e.lost = FALSE
  BY <1>3 DEF Kept
<1> HIDE DEF e
<1>6. e = Kept(to, "none", v0, v1, ra, saved, called)
  BY <1>4, <1>5 DEF Kept
<1> QED BY <1>6 DEF e, w

LEMMA SaveDoes ==
  ASSUME NEW k0, NEW v0, NEW v1, NEW ra, NEW saved, NEW called,
         NEW x,
         k0 = "registers",
         \/ x = "at" \/ (x = "v0" /\ v0 = "program") \/ (x = "v1" /\ v1 = "program")
         \/ (x = "ra" /\ ra = "program") \/ (x = "epc" /\ v1 = "epc")
  PROVE  Does(Kept(k0, "none", v0, v1, ra, saved, called), Save(x))
           = Kept(k0, "none", v0, v1, ra, saved \cup {x}, called)
<1> DEFINE w == Save(x)
           r == Kept(k0, "none", v0, v1, ra, saved, called)
<1>1. w[1] = "save" /\ w[2] = x
  BY DEF Save
<1>2. /\ r.k0 = k0 /\ r.late = "none" /\ r.v0 = v0 /\ r.v1 = v1
      /\ r.saved = saved /\ r.called = called /\ r.lost = FALSE
  BY DEF Kept
<1>3. Does(r, w) = [r EXCEPT !.saved = saved \cup {x}, !.lost = FALSE]
  <2>1. [r EXCEPT !.saved = r.saved \cup {x},
                  !.lost = r.lost \/ r.k0 # "registers" \/ (IF x = "epc" THEN r.v1 # "epc"
                                                                      ELSE r[x] # "program")]
          = [r EXCEPT !.saved = saved \cup {x}, !.lost = FALSE]
    <3>1. (r.lost \/ r.k0 # "registers" \/ (IF x = "epc" THEN r.v1 # "epc" ELSE r[x] # "program"))
             = FALSE
      BY DEF Kept
    <3> QED BY <1>2, <3>1
  <2> HIDE DEF w, r
  <2>2. Does(r, w) =
          IF x = "epc"
          THEN [r EXCEPT !.saved = r.saved \cup {"epc"},
                         !.lost = r.lost \/ r.k0 # "registers" \/ r.v1 # "epc"]
          ELSE [r EXCEPT !.saved = r.saved \cup {x},
                         !.lost = r.lost \/ r.k0 # "registers" \/ r[x] # "program"]
    BY <1>1, <1>2 DEF Does, Arrived
  <2> QED BY <2>1, <2>2
<1> DEFINE e == Does(r, w)
<1> HIDE DEF w
<1>4. DOMAIN e = DOMAIN r /\ e = [field \in DOMAIN e |-> e[field]]
  BY <1>3
<1>5. /\ e.k0 = k0 /\ e.late = "none" /\ e.v0 = v0 /\ e.v1 = v1
      /\ e.at = "program" /\ e.ra = ra /\ e.saved = saved \cup {x}
      /\ e.called = called /\ e.lost = FALSE
  BY <1>3 DEF Kept
<1> HIDE DEF e
<1>6. e = Kept(k0, "none", v0, v1, ra, saved \cup {x}, called)
  BY <1>4, <1>5 DEF Kept
<1> QED BY <1>6 DEF e, w

LEMMA CauseDoes ==
  ASSUME NEW k0, NEW v0, NEW v1, NEW ra, NEW saved, NEW called
  PROVE  Does(Kept(k0, "none", v0, v1, ra, saved, called), <<"mfc0_v0">>)
           = Kept(k0, "none", "cause", v1, ra, saved, called)
<1> DEFINE w == <<"mfc0_v0">>
           r == Kept(k0, "none", v0, v1, ra, saved, called)
<1>1. w[1] = "mfc0_v0"
  OBVIOUS
<1>2. /\ r.k0 = k0 /\ r.late = "none" /\ r.v0 = v0 /\ r.v1 = v1
      /\ r.saved = saved /\ r.called = called /\ r.lost = FALSE
  BY DEF Kept
<1>3. Does(r, w) = [r EXCEPT !.v0 = "cause"]
  <2> HIDE DEF w, r
  <2> QED BY <1>1, <1>2 DEF Does, Arrived
<1> DEFINE e == Does(r, w)
<1> HIDE DEF w
<1>4. DOMAIN e = DOMAIN r /\ e = [field \in DOMAIN e |-> e[field]]
  BY <1>3
<1>5. /\ e.k0 = k0 /\ e.late = "none" /\ e.v0 = "cause" /\ e.v1 = v1
      /\ e.at = "program" /\ e.ra = ra /\ e.saved = saved
      /\ e.called = called /\ e.lost = FALSE
  BY <1>3 DEF Kept
<1> HIDE DEF e
<1>6. e = Kept(k0, "none", "cause", v1, ra, saved, called)
  BY <1>4, <1>5 DEF Kept
<1> QED BY <1>6 DEF e, w

LEMMA BothDoes ==
  ASSUME NEW k0, NEW v0, NEW v1, NEW ra, NEW saved, NEW called
  PROVE  Does(Kept(k0, "none", v0, v1, ra, saved, called), <<"getCop0CauseAndEPC">>)
           = Kept(k0, "none", "cause", "epc", "handler", saved, called)
<1> DEFINE w == <<"getCop0CauseAndEPC">>
           r == Kept(k0, "none", v0, v1, ra, saved, called)
<1>1. w[1] = "getCop0CauseAndEPC"
  OBVIOUS
<1>2. /\ r.k0 = k0 /\ r.late = "none" /\ r.v0 = v0 /\ r.v1 = v1
      /\ r.saved = saved /\ r.called = called /\ r.lost = FALSE
  BY DEF Kept
<1>3. Does(r, w) = [r EXCEPT !.v0 = "cause", !.v1 = "epc", !.ra = "handler"]
  <2> HIDE DEF w, r
  <2> QED BY <1>1, <1>2 DEF Does, Arrived
<1> DEFINE e == Does(r, w)
<1> HIDE DEF w
<1>4. DOMAIN e = DOMAIN r /\ e = [field \in DOMAIN e |-> e[field]]
  BY <1>3
<1>5. /\ e.k0 = k0 /\ e.late = "none" /\ e.v0 = "cause" /\ e.v1 = "epc"
      /\ e.at = "program" /\ e.ra = "handler" /\ e.saved = saved
      /\ e.called = called /\ e.lost = FALSE
  BY <1>3 DEF Kept
<1> HIDE DEF e
<1>6. e = Kept(k0, "none", "cause", "epc", "handler", saved, called)
  BY <1>4, <1>5 DEF Kept
<1> QED BY <1>6 DEF e, w

LEMMA ExcodeDoes ==
  ASSUME NEW k0, NEW v0, NEW v1, NEW ra, NEW saved, NEW called,
         v0 = "cause"
  PROVE  Does(Kept(k0, "none", v0, v1, ra, saved, called), <<"excode">>)
           = Kept(k0, "none", v0, v1, ra, saved, called)
<1> DEFINE w == <<"excode">>
           r == Kept(k0, "none", v0, v1, ra, saved, called)
<1>1. w[1] = "excode"
  OBVIOUS
<1>2. /\ r.k0 = k0 /\ r.late = "none" /\ r.v0 = v0 /\ r.v1 = v1
      /\ r.saved = saved /\ r.called = called /\ r.lost = FALSE
  BY DEF Kept
<1>3. Does(r, w) = [r EXCEPT !.lost = FALSE]
  <2> HIDE DEF w, r
  <2>1. (r.lost \/ r.v0 # "cause") = FALSE
    BY <1>2
  <2>2. Does(r, w) = [r EXCEPT !.lost = r.lost \/ r.v0 # "cause"]
    BY <1>1, <1>2 DEF Does, Arrived
  <2> QED BY <2>1, <2>2
<1> DEFINE e == Does(r, w)
<1> HIDE DEF w
<1>4. DOMAIN e = DOMAIN r /\ e = [field \in DOMAIN e |-> e[field]]
  BY <1>3
<1>5. /\ e.k0 = k0 /\ e.late = "none" /\ e.v0 = v0 /\ e.v1 = v1
      /\ e.at = "program" /\ e.ra = ra /\ e.saved = saved
      /\ e.called = called /\ e.lost = FALSE
  BY <1>3 DEF Kept
<1> HIDE DEF e
<1>6. e = Kept(k0, "none", v0, v1, ra, saved, called)
  BY <1>4, <1>5 DEF Kept
<1> QED BY <1>6 DEF e, w

LEMMA HighDoes ==
  ASSUME NEW k0, NEW v0, NEW v1, NEW ra, NEW saved, NEW called,
         NEW f
  PROVE  Does(Kept(k0, "none", v0, v1, ra, saved, called), <<"high", f>>)
           = Kept(k0, "none", <<"high", f>>, v1, ra, saved, called)
<1> DEFINE w == <<"high", f>>
           r == Kept(k0, "none", v0, v1, ra, saved, called)
<1>1. w[1] = "high" /\ w[2] = f
  OBVIOUS
<1>2. /\ r.k0 = k0 /\ r.late = "none" /\ r.v0 = v0 /\ r.v1 = v1
      /\ r.saved = saved /\ r.called = called /\ r.lost = FALSE
  BY DEF Kept
<1>3. Does(r, w) = [r EXCEPT !.v0 = <<"high", f>>]
  <2> HIDE DEF r
  <2> QED BY <1>1, <1>2 DEF Does, Arrived
<1> DEFINE e == Does(r, w)
<1> HIDE DEF w
<1>4. DOMAIN e = DOMAIN r /\ e = [field \in DOMAIN e |-> e[field]]
  BY <1>3
<1>5. /\ e.k0 = k0 /\ e.late = "none" /\ e.v0 = <<"high", f>> /\ e.v1 = v1
      /\ e.at = "program" /\ e.ra = ra /\ e.saved = saved
      /\ e.called = called /\ e.lost = FALSE
  BY <1>3 DEF Kept
<1> HIDE DEF e
<1>6. e = Kept(k0, "none", <<"high", f>>, v1, ra, saved, called)
  BY <1>4, <1>5 DEF Kept
<1> QED BY <1>6 DEF e, w

LEMMA LowDoes ==
  ASSUME NEW k0, NEW v0, NEW v1, NEW ra, NEW saved, NEW called,
         NEW f,
         v0 = <<"high", f>>
  PROVE  Does(Kept(k0, "none", v0, v1, ra, saved, called), <<"low", f>>)
           = Kept(k0, "none", <<"low", f>>, v1, ra, saved, called)
<1> DEFINE w == <<"low", f>>
           r == Kept(k0, "none", v0, v1, ra, saved, called)
<1>1. w[1] = "low" /\ w[2] = f
  OBVIOUS
<1>2. /\ r.k0 = k0 /\ r.late = "none" /\ r.v0 = v0 /\ r.v1 = v1
      /\ r.saved = saved /\ r.called = called /\ r.lost = FALSE
  BY DEF Kept
<1>3. Does(r, w) = [r EXCEPT !.v0 = <<"low", f>>]
  <2> HIDE DEF r
  <2> QED BY <1>1, <1>2 DEF Does, Arrived
<1> DEFINE e == Does(r, w)
<1> HIDE DEF w
<1>4. DOMAIN e = DOMAIN r /\ e = [field \in DOMAIN e |-> e[field]]
  BY <1>3
<1>5. /\ e.k0 = k0 /\ e.late = "none" /\ e.v0 = <<"low", f>> /\ e.v1 = v1
      /\ e.at = "program" /\ e.ra = ra /\ e.saved = saved
      /\ e.called = called /\ e.lost = FALSE
  BY <1>3 DEF Kept
<1> HIDE DEF e
<1>6. e = Kept(k0, "none", <<"low", f>>, v1, ra, saved, called)
  BY <1>4, <1>5 DEF Kept
<1> QED BY <1>6 DEF e, w

LEMMA CallDoes ==
  ASSUME NEW k0, NEW v0, NEW v1, NEW ra, NEW saved, NEW called,
         NEW f,
         v0 = <<"low", f>>
  PROVE  Does(Kept(k0, "none", v0, v1, ra, saved, called), <<"jalr", f>>)
           = Kept(k0, "none", v0, v1, "handler", saved, called \cup {f})
<1> DEFINE w == <<"jalr", f>>
           r == Kept(k0, "none", v0, v1, ra, saved, called)
<1>1. w[1] = "jalr" /\ w[2] = f
  OBVIOUS
<1>2. /\ r.k0 = k0 /\ r.late = "none" /\ r.v0 = v0 /\ r.v1 = v1
      /\ r.saved = saved /\ r.called = called /\ r.lost = FALSE
  BY DEF Kept
<1>3. Does(r, w) = [r EXCEPT !.ra = "handler", !.called = called \cup {f}, !.lost = FALSE]
  <2> HIDE DEF w, r
  <2>1. (r.lost \/ r.v0 # <<"low", f>>) = FALSE
    BY <1>2
  <2>2. Does(r, w) = [r EXCEPT !.ra = "handler", !.called = r.called \cup {f},
                               !.lost = r.lost \/ r.v0 # <<"low", f>>]
    BY <1>1, <1>2 DEF Does, Arrived
  <2> QED BY <1>2, <2>1, <2>2
<1> DEFINE e == Does(r, w)
<1> HIDE DEF w
<1>4. DOMAIN e = DOMAIN r /\ e = [field \in DOMAIN e |-> e[field]]
  BY <1>3
<1>5. /\ e.k0 = k0 /\ e.late = "none" /\ e.v0 = v0 /\ e.v1 = v1
      /\ e.at = "program" /\ e.ra = "handler" /\ e.saved = saved
      /\ e.called = called \cup {f} /\ e.lost = FALSE
  BY <1>3 DEF Kept
<1> HIDE DEF e
<1>6. e = Kept(k0, "none", v0, v1, "handler", saved, called \cup {f})
  BY <1>4, <1>5 DEF Kept
<1> QED BY <1>6 DEF e, w

-----------------------------------------------------------------------------
(* The words of the handler, one by one.                                   *)

(* A row that begins with s, of n members, and goes on with t.             *)
Joined(S, s, t, u, n, k) ==
  /\ u \in Seq(S) /\ Len(u) = k
  /\ \A i \in Nat : 1 =< i /\ i =< n => u[i] = s[i]
  /\ \A i \in Nat : n < i /\ i =< k => u[i] = t[i - n]

LEMMA Joins ==
  ASSUME NEW S, NEW s \in Seq(S), NEW t \in Seq(S), NEW n, NEW m, NEW k,
         n = Len(s), m = Len(t), k = n + m
  PROVE  Joined(S, s, t, s \o t, n, k)
BY DEF Joined

(* The first words as they are loaded.                                     *)
Loaded(memory) ==
  /\ memory[0] = Nop /\ memory[1] = Nop /\ memory[2] = Nop /\ memory[3] = Nop
  /\ memory[4] = Put("any", "globals") /\ memory[5] = Load("globals", "processes")
  /\ memory[6] = Nop /\ memory[7] = Load("processes", "thread") /\ memory[8] = Nop
  /\ memory[9] = Put("thread", "registers")
  /\ memory[10] = Save("at") /\ memory[11] = Save("v0") /\ memory[12] = Save("v1")
  /\ memory[13] = Save("ra")

(* As patch_gte_2 leaves them.                                             *)
Replacement(memory) ==
  /\ memory[0] = Nop /\ memory[1] = Nop
  /\ memory[2] = Put("any", "globals") /\ memory[3] = Load("globals", "processes")
  /\ memory[4] = Nop /\ memory[5] = Load("processes", "thread") /\ memory[6] = Nop
  /\ memory[7] = Put("thread", "registers")
  /\ memory[8] = Save("at") /\ memory[9] = Save("v0") /\ memory[10] = Save("v1")
  /\ memory[11] = Save("ra") /\ memory[12] = <<"mfc0_v0">> /\ memory[13] = Nop

(* The words nobody replaces.                                              *)
Rest(memory) ==
  /\ memory[14] = <<"getCop0CauseAndEPC">> /\ memory[15] = Nop /\ memory[16] = <<"excode">>
  /\ \A i \in 17 .. 26 : memory[i] = Own
  /\ memory[27] = Save("epc")
  /\ \A i \in 36 .. 43 : memory[i] = Nop

Filled4(memory, begin, a, b, c, d) ==
  /\ memory[begin] = a /\ memory[begin + 1] = b
  /\ memory[begin + 2] = c /\ memory[begin + 3] = d

LEMMA HandlerIs ==
  /\ Len(HandlerWords) = 44
  /\ DOMAIN Words(HandlerWords, 0) = 0 .. 43
  /\ Words(HandlerWords, 0) = [i \in 0 .. 43 |-> Words(HandlerWords, 0)[i]]
  /\ Loaded(Words(HandlerWords, 0)) /\ Rest(Words(HandlerWords, 0))
  /\ Filled4(Words(HandlerWords, 0), 28, Nop, Nop, Nop, Nop)
  /\ Filled4(Words(HandlerWords, 0), 32, Nop, Nop, Nop, Nop)
<1> DEFINE W == {Nop, Own, <<"getCop0CauseAndEPC">>, <<"excode">>, Put("any", "globals"),
                 Put("thread", "registers"), Load("globals", "processes"),
                 Load("processes", "thread"), Save("at"), Save("v0"), Save("v1"), Save("ra"),
                 Save("epc")}
           asks == <<<<"getCop0CauseAndEPC">>, Nop, <<"excode">>>>
           own == [i \in 1 .. 10 |-> Own]
           epc == <<Save("epc")>>
           s1 == Nops \o FindRegisters
           s2 == s1 \o SaveFour
           s3 == s2 \o asks
           s4 == s3 \o own
           s5 == s4 \o epc
           s6 == s5 \o Nops
           s7 == s6 \o Nops
           s8 == s7 \o Nops
           s9 == s8 \o Nops
<1>1. /\ Nops \in Seq(W) /\ Len(Nops) = 4
      /\ Nops[1] = Nop /\ Nops[2] = Nop /\ Nops[3] = Nop /\ Nops[4] = Nop
  BY DEF Nops
<1>2. /\ FindRegisters \in Seq(W) /\ Len(FindRegisters) = 6
      /\ FindRegisters[1] = Put("any", "globals") /\ FindRegisters[2] = Load("globals", "processes")
      /\ FindRegisters[3] = Nop /\ FindRegisters[4] = Load("processes", "thread")
      /\ FindRegisters[5] = Nop /\ FindRegisters[6] = Put("thread", "registers")
  BY DEF FindRegisters
<1>3. /\ SaveFour \in Seq(W) /\ Len(SaveFour) = 4
      /\ SaveFour[1] = Save("at") /\ SaveFour[2] = Save("v0")
      /\ SaveFour[3] = Save("v1") /\ SaveFour[4] = Save("ra")
  BY DEF SaveFour
<1>4. /\ asks \in Seq(W) /\ Len(asks) = 3
      /\ asks[1] = <<"getCop0CauseAndEPC">> /\ asks[2] = Nop /\ asks[3] = <<"excode">>
  OBVIOUS
<1>5. own \in Seq(W) /\ Len(own) = 10 /\ \A i \in 1 .. 10 : own[i] = Own
  OBVIOUS
<1>6. epc \in Seq(W) /\ Len(epc) = 1 /\ epc[1] = Save("epc")
  OBVIOUS
<1>7. HandlerWords = s9
  BY DEF HandlerWords
<1> HIDE DEF W, asks, own, epc, s1, s2, s3, s4, s5, s6, s7, s8, s9
<1>8. Joined(W, Nops, FindRegisters, s1, 4, 10)
  <2>1. 10 = 4 + 6
    OBVIOUS
  <2> QED BY <1>1, <1>2, <2>1, Joins DEF s1
<1>9. Joined(W, s1, SaveFour, s2, 10, 14)
  <2>1. s1 \in Seq(W) /\ Len(s1) = 10
    BY <1>8 DEF Joined
  <2>2. 14 = 10 + 4
    OBVIOUS
  <2> QED BY <2>1, <2>2, <1>3, Joins DEF s2
<1>10. Joined(W, s2, asks, s3, 14, 17)
  <2>1. s2 \in Seq(W) /\ Len(s2) = 14
    BY <1>9 DEF Joined
  <2>2. 17 = 14 + 3
    OBVIOUS
  <2> QED BY <2>1, <2>2, <1>4, Joins DEF s3
<1>11. Joined(W, s3, own, s4, 17, 27)
  <2>1. s3 \in Seq(W) /\ Len(s3) = 17
    BY <1>10 DEF Joined
  <2>2. 27 = 17 + 10
    OBVIOUS
  <2> QED BY <2>1, <2>2, <1>5, Joins DEF s4
<1>12. Joined(W, s4, epc, s5, 27, 28)
  <2>1. s4 \in Seq(W) /\ Len(s4) = 27
    BY <1>11 DEF Joined
  <2>2. 28 = 27 + 1
    OBVIOUS
  <2> QED BY <2>1, <2>2, <1>6, Joins DEF s5
<1>13. Joined(W, s5, Nops, s6, 28, 32)
  <2>1. s5 \in Seq(W) /\ Len(s5) = 28
    BY <1>12 DEF Joined
  <2>2. 32 = 28 + 4
    OBVIOUS
  <2> QED BY <2>1, <2>2, <1>1, Joins DEF s6
<1>14. Joined(W, s6, Nops, s7, 32, 36)
  <2>1. s6 \in Seq(W) /\ Len(s6) = 32
    BY <1>13 DEF Joined
  <2>2. 36 = 32 + 4
    OBVIOUS
  <2> QED BY <2>1, <2>2, <1>1, Joins DEF s7
<1>15. Joined(W, s7, Nops, s8, 36, 40)
  <2>1. s7 \in Seq(W) /\ Len(s7) = 36
    BY <1>14 DEF Joined
  <2>2. 40 = 36 + 4
    OBVIOUS
  <2> QED BY <2>1, <2>2, <1>1, Joins DEF s8
<1>16. Joined(W, s8, Nops, s9, 40, 44)
  <2>1. s8 \in Seq(W) /\ Len(s8) = 40
    BY <1>15 DEF Joined
  <2>2. 44 = 40 + 4
    OBVIOUS
  <2> QED BY <2>1, <2>2, <1>1, Joins DEF s9
<1>17. \A i \in 0 .. 43 : Words(HandlerWords, 0)[i] = s9[i + 1]
  BY <1>7, <1>16 DEF Words, Joined
<1>18. \A i \in Nat : 1 =< i /\ i =< 28 => s9[i] = s5[i]
  <2>1. \A i \in Nat : 1 =< i /\ i =< 28 => s7[i] = s5[i]
    BY <1>13, <1>14 DEF Joined
  <2>2. \A i \in Nat : 1 =< i /\ i =< 28 => s8[i] = s5[i]
    <3>1. \A i \in Nat : 1 =< i /\ i =< 36 => s8[i] = s7[i]
      BY <1>15 DEF Joined
    <3> QED BY <2>1, <3>1
  <2> QED BY <2>2, <1>16 DEF Joined
<1>19. \A i \in 29 .. 44 : s9[i] = Nop
  <2> SUFFICES ASSUME NEW i \in 29 .. 44 PROVE s9[i] = Nop
    OBVIOUS
  <2>1. CASE i \in {29, 30, 31, 32}
    <3>1. s6[i] = Nop
      BY <2>1, <1>1, <1>13 DEF Joined
    <3>2. s7[i] = Nop
      <4>1. s7[i] = s6[i]
        BY <2>1, <1>14 DEF Joined
      <4> QED BY <3>1, <4>1
    <3>3. s8[i] = Nop
      BY <2>1, <3>2, <1>15 DEF Joined
    <3> QED BY <2>1, <3>3, <1>16 DEF Joined
  <2>2. CASE i \in {33, 34, 35, 36}
    <3>1. s7[i] = Nop
      BY <2>2, <1>1, <1>14 DEF Joined
    <3>2. s8[i] = Nop
      BY <2>2, <3>1, <1>15 DEF Joined
    <3> QED BY <2>2, <3>2, <1>16 DEF Joined
  <2>3. CASE i \in {37, 38, 39, 40}
    <3>1. s8[i] = Nop
      BY <2>3, <1>1, <1>15 DEF Joined
    <3> QED BY <2>3, <3>1, <1>16 DEF Joined
  <2>4. CASE i \in {41, 42, 43, 44}
    BY <2>4, <1>1, <1>16 DEF Joined
  <2> QED BY <2>1, <2>2, <2>3, <2>4
<1>20. \A i \in Nat : 1 =< i /\ i =< 17 => s9[i] = s3[i]
  <2>1. \A i \in Nat : 1 =< i /\ i =< 17 => s5[i] = s3[i]
    BY <1>11, <1>12 DEF Joined
  <2> QED BY <2>1, <1>18
<1>21. /\ s9[18] = Own /\ s9[19] = Own /\ s9[20] = Own /\ s9[21] = Own /\ s9[22] = Own
       /\ s9[23] = Own /\ s9[24] = Own /\ s9[25] = Own /\ s9[26] = Own /\ s9[27] = Own
  <2>1. /\ s4[18] = own[1] /\ s4[19] = own[2] /\ s4[20] = own[3] /\ s4[21] = own[4]
        /\ s4[22] = own[5] /\ s4[23] = own[6] /\ s4[24] = own[7] /\ s4[25] = own[8]
        /\ s4[26] = own[9] /\ s4[27] = own[10]
    BY <1>11 DEF Joined
  <2>2. \A i \in 18 .. 27 : s9[i] = s4[i]
    <3>1. \A i \in 18 .. 27 : s5[i] = s4[i]
      BY <1>12 DEF Joined
    <3> QED BY <3>1, <1>18
  <2> QED BY <2>1, <2>2, <1>5
<1>22. s9[28] = Save("epc")
  <2>1. s5[28] = epc[1]
    BY <1>12 DEF Joined
  <2> QED BY <2>1, <1>6, <1>18
<1>23. /\ s9[15] = asks[1] /\ s9[16] = asks[2] /\ s9[17] = asks[3]
       /\ s9[11] = SaveFour[1] /\ s9[12] = SaveFour[2] /\ s9[13] = SaveFour[3]
       /\ s9[14] = SaveFour[4]
       /\ s9[5] = FindRegisters[1] /\ s9[6] = FindRegisters[2] /\ s9[7] = FindRegisters[3]
       /\ s9[8] = FindRegisters[4] /\ s9[9] = FindRegisters[5] /\ s9[10] = FindRegisters[6]
       /\ s9[1] = Nop /\ s9[2] = Nop /\ s9[3] = Nop /\ s9[4] = Nop
  <2>1. s3[15] = asks[1] /\ s3[16] = asks[2] /\ s3[17] = asks[3]
    BY <1>10 DEF Joined
  <2>2. /\ s2[11] = SaveFour[1] /\ s2[12] = SaveFour[2] /\ s2[13] = SaveFour[3]
        /\ s2[14] = SaveFour[4]
    BY <1>9 DEF Joined
  <2>3. /\ s1[5] = FindRegisters[1] /\ s1[6] = FindRegisters[2] /\ s1[7] = FindRegisters[3]
        /\ s1[8] = FindRegisters[4] /\ s1[9] = FindRegisters[5] /\ s1[10] = FindRegisters[6]
    BY <1>8 DEF Joined
  <2>4. s1[1] = Nop /\ s1[2] = Nop /\ s1[3] = Nop /\ s1[4] = Nop
    BY <1>1, <1>8 DEF Joined
  <2>5. \A i \in 1 .. 14 : s3[i] = s2[i]
    BY <1>10 DEF Joined
  <2>6. \A i \in 1 .. 10 : s2[i] = s1[i]
    BY <1>9 DEF Joined
  <2>7. \A i \in 1 .. 10 : s3[i] = s1[i]
    BY <2>5, <2>6
  <2> QED BY <2>1, <2>2, <2>3, <2>4, <2>5, <2>7, <1>20
<1>24. Loaded(Words(HandlerWords, 0))
  <2>1. \A i \in 0 .. 13 : Words(HandlerWords, 0)[i] = s9[i + 1]
    BY <1>17
  <2> QED BY <2>1, <1>2, <1>3, <1>23 DEF Loaded
<1>25. Rest(Words(HandlerWords, 0))
  <2> DEFINE h == Words(HandlerWords, 0)
  <2> HIDE DEF h
  <2>1. \A i \in 0 .. 43 : h[i] = s9[i + 1]
    BY <1>17 DEF h
  <2>2. h[14] = <<"getCop0CauseAndEPC">> /\ h[15] = Nop /\ h[16] = <<"excode">>
    <3>1. h[14] = s9[15] /\ h[15] = s9[16] /\ h[16] = s9[17]
      BY <2>1
    <3> QED BY <3>1, <1>4, <1>23
  <2>3. /\ h[17] = Own /\ h[18] = Own /\ h[19] = Own /\ h[20] = Own /\ h[21] = Own
        /\ h[22] = Own /\ h[23] = Own /\ h[24] = Own /\ h[25] = Own /\ h[26] = Own
        /\ h[27] = Save("epc")
    BY <2>1, <1>21, <1>22
  <2>4. \A i \in 36 .. 43 : h[i] = Nop
    <3>1. \A i \in 36 .. 43 : i + 1 \in 29 .. 44 /\ i \in 0 .. 43
      OBVIOUS
    <3> QED BY <2>1, <3>1, <1>19
  <2> QED BY <2>2, <2>3, <2>4 DEF Rest, h
<1>26. Filled4(Words(HandlerWords, 0), 28, Nop, Nop, Nop, Nop)
      /\ Filled4(Words(HandlerWords, 0), 32, Nop, Nop, Nop, Nop)
  BY <1>17, <1>19 DEF Filled4
<1>27. Len(HandlerWords) = 44 /\ DOMAIN Words(HandlerWords, 0) = 0 .. 43
      /\ Words(HandlerWords, 0) = [i \in 0 .. 43 |-> Words(HandlerWords, 0)[i]]
  BY <1>7, <1>16 DEF Words, Joined
<1> QED BY <1>24, <1>25, <1>26, <1>27

-----------------------------------------------------------------------------
(* Running the words.                                                      *)

Four == {"at", "v0", "v1", "ra"}
AtSlots == Kept("registers", "none", "cause", "epc", "handler", Four \cup {"epc"}, {})

LEMMA AfterSteps ==
  /\ After[0] = Registers
  /\ \A i \in 1 .. 44 : After[i] = Does(After[i - 1], vectors[i - 1])
BY HandlerIs, AfterUnfolds

LEMMA RegistersKept ==
  Registers = Kept("any", "none", "program", "program", "program", {}, {})
BY DEF Registers, Kept

LEMMA LoadedRuns ==
  ASSUME Loaded(vectors)
  PROVE  After[14] = Kept("registers", "none", "program", "program", "program", Four, {})
<1>0. After[0] = Kept("any", "none", "program", "program", "program", {}, {})
  BY AfterSteps, RegistersKept
<1>1. After[1] = Kept("any", "none", "program", "program", "program", {}, {})
  <2>1. After[1] = Does(After[0], vectors[0])
    BY AfterSteps
  <2>2. vectors[0] = Nop
    BY DEF Loaded
  <2> QED BY <1>0, <2>1, <2>2, PlainDoes
<1>2. After[2] = Kept("any", "none", "program", "program", "program", {}, {})
  <2>1. After[2] = Does(After[1], vectors[1])
    BY AfterSteps
  <2>2. vectors[1] = Nop
    BY DEF Loaded
  <2> QED BY <1>1, <2>1, <2>2, PlainDoes
<1>3. After[3] = Kept("any", "none", "program", "program", "program", {}, {})
  <2>1. After[3] = Does(After[2], vectors[2])
    BY AfterSteps
  <2>2. vectors[2] = Nop
    BY DEF Loaded
  <2> QED BY <1>2, <2>1, <2>2, PlainDoes
<1>4. After[4] = Kept("any", "none", "program", "program", "program", {}, {})
  <2>1. After[4] = Does(After[3], vectors[3])
    BY AfterSteps
  <2>2. vectors[3] = Nop
    BY DEF Loaded
  <2> QED BY <1>3, <2>1, <2>2, PlainDoes
<1>5. After[5] = Kept("globals", "none", "program", "program", "program", {}, {})
  <2>1. After[5] = Does(After[4], vectors[4])
    BY AfterSteps
  <2>2. vectors[4] = Put("any", "globals")
    BY DEF Loaded
  <2> QED BY <1>4, <2>1, <2>2, PutDoes
<1>6. After[6] = Kept("globals", "processes", "program", "program", "program", {}, {})
  <2>1. After[6] = Does(After[5], vectors[5])
    BY AfterSteps
  <2>2. vectors[5] = Load("globals", "processes")
    BY DEF Loaded
  <2> QED BY <1>5, <2>1, <2>2, LoadDoes
<1>7. After[7] = Kept("processes", "none", "program", "program", "program", {}, {})
  <2>1. After[7] = Does(After[6], vectors[6])
    BY AfterSteps
  <2>2. vectors[6] = Nop
    BY DEF Loaded
  <2> QED BY <1>6, <2>1, <2>2, NopDoes
<1>8. After[8] = Kept("processes", "thread", "program", "program", "program", {}, {})
  <2>1. After[8] = Does(After[7], vectors[7])
    BY AfterSteps
  <2>2. vectors[7] = Load("processes", "thread")
    BY DEF Loaded
  <2> QED BY <1>7, <2>1, <2>2, LoadDoes
<1>9. After[9] = Kept("thread", "none", "program", "program", "program", {}, {})
  <2>1. After[9] = Does(After[8], vectors[8])
    BY AfterSteps
  <2>2. vectors[8] = Nop
    BY DEF Loaded
  <2> QED BY <1>8, <2>1, <2>2, NopDoes
<1>10. After[10] = Kept("registers", "none", "program", "program", "program", {}, {})
  <2>1. After[10] = Does(After[9], vectors[9])
    BY AfterSteps
  <2>2. vectors[9] = Put("thread", "registers")
    BY DEF Loaded
  <2> QED BY <1>9, <2>1, <2>2, PutDoes
<1>11. After[11] = Kept("registers", "none", "program", "program", "program", {"at"}, {})
  <2>1. After[11] = Does(After[10], vectors[10])
    BY AfterSteps
  <2>2. vectors[10] = Save("at")
    BY DEF Loaded
  <2>3. {} \cup {"at"} = {"at"}
    OBVIOUS
  <2> QED BY <1>10, <2>1, <2>2, <2>3, SaveDoes
<1>12. After[12] = Kept("registers", "none", "program", "program", "program", {"at", "v0"}, {})
  <2>1. After[12] = Does(After[11], vectors[11])
    BY AfterSteps
  <2>2. vectors[11] = Save("v0")
    BY DEF Loaded
  <2>3. {"at"} \cup {"v0"} = {"at", "v0"}
    OBVIOUS
  <2> QED BY <1>11, <2>1, <2>2, <2>3, SaveDoes
<1>13. After[13] = Kept("registers", "none", "program", "program", "program", {"at", "v0", "v1"}, {})
  <2>1. After[13] = Does(After[12], vectors[12])
    BY AfterSteps
  <2>2. vectors[12] = Save("v1")
    BY DEF Loaded
  <2>3. {"at", "v0"} \cup {"v1"} = {"at", "v0", "v1"}
    OBVIOUS
  <2> QED BY <1>12, <2>1, <2>2, <2>3, SaveDoes
<1>14. After[14] = Kept("registers", "none", "program", "program", "program", {"at", "v0", "v1", "ra"}, {})
  <2>1. After[14] = Does(After[13], vectors[13])
    BY AfterSteps
  <2>2. vectors[13] = Save("ra")
    BY DEF Loaded
  <2>3. {"at", "v0", "v1"} \cup {"ra"} = {"at", "v0", "v1", "ra"}
    OBVIOUS
  <2> QED BY <1>13, <2>1, <2>2, <2>3, SaveDoes
<1> QED BY <1>14 DEF Four

LEMMA ReplacementRuns ==
  ASSUME Replacement(vectors)
  PROVE  After[14] = Kept("registers", "none", "cause", "program", "program", Four, {})
<1>0. After[0] = Kept("any", "none", "program", "program", "program", {}, {})
  BY AfterSteps, RegistersKept
<1>1. After[1] = Kept("any", "none", "program", "program", "program", {}, {})
  <2>1. After[1] = Does(After[0], vectors[0])
    BY AfterSteps
  <2>2. vectors[0] = Nop
    BY DEF Replacement
  <2> QED BY <1>0, <2>1, <2>2, PlainDoes
<1>2. After[2] = Kept("any", "none", "program", "program", "program", {}, {})
  <2>1. After[2] = Does(After[1], vectors[1])
    BY AfterSteps
  <2>2. vectors[1] = Nop
    BY DEF Replacement
  <2> QED BY <1>1, <2>1, <2>2, PlainDoes
<1>3. After[3] = Kept("globals", "none", "program", "program", "program", {}, {})
  <2>1. After[3] = Does(After[2], vectors[2])
    BY AfterSteps
  <2>2. vectors[2] = Put("any", "globals")
    BY DEF Replacement
  <2> QED BY <1>2, <2>1, <2>2, PutDoes
<1>4. After[4] = Kept("globals", "processes", "program", "program", "program", {}, {})
  <2>1. After[4] = Does(After[3], vectors[3])
    BY AfterSteps
  <2>2. vectors[3] = Load("globals", "processes")
    BY DEF Replacement
  <2> QED BY <1>3, <2>1, <2>2, LoadDoes
<1>5. After[5] = Kept("processes", "none", "program", "program", "program", {}, {})
  <2>1. After[5] = Does(After[4], vectors[4])
    BY AfterSteps
  <2>2. vectors[4] = Nop
    BY DEF Replacement
  <2> QED BY <1>4, <2>1, <2>2, NopDoes
<1>6. After[6] = Kept("processes", "thread", "program", "program", "program", {}, {})
  <2>1. After[6] = Does(After[5], vectors[5])
    BY AfterSteps
  <2>2. vectors[5] = Load("processes", "thread")
    BY DEF Replacement
  <2> QED BY <1>5, <2>1, <2>2, LoadDoes
<1>7. After[7] = Kept("thread", "none", "program", "program", "program", {}, {})
  <2>1. After[7] = Does(After[6], vectors[6])
    BY AfterSteps
  <2>2. vectors[6] = Nop
    BY DEF Replacement
  <2> QED BY <1>6, <2>1, <2>2, NopDoes
<1>8. After[8] = Kept("registers", "none", "program", "program", "program", {}, {})
  <2>1. After[8] = Does(After[7], vectors[7])
    BY AfterSteps
  <2>2. vectors[7] = Put("thread", "registers")
    BY DEF Replacement
  <2> QED BY <1>7, <2>1, <2>2, PutDoes
<1>9. After[9] = Kept("registers", "none", "program", "program", "program", {"at"}, {})
  <2>1. After[9] = Does(After[8], vectors[8])
    BY AfterSteps
  <2>2. vectors[8] = Save("at")
    BY DEF Replacement
  <2>3. {} \cup {"at"} = {"at"}
    OBVIOUS
  <2> QED BY <1>8, <2>1, <2>2, <2>3, SaveDoes
<1>10. After[10] = Kept("registers", "none", "program", "program", "program", {"at", "v0"}, {})
  <2>1. After[10] = Does(After[9], vectors[9])
    BY AfterSteps
  <2>2. vectors[9] = Save("v0")
    BY DEF Replacement
  <2>3. {"at"} \cup {"v0"} = {"at", "v0"}
    OBVIOUS
  <2> QED BY <1>9, <2>1, <2>2, <2>3, SaveDoes
<1>11. After[11] = Kept("registers", "none", "program", "program", "program", {"at", "v0", "v1"}, {})
  <2>1. After[11] = Does(After[10], vectors[10])
    BY AfterSteps
  <2>2. vectors[10] = Save("v1")
    BY DEF Replacement
  <2>3. {"at", "v0"} \cup {"v1"} = {"at", "v0", "v1"}
    OBVIOUS
  <2> QED BY <1>10, <2>1, <2>2, <2>3, SaveDoes
<1>12. After[12] = Kept("registers", "none", "program", "program", "program", {"at", "v0", "v1", "ra"}, {})
  <2>1. After[12] = Does(After[11], vectors[11])
    BY AfterSteps
  <2>2. vectors[11] = Save("ra")
    BY DEF Replacement
  <2>3. {"at", "v0", "v1"} \cup {"ra"} = {"at", "v0", "v1", "ra"}
    OBVIOUS
  <2> QED BY <1>11, <2>1, <2>2, <2>3, SaveDoes
<1>13. After[13] = Kept("registers", "none", "cause", "program", "program", {"at", "v0", "v1", "ra"}, {})
  <2>1. After[13] = Does(After[12], vectors[12])
    BY AfterSteps
  <2>2. vectors[12] = <<"mfc0_v0">>
    BY DEF Replacement
  <2> QED BY <1>12, <2>1, <2>2, CauseDoes
<1>14. After[14] = Kept("registers", "none", "cause", "program", "program", {"at", "v0", "v1", "ra"}, {})
  <2>1. After[14] = Does(After[13], vectors[13])
    BY AfterSteps
  <2>2. vectors[13] = Nop
    BY DEF Replacement
  <2> QED BY <1>13, <2>1, <2>2, PlainDoes
<1> QED BY <1>14 DEF Four

(* At the slots the registers are saved, the cause and the place known.    *)
LEMMA RestRuns ==
  ASSUME Rest(vectors), NEW v0,
         After[14] = Kept("registers", "none", v0, "program", "program", Four, {})
  PROVE  After[28] = AtSlots
<1> DEFINE known == Kept("registers", "none", "cause", "epc", "handler", Four, {})
<1>1. After[15] = known
  <2>1. After[15] = Does(After[14], vectors[14]) /\ vectors[14] = <<"getCop0CauseAndEPC">>
    BY AfterSteps DEF Rest
  <2> QED BY <2>1, BothDoes
<1>2. After[16] = known
  <2>1. After[16] = Does(After[15], vectors[15]) /\ vectors[15] = Nop
    BY AfterSteps DEF Rest
  <2> QED BY <2>1, <1>1, PlainDoes
<1>3. After[17] = known
  <2>1. After[17] = Does(After[16], vectors[16]) /\ vectors[16] = <<"excode">>
    BY AfterSteps DEF Rest
  <2> QED BY <2>1, <1>2, ExcodeDoes
<1>4. \A i \in 17 .. 26 : After[i] = known => After[i + 1] = known
  <2> SUFFICES ASSUME NEW i \in 17 .. 26, After[i] = known PROVE After[i + 1] = known
    OBVIOUS
  <2>1. i + 1 \in 1 .. 44 /\ i + 1 - 1 = i
    OBVIOUS
  <2>2. After[i + 1] = Does(After[i], vectors[i]) /\ vectors[i] = Own
    BY <2>1, AfterSteps DEF Rest
  <2> QED BY <2>2, PlainDoes
<1> HIDE DEF known
<1>5. After[22] = known
  <2>1. /\ After[17] = known => After[18] = known
        /\ After[18] = known => After[19] = known
        /\ After[19] = known => After[20] = known
        /\ After[20] = known => After[21] = known
        /\ After[21] = known => After[22] = known
    BY <1>4
  <2> QED BY <2>1, <1>3
<1>6. After[27] = known
  <2>1. /\ After[22] = known => After[23] = known
        /\ After[23] = known => After[24] = known
        /\ After[24] = known => After[25] = known
        /\ After[25] = known => After[26] = known
        /\ After[26] = known => After[27] = known
    BY <1>4
  <2> QED BY <2>1, <1>5
<1>7. After[28] = Does(After[27], vectors[27]) /\ vectors[27] = Save("epc")
  BY AfterSteps DEF Rest
<1> QED BY <1>6, <1>7, SaveDoes DEF known, AtSlots

(* The words of a slot that is empty, or has the first words of a call, do *)
(* no harm, and no more do four of them.                                   *)
Kind(r) ==
  \E v0, ra, called : r = Kept("registers", "none", v0, "epc", ra, Four \cup {"epc"}, called)

(* The first k words of the call of f, and no more.                        *)
Begun(memory, begin, f, k) ==
  Filled4(memory, begin, IF k > 0 THEN <<"high", f>> ELSE Nop, IF k > 1 THEN <<"low", f>> ELSE Nop,
          IF k > 2 THEN <<"jalr", f>> ELSE Nop, Nop)

LEMMA NopKeeps == ASSUME NEW r, Kind(r) PROVE Kind(Does(r, Nop))
BY PlainDoes DEF Kind

LEMMA SlotRuns ==
  ASSUME NEW begin \in {28, 32, 36, 40}, NEW f, NEW k \in 0 .. 4,
         Begun(vectors, begin, f, k), Kind(After[begin])
  PROVE  Kind(After[begin + 4])
<1>1. /\ After[begin + 1] = Does(After[begin], vectors[begin])
      /\ After[begin + 2] = Does(After[begin + 1], vectors[begin + 1])
      /\ After[begin + 3] = Does(After[begin + 2], vectors[begin + 2])
      /\ After[begin + 4] = Does(After[begin + 3], vectors[begin + 3])
  <2>1. /\ begin + 1 \in 1 .. 44 /\ begin + 2 \in 1 .. 44 /\ begin + 3 \in 1 .. 44
        /\ begin + 4 \in 1 .. 44 /\ begin + 1 - 1 = begin /\ begin + 2 - 1 = begin + 1
        /\ begin + 3 - 1 = begin + 2 /\ begin + 4 - 1 = begin + 3
    OBVIOUS
  <2> QED BY <2>1, AfterSteps
<1>2. CASE k = 0
  <2>1. /\ vectors[begin] = Nop /\ vectors[begin + 1] = Nop
        /\ vectors[begin + 2] = Nop /\ vectors[begin + 3] = Nop
    BY <1>2 DEF Begun, Filled4
  <2> QED BY <1>1, <2>1, NopKeeps
<1>3. CASE k > 0
  <2>1. vectors[begin] = <<"high", f>> /\ vectors[begin + 3] = Nop
    BY <1>3 DEF Begun, Filled4
  <2>2. PICK ra, called : After[begin + 1] = Kept("registers", "none", <<"high", f>>, "epc", ra,
                                                  Four \cup {"epc"}, called)
    <3>1. PICK v0, ra, called :
            After[begin] = Kept("registers", "none", v0, "epc", ra, Four \cup {"epc"}, called)
      BY DEF Kind
    <3> QED BY <1>1, <2>1, <3>1, HighDoes
  <2>3. Kind(After[begin + 1])
    BY <2>2 DEF Kind
  <2>4. CASE k = 1
    <3>1. vectors[begin + 1] = Nop /\ vectors[begin + 2] = Nop
      BY <2>4 DEF Begun, Filled4
    <3> QED BY <1>1, <2>1, <2>3, <3>1, NopKeeps
  <2>5. CASE k > 1
    <3>1. vectors[begin + 1] = <<"low", f>>
      BY <2>5 DEF Begun, Filled4
    <3>2. After[begin + 2] = Kept("registers", "none", <<"low", f>>, "epc", ra,
                                  Four \cup {"epc"}, called)
      BY <1>1, <2>2, <3>1, LowDoes
    <3>3. Kind(After[begin + 2])
      BY <3>2 DEF Kind
    <3>4. CASE k = 2
      <4>1. vectors[begin + 2] = Nop
        BY <3>4 DEF Begun, Filled4
      <4> QED BY <1>1, <2>1, <3>3, <4>1, NopKeeps
    <3>5. CASE k > 2
      <4>1. vectors[begin + 2] = <<"jalr", f>>
        BY <3>5 DEF Begun, Filled4
      <4>2. After[begin + 3] = Kept("registers", "none", <<"low", f>>, "epc", "handler",
                                    Four \cup {"epc"}, called \cup {f})
        BY <1>1, <3>2, <4>1, CallDoes
      <4>3. Kind(After[begin + 3])
        BY <4>2 DEF Kind
      <4> QED BY <1>1, <2>1, <4>3, NopKeeps
    <3> QED BY <2>5, <3>4, <3>5
  <2> QED BY <1>3, <2>4, <2>5
<1> QED BY <1>2, <1>3

-----------------------------------------------------------------------------
(* What games and the card driver may have left.  A game's words for a     *)
(* retail kernel are never where patch_gte_1 would replace them.           *)
CardSlot(memory, n) ==
  Begun(memory, 28, "fastTrack", n) \/ Begun(memory, 28, "fastTrack", 4)

(* A memory of so many words.                                             *)
IsMemory(memory, last) == memory = [i \in 0 .. last |-> memory[i]]

SlotInv ==
  /\ IsMemory(vectors, 43)
  /\ Loaded(vectors) \/ Replacement(vectors)
  /\ Rest(vectors)
  /\ copied \in 0 .. 4
  /\ CardSlot(vectors, copied % 4)
  /\ Begun(vectors, 32, "gun", 0) \/ Begun(vectors, 32, "gun", 4)
  /\ fastTrack \in {ImaskTest, Written(ImaskTest, GameTest, 10)}
  /\ IsMemory(vector0, 19) /\ \A i \in 16 .. 19 : vector0[i] = Own

(* What is written over the words of a memory, and what is not.            *)
Overwrites(new, memory, last, s, begin, n) ==
  /\ IsMemory(new, last)
  /\ \A i \in 0 .. last :
       /\ begin =< i /\ i < begin + n => new[i] = s[i - begin + 1]
       /\ i < begin \/ begin + n =< i => new[i] = memory[i]

LEMMA WritesWords ==
  ASSUME NEW memory, NEW last \in Nat, IsMemory(memory, last),
         NEW s, NEW begin \in Nat, NEW n \in Nat, Len(s) = n
  PROVE  Overwrites(Written(memory, s, begin), memory, last, s, begin, n)
<1>1. DOMAIN Words(s, begin) = begin .. begin + n - 1
  BY DEF Words
<1>2. DOMAIN memory = 0 .. last
  BY DEF IsMemory
<1>3. \A i \in begin .. begin + n - 1 : Words(s, begin)[i] = s[i - begin + 1]
  BY DEF Words
<1> DEFINE m == Written(memory, s, begin)
<1>4. m = [i \in 0 .. last |-> IF i \in begin .. begin + n - 1 THEN Words(s, begin)[i]
                               ELSE memory[i]]
  BY <1>1, <1>2 DEF Written
<1> HIDE DEF m
<1>5. IsMemory(m, last)
  BY <1>4 DEF IsMemory
<1>6. ASSUME NEW i \in 0 .. last, begin =< i, i < begin + n
      PROVE  m[i] = s[i - begin + 1]
  <2>1. i \in begin .. begin + n - 1
    BY <1>6
  <2> QED BY <1>3, <1>4, <2>1
<1>7. ASSUME NEW i \in 0 .. last, i < begin \/ begin + n =< i
      PROVE  m[i] = memory[i]
  <2>1. i \notin begin .. begin + n - 1
    BY <1>7
  <2> QED BY <1>4, <2>1
<1> QED BY <1>5, <1>6, <1>7 DEF Overwrites, m

LEMMA CallWords ==
  ASSUME NEW f
  PROVE  /\ Len(CallOf(f)) = 4
         /\ CallOf(f)[1] = <<"high", f>> /\ CallOf(f)[2] = <<"low", f>>
         /\ CallOf(f)[3] = <<"jalr", f>> /\ CallOf(f)[4] = Nop
BY DEF CallOf

LEMMA SlotPlaces == SlotAt(1) = 28 /\ SlotAt(2) = 32 /\ SlotAt(3) = 36 /\ SlotAt(4) = 40
BY DEF SlotAt, Slot1

(* The beginning and the words after it are the same in two memories that  *)
(* differ in the first slots only.                                         *)
LEMMA SlotsOnly ==
  ASSUME NEW m, NEW n, \A i \in 0 .. 27 \cup 36 .. 43 : n[i] = m[i]
  PROVE  /\ Loaded(m) => Loaded(n)
         /\ Replacement(m) => Replacement(n)
         /\ Rest(m) => Rest(n)
<1>1. Loaded(m) => Loaded(n)
  BY DEF Loaded
<1>2. Replacement(m) => Replacement(n)
  BY DEF Replacement
<1>3. Rest(m) => Rest(n)
  <2> SUFFICES ASSUME Rest(m) PROVE Rest(n)
    OBVIOUS
  <2>1. n[14] = m[14] /\ n[15] = m[15] /\ n[16] = m[16] /\ n[27] = m[27]
    OBVIOUS
  <2>2. \A i \in 17 .. 26 : n[i] = m[i]
    OBVIOUS
  <2>3. \A i \in 36 .. 43 : n[i] = m[i]
    OBVIOUS
  <2> QED BY <2>1, <2>2, <2>3 DEF Rest
<1> QED BY <1>1, <1>2, <1>3

LEMMA SlotsStart == SlotsInit => SlotInv
<1> SUFFICES ASSUME SlotsInit PROVE SlotInv
  OBVIOUS
<1>1. vectors = Words(HandlerWords, 0) /\ copied = 4 /\ fastTrack = ImaskTest
      /\ vector0 = [i \in 0 .. 19 |-> Own]
  BY DEF SlotsInit
<1>2. Begun(vectors, 28, "fastTrack", 0) /\ Begun(vectors, 32, "gun", 0)
  BY <1>1, HandlerIs DEF Begun
<1>3. copied % 4 = 0
  BY <1>1
<1>4. IsMemory(vector0, 19) /\ \A i \in 16 .. 19 : vector0[i] = Own
  BY <1>1 DEF IsMemory
<1> QED BY <1>1, <1>2, <1>3, <1>4, HandlerIs DEF SlotInv, CardSlot, IsMemory

LEMMA CopyWordKeeps == SlotInv /\ CopyWord => SlotInv'
<1> SUFFICES ASSUME SlotInv, CopyWord PROVE SlotInv'
  OBVIOUS
<1>1. /\ copied \in {0, 1, 2, 3} /\ copied' = copied + 1 /\ copied % 4 = copied
      /\ vectors' = [vectors EXCEPT ![28 + copied] = CallOf("fastTrack")[copied + 1]]
      /\ UNCHANGED <<fastTrack, vector0>>
  <2>1. /\ copied \in {0, 1, 2, 3} /\ copied' = copied + 1
        /\ vectors' = [vectors EXCEPT ![SlotAt(1) + copied] = CallOf("fastTrack")[copied + 1]]
        /\ UNCHANGED <<fastTrack, vector0>>
    BY DEF CopyWord, SlotInv
  <2>2. copied % 4 = copied
    BY <2>1
  <2> QED BY <2>1, <2>2, SlotPlaces
<1>2. /\ IsMemory(vectors', 43)
      /\ \A i \in 0 .. 43 : vectors'[i] = IF i = 28 + copied THEN CallOf("fastTrack")[copied + 1]
                                          ELSE vectors[i]
  BY <1>1 DEF SlotInv, IsMemory
<1>3. \A i \in 0 .. 27 \cup 36 .. 43 : vectors'[i] = vectors[i]
  BY <1>1, <1>2
<1>4. /\ Loaded(vectors') \/ Replacement(vectors')
      /\ Rest(vectors')
  BY <1>3, SlotsOnly DEF SlotInv
<1>5. Begun(vectors', 32, "gun", 0) \/ Begun(vectors', 32, "gun", 4)
  BY <1>1, <1>2 DEF SlotInv, Begun, Filled4
<1>6. CardSlot(vectors', copied' % 4)
  <2> DEFINE H == <<"high", "fastTrack">>
             L == <<"low", "fastTrack">>
             J == <<"jalr", "fastTrack">>
  <2>1. /\ CallOf("fastTrack")[1] = H /\ CallOf("fastTrack")[2] = L
        /\ CallOf("fastTrack")[3] = J /\ CallOf("fastTrack")[4] = Nop
    BY CallWords DEF H, L, J
  <2>2. CardSlot(vectors, copied)
    BY <1>1 DEF SlotInv
  <2> HIDE DEF H, L, J
  <2>3. CASE copied = 0
    <3>1. vectors'[28] = H /\ vectors'[29] = vectors[29] /\ vectors'[30] = vectors[30]
          /\ vectors'[31] = vectors[31] /\ copied' % 4 = 1
      BY <1>1, <1>2, <2>1, <2>3
    <3> QED BY <3>1, <2>2, <2>3 DEF CardSlot, Begun, Filled4, H, L, J
  <2>4. CASE copied = 1
    <3>1. vectors'[28] = vectors[28] /\ vectors'[29] = L /\ vectors'[30] = vectors[30]
          /\ vectors'[31] = vectors[31] /\ copied' % 4 = 2
      BY <1>1, <1>2, <2>1, <2>4
    <3> QED BY <3>1, <2>2, <2>4 DEF CardSlot, Begun, Filled4, H, L, J
  <2>5. CASE copied = 2
    <3>1. vectors'[28] = vectors[28] /\ vectors'[29] = vectors[29] /\ vectors'[30] = J
          /\ vectors'[31] = vectors[31] /\ copied' % 4 = 3
      BY <1>1, <1>2, <2>1, <2>5
    <3> QED BY <3>1, <2>2, <2>5 DEF CardSlot, Begun, Filled4, H, L, J
  <2>6. CASE copied = 3
    <3>1. vectors'[28] = vectors[28] /\ vectors'[29] = vectors[29] /\ vectors'[30] = vectors[30]
          /\ vectors'[31] = Nop
      BY <1>1, <1>2, <2>1, <2>6
    <3> QED BY <3>1, <2>2, <2>6 DEF CardSlot, Begun, Filled4, H, L, J
  <2> QED BY <1>1, <2>3, <2>4, <2>5, <2>6
<1> QED BY <1>1, <1>2, <1>4, <1>5, <1>6 DEF SlotInv

LEMMA StartsCopy == SlotInv /\ patchExceptionHandlerForMC => SlotInv'
<1>1. patchExceptionHandlerForMC => copied = 4 /\ copied' = 0 /\ copied % 4 = 0 /\ copied' % 4 = 0
  BY DEF patchExceptionHandlerForMC
<1> QED BY <1>1 DEF SlotInv, patchExceptionHandlerForMC

LEMMA ClearKeeps == SlotInv /\ copied = 4 /\ UNCHANGED copied /\ clear_card_1 => SlotInv'
<1> SUFFICES ASSUME SlotInv, copied = 4, UNCHANGED copied, clear_card_1 PROVE SlotInv'
  OBVIOUS
<1> DEFINE s == <<Nop, Nop, Nop>>
<1>1. vectors' = Written(vectors, s, 28) /\ UNCHANGED <<fastTrack, vector0>>
  BY SlotPlaces DEF clear_card_1
<1>2. s \in Seq({Nop}) /\ Len(s) = 3 /\ s[1] = Nop /\ s[2] = Nop /\ s[3] = Nop
  OBVIOUS
<1> HIDE DEF s
<1>3. IsMemory(vectors', 43) /\ Overwrites(vectors', vectors, 43, s, 28, 3)
  <2>1. IsMemory(vectors, 43)
    BY DEF SlotInv
  <2>2. Overwrites(vectors', vectors, 43, s, 28, 3)
    BY <1>1, <1>2, <2>1, WritesWords
  <2> QED BY <2>2 DEF Overwrites
<1>4. /\ vectors'[28] = Nop /\ vectors'[29] = Nop /\ vectors'[30] = Nop
      /\ \A i \in 0 .. 43 : i \notin {28, 29, 30} => vectors'[i] = vectors[i]
  BY <1>2, <1>3 DEF Overwrites
<1>5. \A i \in 0 .. 27 \cup 36 .. 43 : vectors'[i] = vectors[i]
  BY <1>4
<1>6. /\ Loaded(vectors') \/ Replacement(vectors')
      /\ Rest(vectors')
  BY <1>5, SlotsOnly DEF SlotInv
<1>7. Begun(vectors', 32, "gun", 0) \/ Begun(vectors', 32, "gun", 4)
  BY <1>4 DEF SlotInv, Begun, Filled4
<1>8. Begun(vectors', 28, "fastTrack", 0)
  <2>1. vectors[31] = Nop /\ vectors'[31] = vectors[31]
    <3>1. copied % 4 = 0
      OBVIOUS
    <3> QED BY <1>4, <3>1 DEF SlotInv, CardSlot, Begun, Filled4
  <2> QED BY <1>4, <2>1 DEF Begun, Filled4
<1> QED BY <1>1, <1>3, <1>6, <1>7, <1>8 DEF SlotInv, CardSlot

LEMMA GunKeeps == SlotInv /\ copied = 4 /\ UNCHANGED copied /\ initgun_1 => SlotInv'
<1> SUFFICES ASSUME SlotInv, copied = 4, UNCHANGED copied, initgun_1 PROVE SlotInv'
  OBVIOUS
<1>1. vectors' = Written(vectors, CallOf("gun"), 32) /\ UNCHANGED <<fastTrack, vector0>>
  BY SlotPlaces DEF initgun_1
<1>2. IsMemory(vectors', 43) /\ Overwrites(vectors', vectors, 43, CallOf("gun"), 32, 4)
  <2>1. IsMemory(vectors, 43) /\ Len(CallOf("gun")) = 4
    BY CallWords DEF SlotInv
  <2>2. Overwrites(vectors', vectors, 43, CallOf("gun"), 32, 4)
    BY <1>1, <2>1, WritesWords
  <2> QED BY <2>2 DEF Overwrites
<1>3. /\ vectors'[32] = <<"high", "gun">> /\ vectors'[33] = <<"low", "gun">>
      /\ vectors'[34] = <<"jalr", "gun">> /\ vectors'[35] = Nop
      /\ \A i \in 0 .. 43 : i \notin {32, 33, 34, 35} => vectors'[i] = vectors[i]
  BY <1>2, CallWords DEF Overwrites
<1>4. \A i \in 0 .. 27 \cup 36 .. 43 : vectors'[i] = vectors[i]
  BY <1>3
<1>5. /\ Loaded(vectors') \/ Replacement(vectors')
      /\ Rest(vectors')
  BY <1>4, SlotsOnly DEF SlotInv
<1>6. Begun(vectors', 32, "gun", 4)
  BY <1>3 DEF Begun, Filled4
<1>7. CardSlot(vectors', copied % 4)
  BY <1>3 DEF SlotInv, CardSlot, Begun, Filled4
<1> QED BY <1>1, <1>2, <1>5, <1>6, <1>7 DEF SlotInv

LEMMA CardPatchKeeps == SlotInv /\ UNCHANGED copied /\ patch_card => SlotInv'
<1> SUFFICES ASSUME SlotInv, UNCHANGED copied, patch_card PROVE SlotInv'
  OBVIOUS
<1>1. Len(GameTest) = 5
  BY DEF GameTest
<1>2. vectors' = vectors
  BY DEF patch_card
<1>3. vector0' = vector0 \/ vector0' = Written(vector0, GameTest, 10)
  BY DEF patch_card
<1>4. IsMemory(vector0', 19) /\ \A i \in 16 .. 19 : vector0'[i] = Own
  <2> SUFFICES ASSUME vector0' = Written(vector0, GameTest, 10)
               PROVE  IsMemory(vector0', 19) /\ \A i \in 16 .. 19 : vector0'[i] = Own
    BY <1>3 DEF SlotInv
  <2>1. IsMemory(vector0, 19)
    BY DEF SlotInv
  <2>2. Overwrites(vector0', vector0, 19, GameTest, 10, 5)
    BY <1>1, <2>1, WritesWords
  <2>3. IsMemory(vector0', 19) /\ \A i \in 16 .. 19 : vector0'[i] = vector0[i]
    BY <2>2 DEF Overwrites
  <2> QED BY <2>3 DEF SlotInv
<1>5. fastTrack' \in {ImaskTest, Written(ImaskTest, GameTest, 10)}
  <2> DEFINE once == Written(ImaskTest, GameTest, 10)
  <2>1. Written(once, GameTest, 10) = once
    <3>1. DOMAIN Words(GameTest, 10) = 10 .. 14
      BY <1>1 DEF Words
    <3>2. \A m : Written(m, GameTest, 10) =
            [i \in DOMAIN m |-> IF i \in 10 .. 14 THEN Words(GameTest, 10)[i] ELSE m[i]]
      BY <3>1 DEF Written
    <3>3. once = [i \in DOMAIN ImaskTest |-> IF i \in 10 .. 14 THEN Words(GameTest, 10)[i]
                                              ELSE ImaskTest[i]]
      BY <3>2
    <3> HIDE DEF once
    <3> QED BY <3>2, <3>3
  <2> HIDE DEF once
  <2>2. fastTrack' = fastTrack \/ fastTrack' = Written(fastTrack, GameTest, 10)
    BY DEF patch_card
  <2> QED BY <2>1, <2>2 DEF SlotInv, once
<1> QED BY <1>2, <1>4, <1>5 DEF SlotInv

(* The words patch_gte_1 looks for are not there: the handler calls a      *)
(* function for the cause and the place.                                   *)
LEMMA GteOneKeeps == SlotInv /\ UNCHANGED copied /\ patch_gte_1 => SlotInv'
<1> SUFFICES ASSUME SlotInv, UNCHANGED copied, patch_gte_1 PROVE SlotInv'
  OBVIOUS
<1> DEFINE tail == <<<<"mfc0_v1">>, Nop>>
           old == SaveFour \o tail
           W == {Save("at"), Save("v0"), Save("v1"), Save("ra"), <<"mfc0_v1">>, Nop}
<1>1. SaveFour \in Seq(W) /\ Len(SaveFour) = 4 /\ tail \in Seq(W) /\ Len(tail) = 2
      /\ tail[1] = <<"mfc0_v1">>
  BY DEF SaveFour
<1> HIDE DEF tail, W
<1>2. Joined(W, SaveFour, tail, old, 4, 6)
  <2>1. 6 = 4 + 2
    OBVIOUS
  <2> QED BY <1>1, <2>1, Joins
<1> HIDE DEF old
<1>3. Len(old) = 6 /\ old[5] = <<"mfc0_v1">>
  BY <1>1, <1>2 DEF Joined
<1>4. 14 \in DOMAIN Words(old, 10) /\ Words(old, 10)[14] = <<"mfc0_v1">>
  BY <1>3 DEF Words
<1>5. vectors[14] = <<"getCop0CauseAndEPC">>
  BY DEF SlotInv, Rest
<1>6. ~Holds(vectors, old, 10)
  BY <1>4, <1>5 DEF Holds
<1>7. UNCHANGED <<vectors, fastTrack, vector0>>
  BY <1>6 DEF patch_gte_1, old, tail
<1> QED BY <1>7 DEF SlotInv

LEMMA GteTwoKeeps == SlotInv /\ UNCHANGED copied /\ patch_gte_2 => SlotInv'
<1> SUFFICES ASSUME SlotInv, UNCHANGED copied, patch_gte_2 PROVE SlotInv'
  OBVIOUS
<1> DEFINE s0 == <<Nop, Nop>>
           s1 == s0 \o FindRegisters
           s2 == s1 \o SaveFour
           tail == <<<<"mfc0_v0">>, Nop>>
           s3 == s2 \o tail
           W == {Nop, Put("any", "globals"), Put("thread", "registers"),
                 Load("globals", "processes"), Load("processes", "thread"), Save("at"),
                 Save("v0"), Save("v1"), Save("ra"), <<"mfc0_v0">>}
<1>1. s0 \in Seq(W) /\ Len(s0) = 2 /\ s0[1] = Nop /\ s0[2] = Nop
  OBVIOUS
<1>2. /\ FindRegisters \in Seq(W) /\ Len(FindRegisters) = 6
      /\ FindRegisters[1] = Put("any", "globals") /\ FindRegisters[2] = Load("globals", "processes")
      /\ FindRegisters[3] = Nop /\ FindRegisters[4] = Load("processes", "thread")
      /\ FindRegisters[5] = Nop /\ FindRegisters[6] = Put("thread", "registers")
  BY DEF FindRegisters
<1>3. /\ SaveFour \in Seq(W) /\ Len(SaveFour) = 4
      /\ SaveFour[1] = Save("at") /\ SaveFour[2] = Save("v0")
      /\ SaveFour[3] = Save("v1") /\ SaveFour[4] = Save("ra")
  BY DEF SaveFour
<1>4. tail \in Seq(W) /\ Len(tail) = 2 /\ tail[1] = <<"mfc0_v0">> /\ tail[2] = Nop
  OBVIOUS
<1>5. vectors' = Written(vectors, s3, 0) /\ UNCHANGED <<fastTrack, vector0>>
  BY DEF patch_gte_2
<1> HIDE DEF W, s0, s1, s2, s3, tail
<1>6. Joined(W, s0, FindRegisters, s1, 2, 8)
  <2>1. 8 = 2 + 6
    OBVIOUS
  <2> QED BY <1>1, <1>2, <2>1, Joins DEF s1
<1>7. Joined(W, s1, SaveFour, s2, 8, 12)
  <2>1. s1 \in Seq(W) /\ Len(s1) = 8
    BY <1>6 DEF Joined
  <2>2. 12 = 8 + 4
    OBVIOUS
  <2> QED BY <1>3, <2>1, <2>2, Joins DEF s2
<1>8. Joined(W, s2, tail, s3, 12, 14)
  <2>1. s2 \in Seq(W) /\ Len(s2) = 12
    BY <1>7 DEF Joined
  <2>2. 14 = 12 + 2
    OBVIOUS
  <2> QED BY <1>4, <2>1, <2>2, Joins DEF s3
<1>9. s3 \in Seq(W) /\ Len(s3) = 14
  BY <1>8 DEF Joined
<1>10. IsMemory(vectors', 43) /\ Overwrites(vectors', vectors, 43, s3, 0, 14)
  <2>1. IsMemory(vectors, 43)
    BY DEF SlotInv
  <2>2. Overwrites(vectors', vectors, 43, s3, 0, 14)
    BY <1>5, <1>9, <2>1, WritesWords
  <2> QED BY <2>2 DEF Overwrites
<1>11. /\ \A i \in 0 .. 13 : vectors'[i] = s3[i + 1]
       /\ \A i \in 14 .. 43 : vectors'[i] = vectors[i]
  BY <1>10 DEF Overwrites
<1>12. /\ s3[13] = <<"mfc0_v0">> /\ s3[14] = Nop
       /\ \A i \in Nat : 1 =< i /\ i =< 12 => s3[i] = s2[i]
  BY <1>4, <1>8 DEF Joined
<1>13. /\ s2[9] = Save("at") /\ s2[10] = Save("v0") /\ s2[11] = Save("v1") /\ s2[12] = Save("ra")
       /\ \A i \in Nat : 1 =< i /\ i =< 8 => s2[i] = s1[i]
  BY <1>3, <1>7 DEF Joined
<1>14. /\ s1[1] = Nop /\ s1[2] = Nop
       /\ s1[3] = Put("any", "globals") /\ s1[4] = Load("globals", "processes")
       /\ s1[5] = Nop /\ s1[6] = Load("processes", "thread")
       /\ s1[7] = Nop /\ s1[8] = Put("thread", "registers")
  BY <1>1, <1>2, <1>6 DEF Joined
<1>15. \A i \in Nat : 1 =< i /\ i =< 8 => s3[i] = s1[i]
  BY <1>12, <1>13
<1>16. Replacement(vectors')
  BY <1>11, <1>12, <1>13, <1>14, <1>15 DEF Replacement
<1>17. Rest(vectors')
  BY <1>11 DEF SlotInv, Rest
<1>18. /\ CardSlot(vectors', copied % 4)
       /\ Begun(vectors', 32, "gun", 0) \/ Begun(vectors', 32, "gun", 4)
  BY <1>11 DEF SlotInv, CardSlot, Begun, Filled4
<1> QED BY <1>5, <1>10, <1>16, <1>17, <1>18 DEF SlotInv

LEMMA SlotsKeep == SlotInv /\ [SlotsNext]_slotVars => SlotInv'
<1> SUFFICES ASSUME SlotInv, [SlotsNext]_slotVars PROVE SlotInv'
  OBVIOUS
<1>1. CASE patchExceptionHandlerForMC
  BY <1>1, StartsCopy
<1>2. CASE CopyWord
  BY <1>2, CopyWordKeeps
<1>3. CASE Game
  BY <1>3, ClearKeeps, GunKeeps, CardPatchKeeps, GteOneKeeps, GteTwoKeeps DEF Game
<1>4. CASE UNCHANGED slotVars
  BY <1>4 DEF slotVars, SlotInv
<1> QED BY <1>1, <1>2, <1>3, <1>4 DEF SlotsNext

(* An exception survives all of it.                                        *)
LEMMA SlotInvShows == SlotInv => HandlerSurvives
<1> SUFFICES ASSUME SlotInv PROVE HandlerSurvives
  OBVIOUS
<1>1. SlotsTypeOK
  <2>1. DOMAIN vectors = 0 .. 43
    BY DEF SlotInv, IsMemory
  <2> QED BY <2>1, HandlerIs DEF SlotsTypeOK, SlotInv
<1>2. After[28] = AtSlots
  BY LoadedRuns, ReplacementRuns, RestRuns DEF SlotInv
<1>3. Kind(After[28])
  BY <1>2 DEF Kind, AtSlots
<1>4. Kind(After[32])
  <2>1. PICK k \in 0 .. 4 : Begun(vectors, 28, "fastTrack", k)
    BY DEF SlotInv, CardSlot
  <2>2. Kind(After[28 + 4])
    BY <1>3, <2>1, SlotRuns
  <2> QED BY <2>2
<1>5. Kind(After[36])
  <2>1. PICK k \in 0 .. 4 : Begun(vectors, 32, "gun", k)
    BY DEF SlotInv
  <2>2. Kind(After[32 + 4])
    BY <1>4, <2>1, SlotRuns
  <2> QED BY <2>2
<1>6. /\ vectors[36] = Nop /\ vectors[37] = Nop /\ vectors[38] = Nop /\ vectors[39] = Nop
      /\ vectors[40] = Nop /\ vectors[41] = Nop /\ vectors[42] = Nop /\ vectors[43] = Nop
  BY DEF SlotInv, Rest
<1>7. Kind(After[40])
  <2>1. Begun(vectors, 36, "gun", 0)
    BY <1>6 DEF Begun, Filled4
  <2>2. Kind(After[36 + 4])
    BY <1>5, <2>1, SlotRuns
  <2> QED BY <2>2
<1>8. Kind(After[44])
  <2>1. Begun(vectors, 40, "gun", 0)
    BY <1>6 DEF Begun, Filled4
  <2>2. Kind(After[40 + 4])
    BY <1>7, <2>1, SlotRuns
  <2> QED BY <2>2
<1>9. ExceptionsSurvive
  <2>1. Entry.saved = {"at", "v0", "v1", "ra", "epc"} /\ Entry.k0 = "registers"
    <3>1. Entry = AtSlots
      BY <1>2, SlotPlaces DEF Entry
    <3> QED BY <3>1 DEF AtSlots, Kept, Four
  <2>2. AfterSlots.lost = FALSE
    <3>1. AfterSlots = After[44]
      BY HandlerIs DEF AfterSlots
    <3> QED BY <1>8, <3>1 DEF Kind, Kept
  <2> QED BY <2>1, <2>2 DEF ExceptionsSurvive
<1>10. SlotsAreApart
  <2>1. \A s, begin : Holds(vectors, s, begin) <=>
          \A i \in begin .. begin + Len(s) - 1 : vectors[i] = s[i - begin + 1]
    BY DEF Holds, Words
  <2>2. \A begin \in {32, 36, 40} : Filled4(vectors, begin, Nop, Nop, Nop, Nop)
                                     => Holds(vectors, Nops, begin)
    <3> SUFFICES ASSUME NEW begin \in {32, 36, 40}, Filled4(vectors, begin, Nop, Nop, Nop, Nop),
                        NEW i \in begin .. begin + 3
                 PROVE  vectors[i] = Nops[i - begin + 1]
      <4>1. Len(Nops) = 4
        BY DEF Nops
      <4>2. \A b \in {32, 36, 40} : b .. b + Len(Nops) - 1 = b .. b + 3
        BY <4>1
      <4>3. \A b \in {32, 36, 40} :
              (\A i \in b .. b + 3 : vectors[i] = Nops[i - b + 1]) => Holds(vectors, Nops, b)
        BY <2>1, <4>2, Zenon
      <4> QED BY <4>3, Zenon
    <3>1. i \in {begin, begin + 1, begin + 2, begin + 3}
      OBVIOUS
    <3>2. \A j \in 1 .. 4 : Nops[j] = Nop
      BY DEF Nops
    <3>3. i - begin + 1 \in 1 .. 4
      OBVIOUS
    <3> QED BY <3>1, <3>2, <3>3 DEF Filled4
  <2>3. Begun(vectors, 32, "gun", 4) => Holds(vectors, CallOf("gun"), 32)
    <3> SUFFICES ASSUME Begun(vectors, 32, "gun", 4), NEW i \in 32 .. 35
                 PROVE  vectors[i] = CallOf("gun")[i - 32 + 1]
      <4>1. Len(CallOf("gun")) = 4
        BY CallWords
      <4>2. \A n : n = 4 => 32 .. 32 + n - 1 = 32 .. 35
        OBVIOUS
      <4>3. 32 .. 32 + Len(CallOf("gun")) - 1 = 32 .. 35
        BY <4>1, <4>2
      <4> QED BY <2>1, <4>3
    <3>1. /\ vectors[32] = <<"high", "gun">> /\ vectors[33] = <<"low", "gun">>
          /\ vectors[34] = <<"jalr", "gun">> /\ vectors[35] = Nop
      BY DEF Begun, Filled4
    <3>2. i \in {32, 33, 34, 35}
      OBVIOUS
    <3> QED BY <3>1, <3>2, CallWords
  <2>4. Begun(vectors, 32, "gun", 0) => Filled4(vectors, 32, Nop, Nop, Nop, Nop)
    BY DEF Begun
  <2>5. Filled4(vectors, 36, Nop, Nop, Nop, Nop) /\ Filled4(vectors, 40, Nop, Nop, Nop, Nop)
    BY <1>6 DEF Filled4
  <2>6. /\ Holds(vectors, Nops, SlotAt(2)) \/ Holds(vectors, CallOf("gun"), SlotAt(2))
        /\ Holds(vectors, Nops, SlotAt(3)) /\ Holds(vectors, Nops, SlotAt(4))
    BY <2>2, <2>3, <2>4, <2>5, SlotPlaces DEF SlotInv
  <2>7. /\ {fastTrack[i] : i \in 10 .. 14} \subseteq {<<"game", i>> : i \in 1 .. 5}
             \/ fastTrack = ImaskTest
        /\ fastTrack[9] = ImaskTest[9] /\ fastTrack[15] = ImaskTest[15]
    <3>1. CASE fastTrack = ImaskTest
      BY <3>1
    <3>2. CASE fastTrack = Written(ImaskTest, GameTest, 10)
      <4>1. DOMAIN ImaskTest = 9 .. 15 /\ Len(GameTest) = 5
        BY DEF ImaskTest, GameTest
      <4>2. fastTrack = [i \in 9 .. 15 |-> IF i \in 10 .. 14 THEN GameTest[i - 10 + 1]
                                            ELSE ImaskTest[i]]
        BY <3>2, <4>1 DEF Written, Words
      <4>3. \A i \in 1 .. 5 : GameTest[i] = <<"game", i>>
        BY DEF GameTest
      <4>4. \A i \in 10 .. 14 : fastTrack[i] = <<"game", i - 10 + 1>> /\ i - 10 + 1 \in 1 .. 5
        BY <4>2, <4>3
      <4>5. fastTrack[9] = ImaskTest[9] /\ fastTrack[15] = ImaskTest[15]
        BY <4>2
      <4> QED BY <4>4, <4>5
    <3> QED BY <3>1, <3>2 DEF SlotInv
  <2> QED BY <2>6, <2>7 DEF SlotsAreApart, SlotInv
<1> QED BY <1>1, <1>9, <1>10 DEF HandlerSurvives

(* Whatever codes games have and in whatever order they call, patch_hook   *)
(* takes the kernel's addresses out of those it knows, gives them what     *)
(* they wanted, and lets through what leaves the handler of exceptions     *)
(* whole (openbios/patches, kernel/vectors.s).  patch_card2_1 is not among *)
(* them: what is left of it writes to the kernel.                          *)
THEOREM KnownPatchesReplaced ==
  "patch_card2_1" \notin Sites /\ PatchSpec /\ SlotsSpec => []PatchesAreReplaced
<1> SUFFICES ASSUME "patch_card2_1" \notin Sites
             PROVE  PatchSpec /\ SlotsSpec => []PatchesAreReplaced
  OBVIOUS
<1>1. PatchInv /\ UNCHANGED patchVars => PatchInv'
  BY DEF PatchInv, patchVars, AsLoaded, AsLeft, PatchedSitesReturn
<1>2. PatchInv /\ SlotInv => PatchesAreReplaced
  BY PatchInvShows, SlotInvShows DEF PatchesAreReplaced
<1>3. PatchSpec => []PatchInv
  BY <1>1, PatchStarts, CallsKeepPatches, PTL DEF PatchSpec
<1>4. SlotsSpec => []SlotInv
  BY SlotsStart, SlotsKeep, PTL DEF SlotsSpec
<1> QED BY <1>2, <1>3, <1>4, PTL
=============================================================================
