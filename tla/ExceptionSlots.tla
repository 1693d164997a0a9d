--------------------------- MODULE ExceptionSlots ---------------------------
(***************************************************************************)
(* The first words of exceptionHandler (kernel/vectors.s), in RAM: they    *)
(* find the registers of the current thread, save four of them, ask what   *)
(* happened, and run four slots of four words that drivers fill.  The card *)
(* driver puts a call of its fast track in the first.  Games write to all  *)
(* of this, at the distances they know from the retail kernel, and         *)
(* patch_hook lets them: "our exception handler is similar".               *)
(*                                                                         *)
(* A word is told apart by what it does to the registers that count: k0,   *)
(* v0, v1 and those already saved.  A load answers one word late.          *)
(***************************************************************************)
EXTENDS Patches, Sequences

VARIABLES
  vectors,   \* exceptionHandler, by word
  fastTrack, \* the words of exceptionHandlerCardFastTrack that games replace,
             \* with one on either side
  vector0,   \* the words at address 0
  copied     \* words of the call patchExceptionHandlerForMC has copied

slotVars == <<vectors, fastTrack, vector0, copied>>

-----------------------------------------------------------------------------
(* Words: k0 is loaded, from itself or anew; a register is saved through   *)
(* it; v0 and v1 answer the cause and the place of the exception.          *)
Nop == <<"nop">>
Nops == <<Nop, Nop, Nop, Nop>>
Load(from, to) == <<"load", from, to>>
Put(from, to)  == <<"set", from, to>>
Save(r) == <<"save", r>>
Own == <<"own">>

FindRegisters ==     \* li k0, globals; lw; nop; lw; nop; addi
  <<Put("any", "globals"), Load("globals", "processes"), Nop,
    Load("processes", "thread"), Nop, Put("thread", "registers")>>
SaveFour == <<Save("at"), Save("v0"), Save("v1"), Save("ra")>>

(* exceptionHandler as it is loaded, up to its fourth slot.                *)
HandlerWords ==
  Nops \o FindRegisters \o SaveFour \o <<<<"getCop0CauseAndEPC">>, Nop, <<"excode">>>>
    \o [i \in 1 .. 10 |-> Own] \o <<Save("epc")>> \o Nops \o Nops \o Nops \o Nops
Slot1 == 28
SlotAt(n) == Slot1 + 4 * (n - 1)

(* What a slot is given: the address of a function in v0, and its call.    *)
CallOf(f) == <<<<"high", f>>, <<"low", f>>, <<"jalr", f>>, Nop>>

(* The test of IMASK, from word 10 of the fast track on, and its ends.     *)
ImaskTest == [i \in 9 .. 15 |-> <<"fast", i>>]

Words(s, first) == [i \in first .. first + Len(s) - 1 |-> s[i - first + 1]]
Written(memory, s, first) ==
  [i \in DOMAIN memory |-> IF i \in DOMAIN Words(s, first) THEN Words(s, first)[i] ELSE memory[i]]
Holds(memory, s, first) == \A i \in DOMAIN Words(s, first) : memory[i] = Words(s, first)[i]

SlotsInit ==
  /\ vectors = Words(HandlerWords, 0)
  /\ fastTrack = ImaskTest
  /\ vector0 = [i \in 0 .. 19 |-> Own]
  /\ copied = 4

(* initCard begins patchExceptionHandlerForMC: nothing keeps interrupts    *)
(* away while it copies, word by word.                                     *)
CopyWord ==
  /\ copied < 4
  /\ vectors' = [vectors EXCEPT ![SlotAt(1) + copied] = CallOf("fastTrack")[copied + 1]]
  /\ copied' = copied + 1
  /\ UNCHANGED <<fastTrack, vector0>>
patchExceptionHandlerForMC ==
  /\ copied = 4
  /\ copied' = 0
  /\ UNCHANGED <<vectors, fastTrack, vector0>>

-----------------------------------------------------------------------------
(* The games' patches, each in a critical section, as the listings have    *)
(* them.  The new words of initgun_1 and patch_card are not listed.        *)

(* Three words of slot 1 are cleared.                                      *)
clear_card_1 ==
  /\ vectors' = Written(vectors, <<Nop, Nop, Nop>>, SlotAt(1))
  /\ UNCHANGED <<fastTrack, vector0>>

(* Slot 2 is given a handler of the game's.                                *)
initgun_1 ==
  /\ vectors' = Written(vectors, CallOf("gun"), SlotAt(2))
  /\ UNCHANGED <<fastTrack, vector0>>

(* Five words of the fast track are replaced, found by the halves of its   *)
(* address in slot 1; if there are none the words are at address 0.        *)
GameTest == [i \in 1 .. 5 |-> <<"game", i>>]
patch_card ==
  /\ IF Holds(vectors, SubSeq(CallOf("fastTrack"), 1, 2), SlotAt(1))
     THEN fastTrack' = Written(fastTrack, GameTest, 10) /\ UNCHANGED vector0
     ELSE vector0' = Written(vector0, GameTest, 10) /\ UNCHANGED fastTrack
  /\ UNCHANGED vectors

(* The words for a processor whose answers come late are put in place of   *)
(* those of the retail kernel, if these are what is there.                 *)
patch_gte_1 ==
  /\ LET old == SaveFour \o <<<<"mfc0_v1">>, Nop>>
         new == <<Save("at"), Save("v0"), <<"mfc0_v0">>, Save("v1"), <<"mfc0_v1">>, Save("ra")>>
     IN  vectors' = IF Holds(vectors, old, 10) THEN Written(vectors, new, 10) ELSE vectors
  /\ UNCHANGED <<fastTrack, vector0>>

(* The whole of the beginning is replaced, whatever is there.              *)
patch_gte_2 ==
  /\ vectors' = Written(vectors, <<Nop, Nop>> \o FindRegisters \o SaveFour \o <<<<"mfc0_v0">>, Nop>>, 0)
  /\ UNCHANGED <<fastTrack, vector0>>

Game ==
  /\ copied = 4
  /\ clear_card_1 \/ initgun_1 \/ patch_card \/ patch_gte_1 \/ patch_gte_2
  /\ UNCHANGED copied

SlotsNext == patchExceptionHandlerForMC \/ CopyWord \/ Game

SlotsSpec == SlotsInit /\ [][SlotsNext]_slotVars

-----------------------------------------------------------------------------
(* What the words do, run one after another.                               *)

Registers ==
  [k0 |-> "any", late |-> "none", v0 |-> "program", v1 |-> "program",
   at |-> "program", ra |-> "program", saved |-> {}, called |-> {}, lost |-> FALSE]

(* k0 as the word leaves it: what was loaded before it is there after it.  *)
Arrived(r) == IF r.late = "none" THEN r ELSE [r EXCEPT !.k0 = r.late, !.late = "none"]

Does(r, w) ==
  LET s == Arrived(r) IN
  CASE w[1] = "load" -> [s EXCEPT !.late = IF r.k0 = w[2] THEN w[3] ELSE "lost"]
    [] w[1] = "set" ->
         [s EXCEPT !.k0 = IF w[2] \in {"any", r.k0} THEN w[3] ELSE "lost", !.late = "none"]
    [] w[1] = "save" ->
         IF w[2] = "epc"
         THEN [s EXCEPT !.saved = @ \cup {"epc"}, !.lost = @ \/ r.k0 # "registers" \/ r.v1 # "epc"]
         ELSE [s EXCEPT !.saved = @ \cup {w[2]},
                        !.lost = @ \/ r.k0 # "registers" \/ r[w[2]] # "program"]
    [] w[1] = "mfc0_v0" -> [s EXCEPT !.v0 = "cause"]
    [] w[1] = "mfc0_v1" -> [s EXCEPT !.v1 = "epc"]
    [] w[1] = "getCop0CauseAndEPC" -> [s EXCEPT !.v0 = "cause", !.v1 = "epc", !.ra = "handler"]
    [] w[1] = "excode" -> [s EXCEPT !.lost = @ \/ r.v0 # "cause"]
    [] w[1] = "high" -> [s EXCEPT !.v0 = w]
    [] w[1] = "low" -> [s EXCEPT !.v0 = IF r.v0 = <<"high", w[2]>> THEN w ELSE <<"half">>]
    [] w[1] = "jalr" ->
         [s EXCEPT !.ra = "handler", !.called = @ \cup {w[2]}, !.lost = @ \/ r.v0 # <<"low", w[2]>>]
    [] OTHER -> s

After[i \in 0 .. Len(HandlerWords)] ==
  IF i = 0 THEN Registers ELSE Does(After[i - 1], vectors[i - 1])

Entry == After[SlotAt(1)]
AfterSlots == After[Len(HandlerWords)]

SlotsTypeOK == DOMAIN vectors = 0 .. Len(HandlerWords) - 1 /\ copied \in 0 .. 4

(* "Our exception handler is correct, so no patch nor behavior change is   *)
(* necessary. Let the patch through" (patches/patch_gte_1.c): whatever     *)
(* games have written, and wherever in its copying the card driver is, an  *)
(* exception saves the program's registers before it uses them, knows its  *)
(* cause and its place, and calls in its slots only what was put there.    *)
ExceptionsSurvive ==
  /\ Entry.saved = {"at", "v0", "v1", "ra", "epc"} /\ Entry.k0 = "registers"
  /\ ~AfterSlots.lost

(* A slot belongs to its driver: the card driver's call is there once it   *)
(* has been copied, until the game clears it, and the gun's beside it.     *)
(* The words around the test of IMASK are never replaced, nor the break    *)
(* vector (address 40), whether the card driver was started or not         *)
(* (cardfasttrack.s: "games will patch portions of it").                   *)
SlotsAreApart ==
  /\ Holds(vectors, Nops, SlotAt(2)) \/ Holds(vectors, CallOf("gun"), SlotAt(2))
  /\ Holds(vectors, Nops, SlotAt(3)) /\ Holds(vectors, Nops, SlotAt(4))
  /\ {fastTrack[i] : i \in 10 .. 14} \subseteq {<<"game", i>> : i \in 1 .. 5}
       \/ fastTrack = ImaskTest
  /\ fastTrack[9] = ImaskTest[9] /\ fastTrack[15] = ImaskTest[15]
  /\ \A i \in 16 .. 19 : vector0[i] = Own

(* What games and the card driver write leaves an exception handler        *)
(* (kernel/vectors.s, openbios/patches).                                   *)
HandlerSurvives == SlotsTypeOK /\ ExceptionsSurvive /\ SlotsAreApart

(* A game may write to the kernel where OpenBIOS lets it, and nowhere else *)
(* for a patch it knows: what patch_hook rewrites does no harm and has its *)
(* effect (Patches), what it lets through leaves a handler of exceptions.  *)
PatchesAreReplaced == PatchesReplaced /\ HandlerSurvives
=============================================================================
