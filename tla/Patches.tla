------------------------------- MODULE Patches -------------------------------
(***************************************************************************)
(* Games patch the kernel: they ask it for one of its tables (B0:56,       *)
(* B0:57) and write to code they reckon from there.  OpenBIOS lays its     *)
(* code out differently, so patch_hook (openbios/patches) recognises the   *)
(* code it returns to, rewrites it so that it writes nothing, and does     *)
(* itself what the patch was for.                                          *)
(*                                                                         *)
(* A game's code is the row of its instructions from the one the call      *)
(* returns to (word 0), each told apart only as far as it matters here:    *)
(* "kernel" writes to the kernel, <<"capture", h>> keeps, in a variable of *)
(* the game whose address is made of word h and of this one, the address   *)
(* of a kernel function, "exit" leaves the critical section, "return" goes *)
(* back.  Hashes of different codes differ (those of the tables do).       *)
(***************************************************************************)
EXTENDS Naturals

CONSTANTS
  Sites,        \* the codes a game has: names of patches, or "unknown"
  Permissive    \* g_patch_permissive

VARIABLES
  words,     \* site -> its instructions
  variables, \* site -> what its variables hold: a kernel function, or an
             \* address reckoned by the game
  instead,   \* what the kernel does instead of the patches
  touched,   \* sites that wrote to the kernel
  critical,  \* sites that came back without leaving the critical section
  stopped    \* patch_hook does not return any more

patchVars == <<words, variables, instead, touched, critical, stopped>>

-----------------------------------------------------------------------------
(* The patches that are replaced.  jump: the distance written to word 2,   *)
(* as a branch's, from word 3; zeros: other words cleared; sets: what the  *)
(* kernel is told; gives: pairs of words that make the address of a        *)
(* variable that is given a function.  Of the code: the words that write   *)
(* to the kernel, those that capture, the call of exitCriticalSection, 0   *)
(* if there is none, the return, and the words that are nops.              *)
patch_card_info_1 ==
  [jump |-> 0, zeros |-> {3, 5}, sets |-> "mcCardInfo", gives |-> {},
   kernel |-> {5}, capture |-> {}, exit |-> 0, return |-> 9, nops |-> {2, 8, 10}]
patch_card2_1 ==
  [jump |-> 9, zeros |-> {3}, sets |-> "mcDelay200", gives |-> {},
   kernel |-> {12}, capture |-> {}, exit |-> 0, return |-> 18, nops |-> {14, 17, 19}]
patch_card2_2 ==
  [jump |-> 9, zeros |-> {3}, sets |-> "mcDelay40", gives |-> {},
   kernel |-> {9}, capture |-> {}, exit |-> 0, return |-> 18, nops |-> {1, 8, 14, 17, 19}]
patch_pad_1 ==
  [jump |-> 11, zeros |-> {3}, sets |-> "noSlotChange", gives |-> {<<3, 4>>, <<6, 7>>},
   kernel |-> {8}, capture |-> {<<3, 4>>, <<6, 7>>}, exit |-> 0, return |-> 18,
   nops |-> {12, 14, 17, 19}]
patch_pad_2 ==
  [jump |-> 10, zeros |-> {3}, sets |-> "noSlotChange", gives |-> {<<1, 3>>, <<4, 7>>},
   kernel |-> {9}, capture |-> {<<1, 3>>, <<4, 7>>}, exit |-> 0, return |-> 17,
   nops |-> {13, 16, 18}]
patch_pad_3 ==
  [jump |-> 2, zeros |-> {3}, sets |-> "noSlotChange", gives |-> {},
   kernel |-> {3}, capture |-> {}, exit |-> 0, return |-> 11, nops |-> {7, 10, 12}]
remove_ChgclrPAD_1 ==
  [jump |-> 7, zeros |-> {3}, sets |-> "noChgclrPAD", gives |-> {},
   kernel |-> {4}, capture |-> {}, exit |-> 11, return |-> 16, nops |-> {2, 8, 10, 12, 15, 17}]
remove_ChgclrPAD_2 ==
  [jump |-> 5, zeros |-> {3}, sets |-> "noChgclrPAD", gives |-> {},
   kernel |-> {4}, capture |-> {}, exit |-> 9, return |-> 14, nops |-> {8, 10, 13, 15}]

(* Mutant of the next one: it jumps over the call of exitCriticalSection.  *)
TooFar ==
  [jump |-> 17, zeros |-> {3}, sets |-> "sendPad", gives |-> {<<7, 8>>},
   kernel |-> {11, 12}, capture |-> {<<7, 8>>}, exit |-> 19, return |-> 25,
   nops |-> {5, 10, 16, 18, 20, 26}]

send_pad_1 ==
  [jump |-> 15, zeros |-> {3}, sets |-> "sendPad", gives |-> {<<7, 8>>},
   kernel |-> {11, 12}, capture |-> {<<7, 8>>}, exit |-> 19, return |-> 25,
   nops |-> {5, 10, 16, 18, 20, 26}]
send_pad_2 ==
  [jump |-> 12, zeros |-> {3}, sets |-> "sendPad", gives |-> {<<3, 7>>},
   kernel |-> {10, 13}, capture |-> {<<3, 7>>}, exit |-> 16, return |-> 22,
   nops |-> {15, 17, 23}]

B0patches ==
  [patch_card_info_1 |-> patch_card_info_1, patch_card2_1 |-> patch_card2_1,
   patch_card2_2 |-> patch_card2_2, patch_pad_1 |-> patch_pad_1, patch_pad_2 |-> patch_pad_2,
   patch_pad_3 |-> patch_pad_3, remove_ChgclrPAD_1 |-> remove_ChgclrPAD_1,
   remove_ChgclrPAD_2 |-> remove_ChgclrPAD_2, send_pad_1 |-> send_pad_1, send_pad_2 |-> send_pad_2]

(* The patches that may run as they are: the code they change is where     *)
(* they look for it.                                                       *)
C0patches ==
  {"clear_card_1", "initgun_1", "patch_card_1", "patch_card_2",
   "patch_gte_1", "patch_gte_2", "patch_gte_3"}

(* The code that belongs to a patch.                                       *)
Code(p) ==
  [i \in 0 .. p.return + 1 |->
     CASE i \in p.kernel -> <<"kernel">>
       [] \E h \in 0 .. i : <<h, i>> \in p.capture -> <<"capture", CHOOSE h \in 0 .. i : <<h, i>> \in p.capture>>
       [] i = p.exit /\ i > 0 -> <<"exit">>
       [] i = p.return -> <<"return">>
       [] i \in p.nops -> <<"nop">>
       [] OTHER -> <<"own">>]
KnownCodes == [n \in DOMAIN B0patches |-> Code(B0patches[n])]
PlainCode ==
  [site \in Sites |->
     IF site \in DOMAIN B0patches THEN KnownCodes[site]
     ELSE [i \in 0 .. 3 |-> <<CASE i = 1 -> "kernel" [] i = 2 -> "return" [] OTHER -> "own", site>>]]

PatchInit ==
  /\ words = PlainCode
  /\ variables = [site \in Sites |-> {}]
  /\ instead = {} /\ touched = {} /\ critical = {} /\ stopped = FALSE

(* "already patched, bail out".                                            *)
Patched(code) == \A i \in {0, 1, 3} : code[i] = <<"nop">>

(* What a counterpatch leaves of the code.                                 *)
Rewritten(code, p) ==
  [i \in DOMAIN code |->
     CASE i \in {0, 1} \cup p.zeros -> <<"nop">>
       [] i = 2 -> <<"jump", p.jump>>
       [] OTHER -> code[i]]

(* patch_hook: what it makes of the site, or that it does not return.      *)
patch_hook(site) ==
  LET code == words[site]
      known == {n \in DOMAIN B0patches : code = KnownCodes[n]}
  IN  CASE Patched(code) -> UNCHANGED <<words, instead, stopped>>
        [] ~Patched(code) /\ known # {} ->
             LET p == B0patches[CHOOSE n \in known : TRUE] IN
             /\ words' = [words EXCEPT ![site] = Rewritten(code, p)]
             /\ instead' = (IF p.sets \in {"mcDelay40", "mcDelay200"}
                          THEN instead \ {"mcDelay40", "mcDelay200"} ELSE instead) \cup {p.sets}
             /\ UNCHANGED stopped
        [] ~Patched(code) /\ known = {} ->
             /\ stopped' = (site \notin C0patches /\ ~Permissive)
             /\ UNCHANGED <<words, instead>>
Given(site) ==
  IF words[site] # words'[site] THEN {<<v, "kernel">> : v \in B0patches[site].gives} ELSE {}

(* The words a site runs, in order, after the call: a jump goes on after   *)
(* the word behind it.                                                     *)
WordsRun(code) ==
  LET end == CHOOSE i \in DOMAIN code : code[i][1] = "return"
  IN  {i \in 0 .. end : ~\E j \in 0 .. i : code[j][1] = "jump" /\ i > j + 1 /\ i < j + 1 + code[j][2]}

(* A game calls for the table, and its code goes on from there.            *)
CallTable(site) ==
  /\ ~stopped
  /\ patch_hook(site)
  /\ IF stopped' THEN UNCHANGED <<variables, touched, critical>>
     ELSE LET code == words'[site]
              captured == {<<code[i][2], i>> : i \in {j \in WordsRun(code) : code[j][1] = "capture"}}
              left == {v \in variables[site] \cup Given(site) : v[1] \notin captured}
          IN
          /\ variables' = [variables EXCEPT ![site] = left \cup {<<v, "game">> : v \in captured}]
          /\ touched' = IF \E i \in WordsRun(code) : code[i][1] = "kernel"
                        THEN touched \cup {site} ELSE touched
          /\ critical' = IF \E i \in DOMAIN code : code[i][1] = "exit" /\ i \notin WordsRun(code)
                         THEN critical \cup {site} ELSE critical

PatchNext == \E site \in Sites : CallTable(site)

PatchSpec == PatchInit /\ [][PatchNext]_patchVars

-----------------------------------------------------------------------------
Replaced == DOMAIN B0patches

PatchTypeOK ==
  /\ DOMAIN words = Sites /\ \A site \in Sites : DOMAIN words[site] = DOMAIN PlainCode[site]
  /\ instead \subseteq {B0patches[n].sets : n \in Replaced}
  /\ \A site \in Sites : variables[site] \subseteq
       (IF site \in Replaced THEN B0patches[site].capture ELSE {}) \X {"kernel", "game"}

(* "we patch them out after we detect them" (patches.h): no code of a      *)
(* recognised patch writes to the kernel, neither when it is first run nor *)
(* later.                                                                  *)
KernelUntouched == touched \cap Replaced = {}

(* A variable in which a game meant to keep a kernel function holds one,   *)
(* of the kernel's own, whenever the game's code has run.                  *)
VariablesHoldFunctions ==
  \A site \in Sites \cap Replaced :
    words[site] # PlainCode[site] =>
      variables[site] = {<<v, "kernel">> : v \in B0patches[site].capture}

(* A game can call a patched site again, as it does when it starts its     *)
(* pads again: the site is known for what it is.                           *)
PatchedSitesReturn == Sites \subseteq Replaced \cup C0patches => ~stopped

(* The code that is left still leaves the critical section it entered.     *)
SectionIsLeft == critical = {}

(* What patch_hook leaves of a known patch does no harm, has the effect    *)
(* the game wanted and may be called again (openbios/patches).             *)
PatchesReplaced ==
  /\ PatchTypeOK /\ KernelUntouched /\ VariablesHoldFunctions
  /\ PatchedSitesReturn /\ SectionIsLeft
=============================================================================
