------------------------------ MODULE ModLoad ------------------------------
(***************************************************************************)
(* Where a module lies in memory (modplayer/modplayer.c): MOD_Load keeps a *)
(* pointer into the file, MOD_Relocate copies the part the player needs to *)
(* a buffer of the program's, and the program reuses the rest of the file, *)
(* its samples, which are in the sound memory by then.                     *)
(*                                                                         *)
(* Memory is a row of cells.  A file is Header cells, one cell of order    *)
(* table and signature, one cell for each pattern, then the samples.       *)
(***************************************************************************)
EXTENDS Integers

CONSTANTS
  Cells,     \* cells of memory
  Header,    \* cells of a file before its order table
  Tables,    \* order tables: the sets of patterns they name
  Upwards    \* whether a module is only moved to a higher address

(* A byte of the order table names a pattern.                              *)
ASSUME CellsAssumption ==
  /\ Cells \in Nat /\ Header \in Nat
  /\ \A names \in Tables : names # {} /\ names \subseteq 0 .. 255

VARIABLES
  memory,      \* cell -> what it holds
  moduleData,  \* MOD_ModuleData, or -1 before a load
  named        \* the patterns named by the table of the song

loadVars == <<memory, moduleData, named>>

Addresses == 0 .. Cells - 1
Largest(S) == CHOOSE p \in S : \A q \in S : q <= p

(* The size of what the player needs: the table, and the patterns up to    *)
(* the highest one that any entry of the table names, played or not.       *)
Needed(names) == 1 + (Largest(names) + 1)

LoadInit ==
  /\ memory = [a \in Addresses |-> <<"other", 0>>]
  /\ moduleData = -1 /\ named \in Tables

(* What the cell at an offset from the order table has to hold.            *)
Content(offset) == IF offset = 0 THEN <<"table", 0>> ELSE <<"pattern", offset - 1>>

(* The program reads a file to an address and loads it.                    *)
MOD_Load(at) ==
  /\ moduleData = -1
  /\ at + Header + Needed(named) <= Cells
  /\ memory' = [a \in Addresses |-> IF a - at - Header \in 0 .. Needed(named) - 1
                                    THEN Content(a - at - Header) ELSE memory[a]]
  /\ moduleData' = at + Header
  /\ UNCHANGED named

(* Mutant: the cells are copied from the first one on, whatever the way.   *)
FirstCellFirst(to, from, n) ==
  LET after[i \in 0 .. n] ==
        IF i = 0 THEN memory
        ELSE [after[i - 1] EXCEPT ![to + i - 1] = after[i - 1][from + i - 1]]
  IN  after[n]

(* The two loops of MOD_Relocate: n cells, the first or the last one first.*)
Forwards(to, from, n) ==
  LET after[i \in 0 .. n] ==
        IF i = 0 THEN memory
        ELSE [after[i - 1] EXCEPT ![to + i - 1] = after[i - 1][from + i - 1]]
  IN  after[n]
Backwards(to, from, n) ==
  LET after[i \in 0 .. n] ==
        IF i = 0 THEN memory
        ELSE [after[i - 1] EXCEPT ![to + n - i] = after[i - 1][from + n - i]]
  IN  after[n]

(* The copy moves the pointer that is kept: backwards it ends at the       *)
(* buffer, forwards behind it.                                             *)
MOD_Relocate(buffer) ==
  LET n == Needed(named) IN
  /\ moduleData # -1 /\ buffer + n <= Cells
  /\ Upwards => buffer >= moduleData
  /\ CASE buffer = moduleData -> UNCHANGED <<memory, moduleData>>
       [] buffer < moduleData -> /\ memory' = Forwards(buffer, moduleData, n)
                                 /\ moduleData' = buffer + n
       [] buffer > moduleData -> /\ memory' = Backwards(buffer, moduleData, n)
                                 /\ moduleData' = buffer
  /\ UNCHANGED named

(* The program uses memory that MOD_Load's answer leaves it.               *)
Reuse(a) ==
  /\ moduleData # -1 /\ a \notin moduleData .. moduleData + Needed(named) - 1
  /\ memory' = [memory EXCEPT ![a] = <<"reused", 0>>]
  /\ UNCHANGED <<moduleData, named>>

LoadNext ==
  \/ \E a \in Addresses : MOD_Load(a)
  \/ \E a \in Addresses : MOD_Relocate(a)
  \/ \E a \in Addresses : Reuse(a)

LoadSpec == LoadInit /\ [][LoadNext]_loadVars

-----------------------------------------------------------------------------
(* "The number of bytes needed for the player will be returned by MOD_Load.*)
(* Call MOD_Relocate with a new memory buffer that has at least this many  *)
(* bytes" (modplayer.h): wherever the module was moved, and whatever the   *)
(* program does with the rest of memory, the player finds the table and    *)
(* every pattern the table names.                                          *)
PlayerFindsModule ==
  moduleData # -1 =>
    \A offset \in 0 .. Largest(named) + 1 :
      /\ moduleData + offset \in Addresses
      /\ memory[moduleData + offset] = Content(offset)
=============================================================================
