------------------------------ MODULE ModSong ------------------------------
(***************************************************************************)
(* The way a module is stepped through (modplayer/modplayer.c): MOD_Poll   *)
(* counts ticks, delays and loops rows, and finds the next one; a program  *)
(* may move the position between two polls.  What a row does to the voices *)
(* is module ModVoice; the tempo only changes how often polls come.        *)
(*                                                                         *)
(* A command of a row is <<letter, parameter>>, of the letters that move   *)
(* the position; E6 loops the pattern and EE delays it.  MOD_CurrentPattern*)
(* is always the entry of MOD_CurrentOrder in the order table.             *)
(***************************************************************************)
EXTENDS Integers, Sequences

CONSTANTS
  Songs,        \* [table |-> patterns in order, rows |-> pattern, row -> commands]
  Rows,         \* rows of a pattern: 64 in the format
  OrdersAsked,  \* values a program gives MOD_NextOrder
  RowsAsked,    \* values a program gives MOD_NextRow
  AsksForBoth   \* whether it moves the order and the row at once

(* A pattern has Rows rows of one command for each channel; a parameter    *)
(* is a byte, that of an extended command a digit.                         *)
ASSUME SongsAssumption ==
  /\ Rows \in Nat \ {0} /\ OrdersAsked \subseteq Nat /\ RowsAsked \subseteq Nat
  /\ \A s \in Songs :
       /\ s.table \in Seq(DOMAIN s.rows) /\ s.table # <<>>
       /\ \A p \in DOMAIN s.rows, r \in 0 .. Rows - 1 :
            s.rows[p][r] \in Seq(STRING \X Nat)
       /\ \A p \in DOMAIN s.rows, r \in 0 .. Rows - 1 :
            \A c \in DOMAIN s.rows[p][r] :
              s.rows[p][r][c][1] \in {"E6", "EE"} => s.rows[p][r][c][2] \in 0 .. 15

VARIABLES
  song,        \* the module that was loaded
  mod,         \* the MOD_ variables
  rowPointer,  \* MOD_RowPointer: the order and the row being played
  due,         \* history: polls until the next row has to be played
  want         \* history: the order and row that has to be

songVars == <<song, mod, rowPointer, due, want>>

SongLength == Len(song.table)
InSong(o)  == IF o >= SongLength THEN 0 ELSE o
Commands(o, r) == song.rows[song.table[o + 1]][r]

(* MOD_Load: the first poll plays the first row.                           *)
SongInit ==
  /\ song \in Songs
  /\ mod = [order |-> 0, row |-> 0, speed |-> 6, tick |-> 6, patternDelay |-> 0,
            changeRow |-> FALSE, nextRow |-> 0, changeOrder |-> FALSE, nextOrder |-> 0,
            loopCount |-> 0]
  /\ rowPointer = <<0, 0>>
  /\ due = 1 /\ want = <<0, 0>>

-----------------------------------------------------------------------------
(* Rows are numbered in decimal: 0x10 is row 10.                           *)
RowAsked(n) ==
  LET r == (n \div 16) * 10 + (n % 16) IN IF r >= Rows THEN 0 ELSE r

(* Mutant: a program's row counts only when the order is moved too.        *)
RowNeedsOrder(m) ==
  IF m.changeOrder THEN [m EXCEPT !.row = 0, !.order = InSong(m.nextOrder),
                                  !.changeRow = FALSE, !.changeOrder = FALSE]
  ELSE [m EXCEPT !.row = IF m.changeRow /\ m.row = 0 THEN RowAsked(m.nextRow) ELSE @,
                 !.changeRow = FALSE]

(* Where MOD_UpdateRow finds the row it plays.                             *)
Moved(m) ==
  LET ordered == IF m.changeOrder
                 THEN [m EXCEPT !.row = 0, !.order = InSong(m.nextOrder)] ELSE m
      rowed   == IF m.changeRow
                 THEN [ordered EXCEPT
                         !.row = RowAsked(m.nextRow),
                         !.order = IF m.changeOrder THEN InSong(@ + 1) ELSE @]
                 ELSE ordered
  IN  [rowed EXCEPT !.changeRow = FALSE, !.changeOrder = FALSE]

(* One channel's command; of two jumps in a row the first counts.  The     *)
(* loop always goes back to MOD_LoopStart, which nothing sets but the load.*)
ChannelCommand(m, c) ==
  CASE c[1] = "B"  -> IF m.changeOrder THEN m
                      ELSE [m EXCEPT !.changeOrder = TRUE, !.nextOrder = c[2]]
    [] c[1] = "D"  -> IF m.changeRow THEN m
                      ELSE [m EXCEPT !.changeRow = TRUE, !.nextRow = c[2]]
    [] c[1] = "E6" -> LET left == IF m.loopCount = 0 THEN c[2] ELSE m.loopCount - 1
                      IN  [m EXCEPT !.loopCount = left, !.row = IF left = 0 THEN @ ELSE 0]
    [] c[1] = "EE" -> [m EXCEPT !.patternDelay = c[2]]
    [] c[1] = "F"  -> IF c[2] \in 1 .. 31 THEN [m EXCEPT !.speed = c[2]] ELSE m
    [] OTHER       -> m

(* MOD_UpdateRow: one channel after the other.                             *)
UpdateRow(m) ==
  LET at == Moved(m)
      commands == Commands(at.order, at.row)
      played[c \in 0 .. Len(commands)] ==
        IF c = 0 THEN at ELSE ChannelCommand(played[c - 1], commands[c])
  IN  played[Len(commands)]

(* What follows the row in MOD_Poll: the next row, or the next pattern.    *)
NextRow(m) ==
  IF m.row + 1 >= Rows \/ m.changeRow
  THEN [m EXCEPT !.row = 0, !.order = InSong(@ + 1)]
  ELSE [m EXCEPT !.row = @ + 1]

(* History: the row after one that plays at <<o, r>>, read off its         *)
(* commands: its first jump, its first break, or simply the next.          *)
Of(o, r, letter) == {i \in DOMAIN Commands(o, r) : Commands(o, r)[i][1] = letter}
FirstOf(o, r, letter) ==
  Commands(o, r)[CHOOSE i \in Of(o, r, letter) : \A j \in Of(o, r, letter) : i <= j][2]

After(o, r) ==
  LET next == InSong(o + 1)
      row  == RowAsked(FirstOf(o, r, "D"))
  IN  IF Of(o, r, "B") # {}
      THEN <<InSong(FirstOf(o, r, "B")), IF Of(o, r, "D") = {} THEN 0 ELSE row>>
      ELSE IF Of(o, r, "D") # {} THEN <<next, row>>
      ELSE IF r + 1 = Rows THEN <<next, 0>> ELSE <<o, r + 1>>

PlaysRow == mod.tick + 1 >= mod.speed /\ mod.patternDelay = 0

(* Mutant: a delay counts ticks, as the code this one was made after did.  *)
DelayCountsTicks ==
  /\ UNCHANGED song
  /\ IF mod.patternDelay > 0
     THEN /\ mod' = [mod EXCEPT !.patternDelay = @ - 1]
          /\ due' = due - 1 /\ UNCHANGED <<rowPointer, want>>
     ELSE IF mod.tick + 1 < mod.speed
     THEN /\ mod' = [mod EXCEPT !.tick = @ + 1]
          /\ due' = due - 1 /\ UNCHANGED <<rowPointer, want>>
     ELSE LET at     == Moved(mod)
              played == UpdateRow([mod EXCEPT !.tick = 0])
          IN  /\ mod' = NextRow(played)
              /\ rowPointer' = <<at.order, at.row>>
              /\ due' = played.speed * (1 + played.patternDelay)
              /\ want' = After(at.order, at.row)

MOD_Poll ==
  /\ UNCHANGED song
  /\ IF PlaysRow
     THEN LET at     == Moved(mod)
              played == UpdateRow([mod EXCEPT !.tick = 0])
          IN  /\ mod' = NextRow(played)
              /\ rowPointer' = <<at.order, at.row>>
              /\ due' = played.speed * (1 + played.patternDelay)
              /\ want' = After(at.order, at.row)
     ELSE /\ mod' = IF mod.tick + 1 < mod.speed
                    THEN [mod EXCEPT !.tick = @ + 1]
                    ELSE [mod EXCEPT !.tick = 0, !.patternDelay = @ - 1]
          /\ due' = due - 1
          /\ UNCHANGED <<rowPointer, want>>

-----------------------------------------------------------------------------
(* A program sets the position between two polls, as modplayer.h lets it,  *)
(* and MOD_Tick to MOD_Speed when it wants it at once: at once is when the *)
(* row's delay has ended.                                                  *)
AtOnce(m, now) == IF now THEN [m EXCEPT !.tick = m.speed] ELSE m
DueAfter(now) == IF now THEN 1 + mod.patternDelay * mod.speed ELSE due

AskOrder(o, now) ==
  /\ mod' = AtOnce([mod EXCEPT !.changeOrder = TRUE, !.nextOrder = o], now)
  /\ want' = <<InSong(o), IF mod.changeRow THEN RowAsked(mod.nextRow) ELSE 0>>
  /\ due' = DueAfter(now)
  /\ UNCHANGED <<song, rowPointer>>

AskRow(r, now) ==
  /\ mod' = AtOnce([mod EXCEPT !.changeRow = TRUE, !.nextRow = r], now)
  /\ want' = <<IF mod.changeOrder THEN InSong(mod.nextOrder) ELSE mod.order, RowAsked(r)>>
  /\ due' = DueAfter(now)
  /\ UNCHANGED <<song, rowPointer>>

Ask ==
  \/ \E o \in OrdersAsked, now \in BOOLEAN :
       (~mod.changeRow \/ AsksForBoth) /\ AskOrder(o, now)
  \/ \E r \in RowsAsked, now \in BOOLEAN :
       (~mod.changeOrder \/ AsksForBoth) /\ AskRow(r, now)

SongNext == MOD_Poll \/ Ask
SongSpec == SongInit /\ [][SongNext]_songVars /\ WF_songVars(MOD_Poll)

-----------------------------------------------------------------------------
(* The type of the MOD_ variables, with the bounds that keep every read of *)
(* the order table and of the patterns inside the module.                  *)
SongTypeOK ==
  /\ mod.order \in 0 .. SongLength - 1 /\ mod.row \in 0 .. Rows - 1
  /\ mod.speed \in 1 .. 31 /\ mod.tick \in 0 .. 31 /\ mod.patternDelay \in 0 .. 15
  /\ mod.changeRow \in BOOLEAN /\ mod.changeOrder \in BOOLEAN /\ mod.loopCount \in 0 .. 15
  /\ rowPointer \in (0 .. SongLength - 1) \X (0 .. Rows - 1)

(* A row lasts its speed, as many times over as its delay says and once    *)
(* more ("actual line delays", modplayer.c), whichever way the ticks, the  *)
(* delay and a change of speed in the row itself fall.                     *)
RowsKeepTime == due >= 1 /\ (due = 1 <=> PlaysRow)

SongKeepsTime == SongTypeOK /\ RowsKeepTime

(* The row that plays is the one the row before or the program asked for   *)
(* last, though other polls, delays and a pattern's end lie between.       *)
LoopsIn(o, r) == Of(o, r, "E6") # {}
PositionAskedFor ==
  [][(MOD_Poll /\ PlaysRow /\ ~LoopsIn(rowPointer[1], rowPointer[2]))
       => rowPointer' = want]_songVars

(* A song that has no order jumps plays all of its orders over and over:   *)
(* loops and delays end.                                                   *)
Jumps == \E p \in DOMAIN song.rows, r \in 0 .. Rows - 1 :
           \E i \in DOMAIN song.rows[p][r] : song.rows[p][r][i][1] = "B"
SongGoesOn ==
  \A o \in UNION {DOMAIN s.table : s \in Songs} :
    []((o \in DOMAIN song.table /\ ~Jumps) => <>(rowPointer[1] + 1 = o))
=============================================================================
