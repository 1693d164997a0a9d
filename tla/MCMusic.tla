------------------------------ MODULE MCMusic ------------------------------
(***************************************************************************)
(* The module player's voices and its place in memory.  The voices are     *)
(* checked twice: with the commands that change the pitch, and with those  *)
(* that change the volume while the program does too.  One part moves in   *)
(* each behaviour, the other stays in its initial state.                   *)
(***************************************************************************)
EXTENDS ModVoice, ModLoad, TLC

VARIABLE part      \* which one moves

(* Three notes in two tunings, with the periods of the source, and one or  *)
(* two parameters for every command.                                       *)
Periods == (0 :> 856) @@ (1 :> 428) @@ (2 :> 113) @@ (3 :> 907) @@ (4 :> 453) @@ (5 :> 120)
Samples == <<[finetune |-> 0, volume |-> 64], [finetune |-> 1, volume |-> 20]>>

Row(s, p, c) == [sample |-> s, period |-> p, fx |-> c[1], x |-> c[2], y |-> c[3]]
PitchCommands == {<<0, 0, 0>>, <<0, 1, 0>>, <<1, 10, 0>>, <<2, 10, 0>>, <<3, 10, 0>>,
                  <<4, 8, 8>>, <<5, 0, 0>>, <<14, 4, 1>>, <<14, 5, 1>>}
LoudCommands  == {<<0, 0, 0>>, <<3, 9, 0>>, <<5, 0, 8>>, <<6, 4, 0>>, <<7, 8, 1>>,
                  <<10, 0, 8>>, <<12, 15, 0>>,
                  <<14, 10, 12>>, <<14, 11, 12>>, <<14, 12, 2>>}

PitchRows == {Row(s[1], s[2], c) : s \in {<<0, 0>>, <<1, 856>>, <<2, 428>>}, c \in PitchCommands}
LoudRows  == {Row(s[1], s[2], c) : s \in {<<0, 0>>, <<1, 428>>}, c \in LoudCommands}

Pitched == INSTANCE ModVoice WITH RowSet <- PitchRows, HasCalls <- FALSE
ASSUME Pitched!RowsAssumption /\ Pitched!KeepsToTable /\ KeepsToTable

(* Songs of one, two and three patterns, one of them with two it skips.    *)
OrderTables == {{0}, {0, 1}, {2}}

MCInit == part \in {"pitch", "loud", "memory"} /\ VoiceInit /\ LoadInit

MCNext ==
  /\ UNCHANGED part
  /\ \/ part = "pitch" /\ Pitched!VoiceNext /\ UNCHANGED loadVars
     \/ part = "loud" /\ VoiceNext /\ UNCHANGED loadVars
     \/ part = "memory" /\ LoadNext /\ UNCHANGED voiceVars

MCSpec == MCInit /\ [][MCNext]_<<part, voiceVars, loadVars>>

=============================================================================
