------------------------------ MODULE MCKernel ------------------------------
(***************************************************************************)
(* The kernel beside its files and interrupts: threads, the heap, the      *)
(* boot of a disc and the pads.  They share no variable, so one moves in   *)
(* each behaviour and the others stay in an initial state.                 *)
(***************************************************************************)
EXTENDS Threads, Alloc, Pads, Boot

VARIABLE part   \* which one moves

(* SYSTEM.CNF of up to three lines: every item, with and without blanks    *)
(* around "=", a number of more digits than fit, a path with a long        *)
(* argument, a repeated item, lines that say nothing.                      *)
Line(name, value, pad) == [name |-> name, value |-> value, pad |-> pad, tail |-> <<>>]
Lines ==
  {Line("TCB", <<"4">>, <<>>), Line("TCB", <<"1", "a">>, <<"SP">>),
   Line("EVENT", <<"1", "F">>, <<>>), Line("STACK", <<"F", "1", "4">>, <<"SP", "TAB">>),
   Line("BOOT", <<"p", "1">>, <<>>), Line("BOOT", <<"p", "=", "TCB">>, <<"SP">>),
   [name |-> "BOOT", value |-> <<"p">>, pad |-> <<"SP">>, tail |-> <<"TAB", "1", "TAB", "x">>],
   Line("other", <<>>, <<>>), Line("other", <<"x", "TCB", "=", "1">>, <<>>)}
Discs ==
  [lines : UNION {[1 .. n -> Lines] : n \in 0 .. 3},
   end : {<<"LF">>, <<"CR">>, <<"CR", "LF">>}, ended : BOOLEAN]
NoLines == [lines |-> <<>>, end |-> <<"LF">>, ended |-> TRUE]
Configuration ==
  [tasks |-> 4, events |-> 16, stack |-> 15, boot |-> [path |-> <<"PSX.EXE">>, arg |-> <<>>]]

Arguments == {<<>>, <<"x">>}

ASSUME HeapAssumption

MCInit ==
  /\ part \in {"threads", "heap", "boot", "pads"}
  /\ Init /\ HeapInit /\ PadInit
  /\ part = "boot" \/ cnf = NoLines
  /\ BootInit /\ (part = "boot" \/ conf.boot.arg = <<>>)

(* The heap stops where a block crosses the next, the boot at its end.     *)
MCNext ==
  /\ UNCHANGED part
  /\ \/ part = "threads" /\ Next /\ UNCHANGED <<heapVars, bootVars, padVars>>
     \/ /\ part = "heap"
        /\ HeapNext \/ (crossed /\ UNCHANGED heapVars)
        /\ UNCHANGED <<vars, bootVars, padVars>>
     \/ /\ part = "boot"
        /\ BootNext \/ (ended # "not" /\ UNCHANGED bootVars)
        /\ UNCHANGED <<vars, heapVars, padVars>>
     \/ part = "pads" /\ PadNext /\ UNCHANGED <<vars, heapVars, bootVars>>

MCSpec == MCInit /\ [][MCNext]_<<part, vars, heapVars, bootVars, padVars>>

=============================================================================
