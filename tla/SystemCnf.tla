------------------------------ MODULE SystemCnf ------------------------------
(***************************************************************************)
(* How the BIOS reads SYSTEM.CNF, the text file in which a disc says what  *)
(* to boot and how many tasks and events the kernel is to have             *)
(* (openbios/main/main.c).                                                 *)
(*                                                                         *)
(* A text is a sequence of tokens: an item's name, "=", blanks, line ends, *)
(* other characters.  No name is made of hexadecimal digits, so in a value *)
(* it is one of the other characters.  Zeros lie behind it.                *)
(***************************************************************************)
EXTENDS Integers, Sequences

CONSTANTS
  WordSize,  \* 2 ^ 32, of numbers
  ArgSize,   \* 127, of the characters kept of the argument
  Others     \* characters that are none of those below

ItemNames == {"TCB", "EVENT", "STACK", "BOOT"}
LineEnds == {"LF", "CR"}
Blanks == LineEnds \cup {"SP", "TAB"}   \* isspace
Spelled ==
  <<{"0"}, {"1"}, {"2"}, {"3"}, {"4"}, {"5"}, {"6"}, {"7"}, {"8"}, {"9"},
    {"a", "A"}, {"b", "B"}, {"c", "C"}, {"d", "D"}, {"e", "E"}, {"f", "F"}>>
Digits == UNION {Spelled[n] : n \in 1 .. 16}   \* isxdigit
HexValue == [d \in Digits |-> (CHOOSE n \in 1 .. 16 : d \in Spelled[n]) - 1]

ASSUME CnfAssumption ==
  /\ WordSize \in Nat \ {0} /\ ArgSize \in Nat
  /\ Others \cap (ItemNames \cup Blanks \cup Digits \cup {"=", "NUL"}) = {}

Least(places) == CHOOSE i \in places : \A j \in places : i =< j

At(text, i) == IF i =< Len(text) THEN text[i] ELSE "NUL"

(* The first place from i on that holds none of some characters; the first *)
(* that holds one of them.                                                 *)
Beyond(text, i, chars) == Least({j \in i .. Len(text) + 1 : At(text, j) \notin chars})
UpTo(text, i, chars) == Least({j \in i .. Len(text) + 1 : At(text, j) \in chars \cup {"NUL"}})

(* Mutant: a name is looked for after line feeds only.                     *)
AfterLineFeeds(text) == {1} \cup {i + 1 : i \in {j \in 1 .. Len(text) : text[j] = "LF"}}

(* Where names are looked for: at the start and after every character that *)
(* ends a line, so between the two of CR LF as well.                       *)
Starts(text) == {1} \cup {i + 1 : i \in {j \in 1 .. Len(text) : text[j] \in LineEnds}}

(* Where the value of an item begins, 0 if there is none: the first line   *)
(* with its name, an "=" after it with blanks at most between them, and    *)
(* the blanks after that skipped, line ends too.                           *)
ValueOf(text, item) ==
  LET found == {i \in Starts(text) : At(text, i) = item}
      equals == Beyond(text, Least(found) + 1, Blanks)
  IN  IF found = {} THEN 0
      ELSE IF At(text, equals) # "=" THEN 0 ELSE Beyond(text, equals + 1, Blanks)

(* The number of a row of hexadecimal digits.                              *)
Number(digits) ==
  LET value[k \in 0 .. Len(digits)] ==
        IF k = 0 THEN 0 ELSE (value[k - 1] * 16 + HexValue[digits[k]]) % WordSize
  IN  value[Len(digits)]

(* The item, 0 as loadSystemCnf clears it if the value does not go on in   *)
(* digits to the end of its line.                                          *)
findWordItem(text, item) ==
  LET first == ValueOf(text, item)
      past == Beyond(text, first, Digits)
  IN  IF first # 0 /\ At(text, past) \in LineEnds \cup {"NUL"}
      THEN Number(SubSeq(text, first, past - 1)) ELSE 0

(* The path, up to a tabulator, and what follows that as its argument.     *)
findStringItem(text, item) ==
  LET first == ValueOf(text, item)
      past == UpTo(text, first, {"TAB"} \cup LineEnds)
      end == UpTo(text, past, LineEnds)
  IN  IF first = 0 THEN [path |-> <<>>, arg |-> <<>>]
      ELSE [path |-> SubSeq(text, first, past - 1),
            arg |-> IF At(text, past) # "TAB" THEN <<>>
                    ELSE SubSeq(text, past + 1,
                                IF end - 1 - past > ArgSize THEN past + ArgSize ELSE end - 1)]

loadSystemCnf(text) ==
  [tasks |-> findWordItem(text, "TCB"), events |-> findWordItem(text, "EVENT"),
   stack |-> findWordItem(text, "STACK"), boot |-> findStringItem(text, "BOOT")]

-----------------------------------------------------------------------------
(* A file as its author wrote it: lines that give an item its value, and   *)
(* others, with one way to end a line.  Every value has a character, and   *)
(* nothing stands between a number and the end of its line.                *)
Shown == Others \cup ItemNames \cup Digits \cup {"=", "SP", "TAB"}   \* characters within a line

WordLine(l) ==
  l.name \in {"TCB", "EVENT", "STACK"} /\ l.value \in Seq(Digits) \ {<<>>} /\ l.tail = <<>>
BootLine(l) ==
  /\ l.name = "BOOT" /\ l.value \in Seq(Shown \ {"TAB"}) \ {<<>>} /\ l.value[1] # "SP"
  /\ l.tail \in Seq(Shown) /\ (l.tail # <<>> => l.tail[1] = "TAB")
OtherLine(l) ==
  l.name = "other" /\ l.value \in Seq(Shown) /\ (l.value # <<>> => l.value[1] \notin ItemNames)

AsWritten(file) ==
  /\ \A i \in 1 .. Len(file.lines) :
       LET l == file.lines[i] IN
       OtherLine(l) \/ ((WordLine(l) \/ BootLine(l)) /\ l.pad \in Seq({"SP", "TAB"}))
  /\ file.end \in {<<"LF">>, <<"CR">>, <<"CR", "LF">>}

LineText(l) ==
  IF l.name = "other" THEN l.value
  ELSE <<l.name>> \o (l.pad \o (<<"=">> \o (l.pad \o (l.value \o l.tail))))
EndOfLine(file, i) == IF i = Len(file.lines) /\ ~file.ended THEN <<>> ELSE file.end

Text(file) ==
  LET upTo[i \in 0 .. Len(file.lines)] ==
        IF i = 0 THEN <<>>
        ELSE upTo[i - 1] \o (LineText(file.lines[i]) \o EndOfLine(file, i))
  IN  upTo[Len(file.lines)]

(* What its author meant: the first line of an item counts, and a number   *)
(* is the sum of what its digits are worth, as far as a word holds it.     *)
LinesOf(file, item) == {i \in 1 .. Len(file.lines) : file.lines[i].name = item}
Meaning(file, item) == file.lines[Least(LinesOf(file, item))]

Sum(digits) ==
  LET power[k \in 0 .. Len(digits)] == IF k = 0 THEN 1 ELSE 16 * power[k - 1]
      sum[k \in 0 .. Len(digits)] ==
        IF k = 0 THEN 0
        ELSE sum[k - 1] + HexValue[digits[k]] * power[Len(digits) - k]
  IN  sum[Len(digits)]

MeantWord(file, item) ==
  IF LinesOf(file, item) = {} THEN 0 ELSE Sum(Meaning(file, item).value) % WordSize
MeantBoot(file) ==
  LET l == Meaning(file, "BOOT") IN
  IF LinesOf(file, "BOOT") = {} THEN [path |-> <<>>, arg |-> <<>>]
  ELSE [path |-> l.value,
        arg |-> IF l.tail = <<>> THEN <<>>
                ELSE SubSeq(l.tail, 2, IF Len(l.tail) > ArgSize + 1 THEN ArgSize + 1 ELSE Len(l.tail))]
MeantCnf(file) ==
  [tasks |-> MeantWord(file, "TCB"), events |-> MeantWord(file, "EVENT"),
   stack |-> MeantWord(file, "STACK"), boot |-> MeantBoot(file)]
=============================================================================
