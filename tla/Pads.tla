-------------------------------- MODULE Pads --------------------------------
(***************************************************************************)
(* OpenBIOS: how the pads are read (nugget/openbios/sio0/driver.c, pad.c). *)
(* At a vertical blank sio0Handler exchanges bytes with both ports, leaves *)
(* each reply in the port's buffer and, after initPadHighLevel, the        *)
(* buttons in the program's word.  The program may ask for that word       *)
(* itself: its readPadHighLevel runs with interrupts on, one load at a     *)
(* time.  The handlers' chains are the module Exceptions.                  *)
(*                                                                         *)
(* A byte of buttons is the set of the bits it reports held (a 0 in the    *)
(* byte).  Five bits stand for the sixteen.  The bytes sent to a pad are   *)
(* left out: s_padOutputBuffers stays NULL.                                *)
(***************************************************************************)
EXTENDS Naturals

CONSTANTS First, Second   \* the devices one and the other port may hold

ASSUME DevicesAssumption == First \cup Second \subseteq {"free", "flying", "mouse", "tap"}

Ports == {0, 1}
Devices(p) == IF p = 0 THEN First ELSE Second
Bits == {4, 6, 7, 8, 12}
High == {8, 12}            \* the bits of byte 2, the others are byte 3's
Noise == {6, 7, 8}         \* those of 0x7c7
Size == 34                 \* 0x22, s_padBuffer1 and s_padBuffer2
NoReply == [dev |-> "none", held |-> {}]

VARIABLES
  plugged,    \* what each port holds, "none" when empty
  poll,       \* where readPad stands: port, step, halfwords left and read, reply
  buffer,     \* s_padBuffer1, s_padBuffer2: status, id and the bytes read from them
  word,       \* *g_userPadBuffer, the half of each port
  call,       \* where the program's readPadHighLevel stands, its c and o
  unpolled,   \* history: no vertical blank since initPad
  answered,   \* history: the last poll's whole reply of each port, or NoReply
  seen,       \* history: buttons held in the replies word may come from
  fresh       \* history: word was left by the handler
padVars == <<plugged, poll, buffer, word, call, unpolled, answered, seen, fresh>>
history == <<unpolled, answered, seen, fresh>>

(* What a device answers. *)
Id(dev) == CASE dev = "free" -> 65 [] dev = "flying" -> 35 [] dev = "mouse" -> 18 [] dev = "tap" -> 128
Held(dev) == CASE dev = "free" -> {{4, 12}, {6, 8}} [] dev = "flying" -> {{12}, {4, 7}, {6}}
               [] OTHER -> {{}}
Replies(dev) == [dev : {dev}, held : Held(dev)]
Byte(r, i) ==
  IF r.dev = "free" \/ r.dev = "flying"
  THEN CASE i = 2 -> r.held \cap High
         [] i = 3 -> IF r.dev = "free" THEN r.held \ High ELSE r.held \ (High \cup Noise)
         [] i = 5 -> r.held \cap {6}
         [] i = 6 -> r.held \cap {7}
         [] OTHER -> {}
  ELSE IF i = 2 THEN High ELSE IF i = 3 THEN Bits \ High ELSE {}   \* not buttons

Zeroed == [status |-> 0, id |-> 0,
           data |-> [i \in 2 .. 7 |-> CASE i = 2 -> High [] i = 3 -> Bits \ High [] OTHER -> {}]]
Idle == [port |-> 0, step |-> "idle", left |-> 0, read |-> 0, reply |-> NoReply]
Turn(p) == [port |-> p, step |-> "address", left |-> 0, read |-> 0, reply |-> NoReply]
Out == [at |-> "out", port |-> 0, c |-> 0, o |-> {}, polls |-> 0]

(* After initPadHighLevel, with a word no poll has written. *)
PadInit ==
  /\ plugged = [p \in Ports |-> "none"]
  /\ poll = Idle /\ call = Out
  /\ buffer = [p \in Ports |-> Zeroed] /\ word = [p \in Ports |-> {}]
  /\ unpolled = TRUE /\ answered = [p \in Ports |-> NoReply]
  /\ seen = [p \in Ports |-> {}] /\ fresh = FALSE

-----------------------------------------------------------------------------
(* The low bits of the id count the halfwords; none means sixteen. *)
Count(id) == IF id % 16 = 0 THEN 16 ELSE id % 16

(* alterUserPadData: the buttons a buffer reports. *)
Buttons(b) ==
  LET o == b.data[2] \cup b.data[3]
  IN  IF b.status # 0 THEN {}
      ELSE IF b.id = 65 THEN o
      ELSE IF b.id = 35 THEN (o \ Noise) \cup b.data[5] \cup b.data[6]
      ELSE {}

(* sio0Handler goes on to the other port, and after both to the word. *)
StaleNextPort(bufs, p) ==   \* mutant: *ret is not set to 0xffffffff first
  IF p = 0
  THEN /\ buffer' = [bufs EXCEPT ![1].status = 255]
       /\ poll' = Turn(1)
       /\ UNCHANGED <<word, fresh>>
  ELSE /\ buffer' = bufs /\ poll' = Idle /\ fresh' = TRUE
       /\ word' = [q \in Ports |-> IF bufs[q].status = 0 THEN Buttons(bufs[q]) ELSE word[q]]
NextPort(bufs, p) ==
  IF p = 0
  THEN /\ buffer' = [bufs EXCEPT ![1].status = 255]
       /\ poll' = Turn(1)
       /\ UNCHANGED <<word, fresh>>
  ELSE /\ buffer' = bufs /\ poll' = Idle /\ fresh' = TRUE
       /\ word' = [q \in Ports |-> Buttons(bufs[q])]

padAbort(bufs, p) ==
  /\ NextPort([bufs EXCEPT ![p].status = 255], p)
  /\ answered' = [answered EXCEPT ![p] = NoReply]

(* The vertical blank; a call of the program is interrupted at most once. *)
VBlank ==
  /\ poll.step = "idle"
  /\ call.at = "out" \/ call.polls = 0
  /\ buffer' = [buffer EXCEPT ![0].status = 255]
  /\ poll' = Turn(0)
  /\ call' = IF call.at = "out" THEN call ELSE [call EXCEPT !.polls = 1]
  /\ seen' = IF call.at = "out" THEN [p \in Ports |-> {}] ELSE seen
  /\ unpolled' = FALSE
  /\ UNCHANGED <<plugged, word, answered, fresh>>

(* Every exchanged byte may go unacknowledged or come too late. *)
Silent ==
  /\ poll.step # "idle"
  /\ padAbort(buffer, poll.port)
  /\ UNCHANGED <<plugged, call, unpolled, seen>>

Address ==
  /\ poll.step = "address"
  /\ plugged[poll.port] # "none"
  /\ \E r \in Replies(plugged[poll.port]) :
       /\ poll' = [poll EXCEPT !.step = "id", !.reply = r]
       /\ seen' = [seen EXCEPT ![poll.port] = @ \cup r.held]
  /\ UNCHANGED <<plugged, buffer, word, call, unpolled, answered, fresh>>

(* The id is in the buffer before the wait for the acknowledge. *)
ReadId ==
  /\ poll.step = "id"
  /\ LET id == Id(poll.reply.dev)
         bufs == [buffer EXCEPT ![poll.port].id = id]
     IN  \/ /\ buffer' = bufs
            /\ poll' = [poll EXCEPT !.step = "ready", !.left = Count(id)]
            /\ UNCHANGED <<word, answered, fresh>>
         \/ padAbort(bufs, poll.port)
  /\ UNCHANGED <<plugged, call, unpolled, seen>>

(* Anything but 0x5a is an abort, which Silent stands for. *)
Ready ==
  /\ poll.step = "ready"
  /\ poll' = [poll EXCEPT !.step = "even"]
  /\ UNCHANGED <<plugged, buffer, word, call, history>>

(* One byte of the reply; those past the eighth are read by nobody here. *)
Taken(i) == IF i > 7 THEN buffer ELSE [buffer EXCEPT ![poll.port].data[i] = Byte(poll.reply, i)]

ReadEven ==
  /\ poll.step = "even"
  /\ buffer' = Taken(2 + 2 * poll.read)
  /\ poll' = [poll EXCEPT !.step = "odd"]
  /\ UNCHANGED <<plugged, word, call, history>>

ReadOdd ==
  /\ poll.step = "odd"
  /\ LET bufs == Taken(3 + 2 * poll.read)
     IN  IF poll.left > 1
         THEN /\ buffer' = bufs
              /\ poll' = [poll EXCEPT !.step = "even", !.left = @ - 1, !.read = @ + 1]
              /\ UNCHANGED <<word, answered, fresh>>
         ELSE /\ answered' = [answered EXCEPT ![poll.port] = poll.reply]
              /\ NextPort([bufs EXCEPT ![poll.port].status = 0], poll.port)
  /\ UNCHANGED <<plugged, call, unpolled, seen>>

-----------------------------------------------------------------------------
(* The program's own readPadHighLevel: a step for every load another       *)
(* vertical blank may come before.                                         *)
NoPoll == poll.step = "idle"

Past(p) == IF p = 0 THEN [call EXCEPT !.at = "status", !.port = 1] ELSE Out

readPadHighLevel ==
  /\ NoPoll /\ call.at = "out" /\ ~unpolled
  /\ word' = [p \in Ports |-> {}] /\ fresh' = FALSE
  /\ call' = [Out EXCEPT !.at = "status"]
  /\ UNCHANGED <<plugged, poll, buffer, unpolled, answered, seen>>

LoadStatus ==
  /\ NoPoll /\ call.at = "status"
  /\ call' = IF buffer[call.port].status # 0 THEN Past(call.port) ELSE [call EXCEPT !.at = "id"]
  /\ UNCHANGED <<plugged, poll, buffer, word, history>>

Known == {35, 65}           \* flying-V and six free buttons

LoadId ==
  /\ NoPoll /\ call.at = "id"
  /\ LET c == buffer[call.port].id
     IN  call' = IF c \in Known THEN [call EXCEPT !.at = "high", !.c = c] ELSE Past(call.port)
  /\ UNCHANGED <<plugged, poll, buffer, word, history>>

LoadHigh ==
  /\ NoPoll /\ call.at = "high"
  /\ call' = [call EXCEPT !.at = "low", !.o = buffer[call.port].data[2]]
  /\ UNCHANGED <<plugged, poll, buffer, word, history>>

LoadLow ==
  /\ NoPoll /\ call.at = "low"
  /\ LET o == call.o \cup buffer[call.port].data[3]
     IN  /\ word' = [word EXCEPT ![call.port] = IF call.c = 35 THEN o \ Noise ELSE o]
         /\ call' = IF call.c = 35 THEN [call EXCEPT !.at = "analogue"] ELSE Past(call.port)
  /\ fresh' = FALSE
  /\ UNCHANGED <<plugged, poll, buffer, unpolled, answered, seen>>

LoadAnalogue(i) ==
  /\ NoPoll /\ call.at = (IF i = 5 THEN "analogue" ELSE "last")
  /\ word' = [word EXCEPT ![call.port] = @ \cup buffer[call.port].data[i]]
  /\ call' = IF i = 5 THEN [call EXCEPT !.at = "last"] ELSE Past(call.port)
  /\ fresh' = FALSE
  /\ UNCHANGED <<plugged, poll, buffer, unpolled, answered, seen>>

(* The program starts over: both buffers are zeroed, the word is not. *)
initPadHighLevel ==
  /\ NoPoll /\ call.at = "out" /\ ~unpolled
  /\ buffer' = [p \in Ports |-> Zeroed]
  /\ unpolled' = TRUE
  /\ answered' = [p \in Ports |-> NoReply]
  /\ UNCHANGED <<plugged, poll, word, call, seen, fresh>>

(* A device goes, in the middle of a poll as Silent does, and another comes *)
(* after a poll found none.                                                *)
Unplug(p) ==
  /\ plugged[p] # "none" /\ NoPoll
  /\ plugged' = [plugged EXCEPT ![p] = "none"]
  /\ UNCHANGED <<poll, buffer, word, call, history>>

Plug(p, dev) ==
  /\ plugged[p] = "none" /\ NoPoll /\ (unpolled \/ buffer[p].status = 255)
  /\ plugged' = [plugged EXCEPT ![p] = dev]
  /\ UNCHANGED <<poll, buffer, word, call, history>>

PadNext ==
  \/ VBlank \/ Silent \/ Address \/ ReadId \/ Ready \/ ReadEven \/ ReadOdd
  \/ readPadHighLevel \/ LoadStatus \/ LoadId \/ LoadHigh \/ LoadLow
  \/ LoadAnalogue(5) \/ LoadAnalogue(6)
  \/ initPadHighLevel
  \/ \E p \in Ports : Unplug(p) \/ \E dev \in Devices(p) : Plug(p, dev)

PadSpec == PadInit /\ [][PadNext]_padVars

-----------------------------------------------------------------------------
(* Type correctness. *)
PadTypeOK ==
  /\ \A p \in Ports : plugged[p] \in Devices(p) \cup {"none"}
  /\ poll.port \in Ports /\ poll.left \in 0 .. 16 /\ poll.read \in 0 .. 15
  /\ poll.step \in {"idle", "address", "id", "ready", "even", "odd"}
  /\ \A p \in Ports :
       /\ buffer[p].status \in {0, 255} /\ buffer[p].id \in {0, 65, 35, 18, 128}
       /\ buffer[p].data \in [2 .. 7 -> SUBSET Bits]
  /\ word \in [Ports -> SUBSET Bits] /\ seen \in [Ports -> SUBSET Bits]
  /\ call.at \in {"out", "status", "id", "high", "low", "analogue", "last"}
  /\ call.port \in Ports /\ call.c \in {0, 65, 35} /\ call.o \subseteq Bits

(* Whatever count the id byte announces, readPad, which never looks at     *)
(* s_padBufferSizes, stays inside the 0x22 bytes of the buffers of pad.c   *)
(* (driver.c:145, :170-217).                                               *)
FitsBuffer == poll.step \in {"even", "odd"} => 2 + 2 * (poll.read + poll.left) <= Size

(* Once polled, a buffer that begins with 0 holds the id and the bytes of  *)
(* the whole reply of the last poll, nothing of a reply that was cut short *)
(* or of the device before (driver.c:107, :95, :219).                      *)
ZeroMeansWhole ==
  \A p \in Ports :
    NoPoll /\ ~unpolled /\ buffer[p].status = 0 =>
      LET r == answered[p]
      IN  /\ r.dev # "none"
          /\ buffer[p].id = Id(r.dev)
          /\ \A i \in 2 .. 7 : i < 2 + 2 * Count(buffer[p].id) => buffer[p].data[i] = Byte(r, i)

(* The word the handler leaves shows the buttons held on each port at that *)
(* vertical blank, and none for a port with no pad, another kind of device *)
(* or a reply that was cut short (driver.c:354, pad.c:90-99).              *)
FreshWord ==
  NoPoll /\ fresh /\ ~unpolled =>
    word = [p \in Ports |-> answered[p].held]

(* Even when the vertical blank comes between two loads of the program's   *)
(* own readPadHighLevel, no button is shown that no reply of that time     *)
(* held: the mixture is of real presses (pad.c:66-88).                     *)
PressedMeansPressed == NoPoll => \A p \in Ports : word[p] \subseteq seen[p]

(* What the program sees of its pads is what their replies held (sio0/     *)
(* driver.c, sio0/pad.c).                                                  *)
PadsAreShown == PadTypeOK /\ FitsBuffer /\ ZeroMeansWhole /\ FreshWord /\ PressedMeansPressed
=============================================================================
