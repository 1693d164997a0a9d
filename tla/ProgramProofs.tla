---------------------------- MODULE ProgramProofs ----------------------------
(***************************************************************************)
(* What programs have of the kernel.  The invariants of Threads hold for   *)
(* any number of blocks, of tasks and of places a task can be in, provided *)
(* openThread is called in a critical section.  Those of Pads hold for any *)
(* devices on the two ports, those of Boot for every SYSTEM.CNF of a       *)
(* sector at most: of any lines, in any order.                             *)
(***************************************************************************)
EXTENDS Threads, Pads, Boot, SequenceTheorems, WellFoundedInduction, TLAPS

(* A set of naturals has a least one. *)
LEMMA LeastExists ==
  ASSUME NEW S, S \subseteq Nat, S # {}
  PROVE  \E x \in S : \A y \in S : x =< y
<1> DEFINE Less == OpToRel(<, Nat)
<1>1. IsWellFoundedOn(Less, Nat)
  BY NatLessThanWellFounded
<1> HIDE DEF Less
<1>2. PICK x \in S : \A y \in S : ~ (<<y, x>> \in Less)
  BY <1>1, WFMin
<1>3. \A y \in S : <<y, x>> \in Less \/ x =< y
  BY DEF Less, OpToRel
<1> QED BY <1>2, <1>3

(* The least of a set of blocks is one of them: getFreeTCBslot's answer is  *)
(* a block that is not in use (threads.c:66-75).                            *)
LEMMA MinIsIn ==
  ASSUME NEW S, S \subseteq Nat, S # {}
  PROVE  Min(S) \in S
<1>1. \E x \in S : \A y \in S : x =< y
  BY LeastExists
<1> QED BY <1>1 DEF Min

(* getFreeTCBslot answers a block that is not in use (threads.c:66-75).     *)
LEMMA FreeSlotIsFree ==
  ASSUME open \subseteq Slot, getFreeTCBslot # NONE
  PROVE  getFreeTCBslot \in Slot \ open
<1>1. open # Slot
  BY DEF getFreeTCBslot
<1>2. Slot \ open # {}
  BY <1>1
<1>3. Slot \ open \subseteq Nat
  BY ThreadsAssumption DEF Slot
<1>4. Min(Slot \ open) \in Slot \ open
  BY <1>2, <1>3, MinIsIn
<1> QED BY <1>1, <1>4 DEF getFreeTCBslot

(* What the history and the flags hold, which TypeOK leaves out. *)
HistoryType ==
  /\ handle \in [Tasks -> Slot \cup {NONE}] /\ left \in [Tasks -> Context]
  /\ exception \in BOOLEAN /\ opening \in Slot \cup {NONE}

(* Each task's own registers are kept under its name. *)
OwnRegisters == \A t \in Tasks : left[t].task = t

(* While openThread is between finding a block and filling it, interrupts   *)
(* are off, so the block stays free.                                        *)
OpeningIsFree ==
  opening # NONE => opening \notin open /\ ~exception /\ ~cpu.interrupts

(* In an exception too, the current thread is that of the task it came from. *)
CurrentIsHeld == handle[cpu.task] = thread

IInv ==
  /\ TypeOK /\ HistoryType /\ OneThreadPerBlock /\ LeftAlone
  /\ OwnRegisters /\ OpeningIsFree /\ CurrentIsHeld

(* NONE, for 0xffffffff, is no block's number (threads.c:80-81).            *)
LEMMA NoneIsNoSlot == NONE \notin Slot
  BY ThreadsAssumption DEF NONE, Slot

(* initThreads begins with one block, the program's (threads.c:36-64).      *)
LEMMA InitIInv == Init => IInv
<1> SUFFICES ASSUME Init PROVE IInv
  OBVIOUS
<1>1. Begin \in Tasks
  BY ThreadsAssumption DEF Begin
<1>2. 0 \in Slot /\ 0 \in 0 .. Points - 1
  BY ThreadsAssumption DEF Slot
<1>3. cpu \in Context /\ registers \in [Slot -> Context]
  BY <1>1, <1>2 DEF Init, Context
<1>4. \A t \in Tasks : left[t] = [task |-> t, at |-> 0, interrupts |-> TRUE]
  BY <1>2 DEF Init
<1>5. {handle[t] : t \in Tasks} \ {NONE} = {0}
  BY <1>1, <1>2, NoneIsNoSlot DEF Init
<1>6. TypeOK
  BY <1>2, <1>3, <1>5 DEF Init, TypeOK
<1>7. HistoryType
  BY <1>1, <1>2, <1>4 DEF Init, HistoryType, Context
<1>8. OneThreadPerBlock /\ LeftAlone /\ OwnRegisters /\ OpeningIsFree /\ CurrentIsHeld
  BY <1>1, <1>2, <1>4, NoneIsNoSlot
  DEF Init, OneThreadPerBlock, LeftAlone, OwnRegisters, OpeningIsFree, CurrentIsHeld
<1> QED BY <1>6, <1>7, <1>8 DEF IInv

(* openThread and the callback that opens one: the block is nobody's.       *)
LEMMA OpensKeeps ==
  ASSUME IInv, NEW t \in Tasks, NEW s \in Slot \ open, Opens(s, t),
         UNCHANGED <<thread, cpu, exception>>, opening' \in {NONE, opening}, opening' # s
  PROVE  IInv'
<1> USE DEF IInv, HistoryType
<1>1. s # NONE /\ thread # s /\ handle[t] = NONE
  <2>1. cpu.task \in Tasks
    BY DEF TypeOK, Context
  <2>2. thread \in open
    BY <2>1, NoneIsNoSlot DEF TypeOK, CurrentIsHeld
  <2> QED BY <2>2, NoneIsNoSlot DEF Opens
<1>2. registers' = [registers EXCEPT ![s] = [@ EXCEPT !.task = t, !.at = 0]]
  BY DEF Opens, Filled
<1>3. registers[s] \in Context /\ 0 \in 0 .. Points - 1
  BY ThreadsAssumption DEF TypeOK
<1>4. /\ registers'[s] \in Context /\ registers'[s].task = t
      /\ \A q \in Slot \ {s} : registers'[q] = registers[q]
      /\ registers' \in [Slot -> Context]
  BY <1>2, <1>3 DEF TypeOK, Context
<1>5. handle' = [handle EXCEPT ![t] = s] /\ left' = [left EXCEPT ![t] = registers'[s]]
  BY DEF Opens
<1>6. \A u \in Tasks : handle[u] # s
  BY NoneIsNoSlot, <1>1 DEF TypeOK
<1>7. open' = {handle'[u] : u \in Tasks} \ {NONE}
  <2>1. open' = open \cup {s}
    BY DEF Opens
  <2>2. open = {handle[u] : u \in Tasks} \ {NONE}
    BY DEF TypeOK
  <2> QED BY <2>1, <2>2, <1>1, <1>5
<1>8. TypeOK' /\ HistoryType'
  BY <1>4, <1>5, <1>7, <1>1 DEF TypeOK, Opens
<1>9. OneThreadPerBlock' /\ OwnRegisters' /\ CurrentIsHeld'
  <2>1. cpu.task \in Tasks /\ cpu.task # t
    BY <1>1, NoneIsNoSlot DEF TypeOK, Context, CurrentIsHeld
  <2> QED BY <2>1, <1>1, <1>4, <1>5, <1>6 DEF OneThreadPerBlock, OwnRegisters, CurrentIsHeld
<1>10. LeftAlone'
  BY <1>1, <1>4, <1>5, <1>6 DEF LeftAlone
<1>11. OpeningIsFree'
  BY <1>1 DEF OpeningIsFree, Opens
<1> QED BY <1>8, <1>9, <1>10, <1>11

(* openThread and the callback that opens one (threads.c:77-92).            *)
LEMMA OpenThreadKeeps ==
  ASSUME IInv, OpensInCritical,
         openThread \/ \E t \in Tasks : openThreadEnds(t) \/ CallbackOpens(t)
  PROVE  IInv'
<1>1. CASE openThread
  <2>1. getFreeTCBslot \in Slot \ open
    BY <1>1, FreeSlotIsFree DEF openThread, IInv, TypeOK
  <2> QED BY <1>1, <2>1 DEF openThread, Runs, IInv, TypeOK, HistoryType, OneThreadPerBlock,
        LeftAlone, OwnRegisters, OpeningIsFree, CurrentIsHeld
<1>2. ASSUME NEW t \in Tasks, openThreadEnds(t) PROVE IInv'
  <2>1. opening \in Slot \ open /\ opening' = NONE /\ opening' # opening
    BY <1>2 DEF openThreadEnds, IInv, HistoryType, OpeningIsFree
  <2> QED BY <1>2, <2>1, OpensKeeps DEF openThreadEnds
<1>3. ASSUME NEW t \in Tasks, CallbackOpens(t) PROVE IInv'
  <2>1. getFreeTCBslot \in Slot \ open
    BY <1>3, FreeSlotIsFree DEF CallbackOpens, IInv, TypeOK
  <2>2. opening = NONE
    BY <1>3 DEF CallbackOpens, IInv, OpeningIsFree
  <2> QED BY <1>3, <2>1, <2>2, NoneIsNoSlot, OpensKeeps DEF CallbackOpens
<1> QED BY <1>1, <1>2, <1>3

(* closeThread of another thread than the current one. *)
LEMMA CloseKeeps ==
  ASSUME IInv, NEW t \in Tasks, closeThread(t)
  PROVE  IInv'
<1> USE DEF IInv, HistoryType
<1>1. /\ handle[t] # NONE /\ handle[t] # thread
      /\ handle' = [handle EXCEPT ![t] = NONE] /\ open' = open \ {handle[t]}
      /\ UNCHANGED <<registers, thread, cpu, exception, opening, left>>
  BY DEF closeThread, Closed
<1>2. open = {handle[u] : u \in Tasks} \ {NONE}
  BY DEF TypeOK
<1>3. \A u \in Tasks : u # t /\ handle[u] # NONE => handle[u] # handle[t]
  BY DEF OneThreadPerBlock
<1>4. open' = {handle'[u] : u \in Tasks} \ {NONE}
  BY <1>1, <1>2, <1>3
<1>5. TypeOK' /\ HistoryType'
  BY <1>1, <1>4 DEF TypeOK
<1>6. OneThreadPerBlock' /\ LeftAlone' /\ OwnRegisters' /\ OpeningIsFree'
  BY <1>1 DEF OneThreadPerBlock, LeftAlone, OwnRegisters, OpeningIsFree
<1>7. CurrentIsHeld'
  <2>1. cpu.task \in Tasks /\ cpu.task # t
    BY <1>1 DEF TypeOK, Context, CurrentIsHeld
  <2> QED BY <1>1, <2>1 DEF CurrentIsHeld
<1> QED BY <1>5, <1>6, <1>7

(* The running task goes on; its registers are in the processor.            *)
LEMMA ComputesKeeps ==
  ASSUME IInv, Computes
  PROVE  IInv'
<1> USE DEF IInv, HistoryType
<1>1. (cpu.at + 1) % Points \in 0 .. Points - 1
  BY ThreadsAssumption DEF TypeOK, Context
<1>2. cpu' \in Context /\ cpu'.task = cpu.task /\ cpu'.interrupts = cpu.interrupts
  BY <1>1 DEF Computes, TypeOK, Context
<1> QED BY <1>2 DEF Computes, Runs, TypeOK, OneThreadPerBlock, LeftAlone, OwnRegisters,
             OpeningIsFree, CurrentIsHeld

(* A context c of the running task is saved in its block and its history,   *)
(* and the task u of another block, or of this one, is what runs next.      *)
LEMMA SavesKeeps ==
  ASSUME IInv, NEW c \in Context, c.task = cpu.task,
         registers' = [registers EXCEPT ![thread] = c],
         left' = [left EXCEPT ![cpu.task] = c],
         UNCHANGED <<open, handle>>, opening = NONE, opening' = NONE, ~exception
  PROVE  /\ registers' \in [Slot -> Context] /\ left' \in [Tasks -> Context]
         /\ OwnRegisters'
         /\ \A t \in Tasks : handle[t] # NONE => registers'[handle[t]] = left'[t]
<1> USE DEF IInv, HistoryType
<1>1. cpu.task \in Tasks /\ thread \in Slot /\ handle[cpu.task] = thread
  BY DEF TypeOK, Context, CurrentIsHeld
<1>2. registers' \in [Slot -> Context] /\ left' \in [Tasks -> Context]
  BY <1>1 DEF TypeOK
<1>3. OwnRegisters'
  BY <1>1 DEF OwnRegisters
<1>4. ASSUME NEW t \in Tasks, handle[t] # NONE PROVE registers'[handle[t]] = left'[t]
  <2>1. CASE t = cpu.task
    BY <1>1, <2>1 DEF TypeOK
  <2>2. CASE t # cpu.task
    <3>1. handle[t] # thread
      BY <1>1, <1>4, <2>2 DEF OneThreadPerBlock
    <3>2. registers[handle[t]] = left[t]
      BY <1>4, <3>1 DEF LeftAlone
    <3> QED BY <1>1, <2>2, <3>1, <3>2 DEF TypeOK
  <2> QED BY <2>1, <2>2
<1> QED BY <1>2, <1>3, <1>4

(* The exception saves the registers (vectors.s:53-177).                    *)
LEMMA InterruptKeeps ==
  ASSUME IInv, Interrupt
  PROVE  IInv'
<1>1. opening = NONE
  BY DEF Interrupt, IInv, OpeningIsFree
<1>2. cpu \in Context /\ registers' = [registers EXCEPT ![thread] = cpu]
      /\ left' = [left EXCEPT ![cpu.task] = cpu] /\ opening' = NONE
      /\ ~exception /\ UNCHANGED <<open, handle>>
  BY <1>1 DEF Interrupt, Saves, Leaves, IInv, TypeOK
<1>3. /\ registers' \in [Slot -> Context] /\ left' \in [Tasks -> Context]
      /\ OwnRegisters'
      /\ \A t \in Tasks : handle[t] # NONE => registers'[handle[t]] = left'[t]
  BY <1>1, <1>2, SavesKeeps
<1> QED BY <1>1, <1>3 DEF Interrupt, IInv, TypeOK, HistoryType, OneThreadPerBlock, LeftAlone,
             OpeningIsFree, CurrentIsHeld

(* returnFromException loads what was saved (vectors.s:241-292).            *)
LEMMA ReturnKeeps ==
  ASSUME IInv, returnFromException
  PROVE  IInv'
<1> USE DEF IInv, HistoryType
<1>1. cpu.task \in Tasks /\ thread \in Slot /\ handle[cpu.task] = thread /\ thread # NONE
  BY NoneIsNoSlot DEF TypeOK, Context, CurrentIsHeld
<1>2. cpu' = registers[thread] /\ registers[thread] = left[cpu.task]
  BY <1>1 DEF returnFromException, Loaded, LeftAlone
<1>3. cpu' \in Context /\ cpu'.task = cpu.task
  BY <1>1, <1>2 DEF TypeOK, OwnRegisters
<1>4. opening = NONE
  BY DEF returnFromException, OpeningIsFree
<1>5. exception /\ exception' = FALSE /\ UNCHANGED <<open, registers, thread, opening, handle, left>>
  BY DEF returnFromException
<1>6. TypeOK' /\ HistoryType'
  BY <1>3, <1>5 DEF TypeOK
<1>7. OneThreadPerBlock' /\ LeftAlone' /\ OwnRegisters'
  BY <1>5 DEF OneThreadPerBlock, LeftAlone, OwnRegisters
<1>8. OpeningIsFree' /\ CurrentIsHeld'
  BY <1>3, <1>4, <1>5 DEF OpeningIsFree, CurrentIsHeld
<1> QED BY <1>6, <1>7, <1>8

(* The system calls: what is loaded is what the task had when it last ran.  *)
LEMMA CallsKeep ==
  ASSUME IInv, (\E on \in BOOLEAN : CriticalSection(on)) \/ (\E t \in Tasks : changeThread(t))
  PROVE  IInv'
<1>1. cpu.task \in Tasks /\ thread \in Slot /\ handle[cpu.task] = thread /\ thread # NONE
      /\ cpu \in Context
  BY NoneIsNoSlot DEF IInv, TypeOK, Context, CurrentIsHeld
<1>2. ASSUME NEW on \in BOOLEAN, CriticalSection(on) PROVE IInv'
  <2> DEFINE c == [cpu EXCEPT !.interrupts = on]
  <2>1. c \in Context /\ c.task = cpu.task
    BY <1>1 DEF Context
  <2>2. registers' = [registers EXCEPT ![thread] = c]
    BY <1>2, <1>1 DEF CriticalSection, SetsInterrupts, Saves, IInv, TypeOK, Context
  <2>3. left' = [left EXCEPT ![cpu.task] = c] /\ opening = NONE /\ opening' = NONE /\ ~exception
        /\ UNCHANGED <<open, handle, thread, exception, opening>>
    BY <1>2 DEF CriticalSection, Runs
  <2> HIDE DEF c
  <2>4. /\ registers' \in [Slot -> Context] /\ left' \in [Tasks -> Context]
        /\ OwnRegisters'
        /\ \A t \in Tasks : handle[t] # NONE => registers'[handle[t]] = left'[t]
    BY <2>1, <2>2, <2>3, SavesKeeps
  <2>5. cpu' = c
    BY <1>1, <1>2, <2>2 DEF CriticalSection, Loaded, IInv, TypeOK
  <2> QED BY <2>1, <2>3, <2>4, <2>5 DEF IInv, TypeOK, HistoryType, OneThreadPerBlock, LeftAlone,
               OpeningIsFree, CurrentIsHeld
<1>3. ASSUME NEW t \in Tasks, changeThread(t) PROVE IInv'
  <2>1. registers' = [registers EXCEPT ![thread] = cpu] /\ left' = [left EXCEPT ![cpu.task] = cpu]
        /\ opening = NONE /\ opening' = NONE /\ ~exception /\ handle[t] # NONE
        /\ UNCHANGED <<open, handle, exception, opening>> /\ thread' = handle[t]
        /\ cpu' = registers'[handle[t]]
    BY <1>3 DEF changeThread, Runs, Saves, Leaves, Loaded
  <2>2. /\ registers' \in [Slot -> Context] /\ left' \in [Tasks -> Context]
        /\ OwnRegisters'
        /\ \A u \in Tasks : handle[u] # NONE => registers'[handle[u]] = left'[u]
    BY <1>1, <2>1, SavesKeeps
  <2>3. handle[t] \in Slot /\ cpu' \in Context /\ cpu'.task = t
    BY <2>1, <2>2 DEF IInv, HistoryType, OwnRegisters
  <2> QED BY <2>1, <2>2, <2>3 DEF IInv, TypeOK, HistoryType, OneThreadPerBlock, LeftAlone,
               OpeningIsFree, CurrentIsHeld
<1> QED BY <1>2, <1>3

(* Every step of threads and exceptions keeps the invariant.                *)
LEMMA NextKeeps ==
  ASSUME IInv, OpensInCritical, [Next]_vars
  PROVE  IInv'
<1>1. CASE UNCHANGED vars
  BY <1>1 DEF vars, IInv, TypeOK, HistoryType, OneThreadPerBlock, LeftAlone, OwnRegisters,
              OpeningIsFree, CurrentIsHeld
<1>2. CASE Next
  BY <1>2, OpenThreadKeeps, CloseKeeps, ComputesKeeps, InterruptKeeps, ReturnKeeps, CallsKeep
  DEF Next
<1> QED BY <1>1, <1>2

(* The inductive invariant: each thread's block holds what it had when it   *)
(* last ran (threads.c, vectors.s).                                         *)
THEOREM Inductive == OpensInCritical => (Spec => []IInv)
<1> SUFFICES ASSUME OpensInCritical PROVE Spec => []IInv
  OBVIOUS
<1>1. IInv /\ [Next]_vars => IInv'
  BY NextKeeps
<1> QED BY <1>1, InitIInv, PTL DEF Spec

(* No two threads have one block, for any number of blocks and tasks, as    *)
(* long as openThread is called in a critical section (threads.c:66-92).    *)
THEOREM BlocksAreApart == OpensInCritical => (Spec => []OneThreadPerBlock)
<1>1. IInv => OneThreadPerBlock
  BY DEF IInv
<1> QED BY <1>1, Inductive, PTL

(* A thread that does not run keeps its registers (vectors.s:53-177).       *)
THEOREM ContextsAreKept == OpensInCritical => (Spec => []LeftAlone)
<1>1. IInv => LeftAlone
  BY DEF IInv
<1> QED BY <1>1, Inductive, PTL

(* After an exception or a system call the task that runs is the current    *)
(* thread's (vectors.s:241-292, syscall.c:57-60).                           *)
THEOREM RunningIsCurrent == OpensInCritical => (Spec => []RunsItself)
<1>1. IInv => RunsItself
  BY DEF IInv, CurrentIsHeld, RunsItself
<1> QED BY <1>1, Inductive, PTL

(* The blocks in use are those somebody holds.                              *)
THEOREM TypeCorrect == OpensInCritical => (Spec => []TypeOK)
<1>1. IInv => TypeOK
  BY DEF IInv
<1> QED BY <1>1, Inductive, PTL

(* Threads stay apart, however many there are (kernel/threads.c).           *)
THEOREM Apart == OpensInCritical => (Spec => []ThreadsApart)
BY TypeCorrect, BlocksAreApart, ContextsAreKept, RunningIsCurrent, PTL DEF ThreadsApart

-----------------------------------------------------------------------------
(* The devices, and what each may answer.                                  *)
Devs == {"free", "flying", "mouse", "tap"}
Reply == [dev : Devs \cup {"none"}, held : SUBSET Bits]
Whole(r) == r.dev \in Devs /\ r.held \in Held(r.dev)
Buffer == [status : {0, 255}, id : {0, 65, 35, 18, 128}, data : [2 .. 7 -> SUBSET Bits]]
Poll == [port : Ports, step : {"idle", "address", "id", "ready", "even", "odd"},
         left : 0 .. 16, read : 0 .. 15, reply : Reply]
PadCall == [at : {"out", "status", "id", "high", "low", "analogue", "last"}, port : Ports,
            c : {0, 65, 35}, o : SUBSET Bits, polls : {0, 1}]

PadType ==
  /\ plugged \in [Ports -> Devs \cup {"none"}]
  /\ \A p \in Ports : plugged[p] \in Devices(p) \cup {"none"}
  /\ poll \in Poll
  /\ buffer \in [Ports -> Buffer]
  /\ word \in [Ports -> SUBSET Bits]
  /\ call \in PadCall
  /\ unpolled \in BOOLEAN /\ fresh \in BOOLEAN
  /\ answered \in [Ports -> Reply]
  /\ seen \in [Ports -> SUBSET Bits]

(* A buffer holds the bytes of a reply, those before byte n of them.       *)
HoldsUpTo(b, r, n) == \A i \in 2 .. 7 : i < n => b.data[i] = Byte(r, i)
HoldsReply(b, r) ==
  Whole(r) /\ b.id = Id(r.dev) /\ HoldsUpTo(b, r, 2 + 2 * Count(b.id))

(* The poll: while bytes come in, the status says so and the buffer has    *)
(* the reply as far as it was read.                                        *)
PollInv ==
  /\ NoPoll => poll = Idle
  /\ ~NoPoll => ~unpolled /\ buffer[poll.port].status = 255
  /\ poll.step = "address" => poll.left = 0 /\ poll.read = 0
  /\ poll.step \in {"id", "ready", "even", "odd"} =>
       /\ Whole(poll.reply) /\ plugged[poll.port] = poll.reply.dev
       /\ poll.reply.held \subseteq seen[poll.port]
  /\ poll.step = "id" => poll.left = 0 /\ poll.read = 0
  /\ poll.step \in {"ready", "even", "odd"} =>
       /\ buffer[poll.port].id = Id(poll.reply.dev)
       /\ poll.left > 0 /\ poll.read + poll.left = Count(buffer[poll.port].id)
  /\ poll.step = "ready" => poll.read = 0
  /\ poll.step = "even" => HoldsUpTo(buffer[poll.port], poll.reply, 2 + 2 * poll.read)
  /\ poll.step = "odd" => HoldsUpTo(buffer[poll.port], poll.reply, 3 + 2 * poll.read)

(* The ports the last poll, or this one, is done with.                     *)
Done(p) == ~unpolled /\ (NoPoll \/ p < poll.port)
PortsInv ==
  \A p \in Ports : Done(p) =>
    /\ buffer[p].status = 0 =>
         HoldsReply(buffer[p], answered[p]) /\ plugged[p] \in {"none", answered[p].dev}
    /\ buffer[p].status = 255 => answered[p] = NoReply
    /\ answered[p].held \subseteq seen[p]

(* The program's call: the buttons it still may load were held.            *)
Checked == call.at \in {"id", "high", "low", "analogue", "last"}
LoadsHeld(b, p) ==
  b.id \in Known => \A i \in 2 .. 7 : i < 2 + 2 * Count(b.id) => b.data[i] \subseteq seen[p]
CallInv ==
  /\ call.at = "out" => call = Out
  /\ call.at # "out" => ~unpolled /\ (~NoPoll => call.polls = 1)
  /\ call.at \in {"high", "low", "analogue", "last"} =>
       call.c \in Known /\ buffer[call.port].id = call.c
  /\ call.at \in {"analogue", "last"} => call.c = 35
  /\ Checked => LoadsHeld(buffer[call.port], call.port)
  /\ Checked /\ NoPoll /\ call.polls = 0 => buffer[call.port].status = 0
  /\ Checked /\ ~NoPoll =>
       plugged[call.port] = "none" \/ Id(plugged[call.port]) = buffer[call.port].id
  /\ call.at = "low" => call.o \subseteq seen[call.port]

PadInv == PadType /\ PollInv /\ PortsInv /\ CallInv /\ FreshWord /\ PressedMeansPressed

LEMMA ReplyBytes ==
  ASSUME NEW r \in Reply, Whole(r), NEW i \in 2 .. 7
  PROVE  /\ Byte(r, i) \subseteq Bits
         /\ r.dev \in {"free", "flying"} => Byte(r, i) \subseteq r.held
  BY DEF Whole, Reply, Byte, Held, Devs, Bits, High, Noise

LEMMA WholeIsShown ==
  ASSUME NEW b \in Buffer, NEW r \in Reply, HoldsReply(b, r), b.status = 0
  PROVE  Buttons(b) = r.held
<1>1. CASE r.dev = "free"
  <2>1. b.id = 65 /\ Count(b.id) = 1
    BY <1>1 DEF HoldsReply, Id, Count
  <2>2. b.data[2] = Byte(r, 2) /\ b.data[3] = Byte(r, 3)
    BY <2>1 DEF HoldsReply, HoldsUpTo
  <2> QED BY <1>1, <2>1, <2>2 DEF Buttons, Byte, Reply
<1>2. CASE r.dev = "flying"
  <2>1. b.id = 35 /\ Count(b.id) = 3
    BY <1>2 DEF HoldsReply, Id, Count
  <2>2. /\ b.data[2] = Byte(r, 2) /\ b.data[3] = Byte(r, 3)
        /\ b.data[5] = Byte(r, 5) /\ b.data[6] = Byte(r, 6)
    BY <2>1 DEF HoldsReply, HoldsUpTo
  <2>3. 8 \notin r.held
    BY <1>2 DEF HoldsReply, Whole, Held
  <2>4. b.id # 65
    BY <2>1
  <2>5. Buttons(b) = ((b.data[2] \cup b.data[3]) \ Noise) \cup b.data[5] \cup b.data[6]
    BY <2>1, <2>4 DEF Buttons
  <2>6. Byte(r, 2) = r.held \cap High /\ Byte(r, 3) = r.held \ (High \cup Noise)
    BY <1>2 DEF Byte
  <2>7. Byte(r, 5) = r.held \cap {6} /\ Byte(r, 6) = r.held \cap {7}
    BY <1>2 DEF Byte
  <2> QED BY <2>2, <2>3, <2>5, <2>6, <2>7 DEF High, Noise
<1>3. CASE r.dev \in {"mouse", "tap"}
  <2>1. b.id \in {18, 128}
    BY <1>3 DEF HoldsReply, Id
  <2>2. r.held = {}
    BY <1>3 DEF HoldsReply, Whole, Held
  <2> QED BY <2>1, <2>2 DEF Buttons
<1> QED BY <1>1, <1>2, <1>3 DEF HoldsReply, Whole, Devs

LEMMA Counts ==
  ASSUME NEW d \in Devs
  PROVE  Id(d) \in {65, 35, 18, 128} /\ Count(Id(d)) \in 1 .. 16
  BY DEF Devs, Id, Count

LEMMA KnownCounts == Count(65) = 1 /\ Count(35) = 3
  BY DEF Count

LEMMA StartsRight == PadInit => PadInv
<1> SUFFICES ASSUME PadInit PROVE PadInv
  OBVIOUS
<1> USE DEF PadInit
<1>1. PadType
  <2>1. Zeroed \in Buffer
    BY DEF Zeroed, Buffer, Bits, High
  <2>2. NoReply \in Reply
    BY DEF NoReply, Reply
  <2>3. Idle \in Poll /\ Out \in PadCall
    BY <2>2 DEF Idle, Poll, Out, PadCall, Ports
  <2> QED BY <2>1, <2>2, <2>3 DEF PadType
<1>2. NoPoll /\ poll = Idle
  BY DEF NoPoll, Idle
<1>3. PollInv
  BY <1>2 DEF PollInv, Idle, NoPoll
<1>4. PortsInv
  BY DEF PortsInv, Done
<1>5. CallInv
  BY DEF CallInv, Out, Checked
<1>6. FreshWord /\ PressedMeansPressed
  BY DEF FreshWord, PressedMeansPressed
<1> QED BY <1>1, <1>3, <1>4, <1>5, <1>6 DEF PadInv

(* sio0Handler after a port: the next port's turn, or the word.            *)
LEMMA NextPortGives ==
  ASSUME NEW bufs \in [Ports -> Buffer], NEW p \in Ports, NextPort(bufs, p)
  PROVE  /\ buffer' \in [Ports -> Buffer]
         /\ \A q \in Ports : buffer'[q].id = bufs[q].id /\ buffer'[q].data = bufs[q].data
         /\ buffer'[p] = bufs[p]
         /\ p = 0 => /\ buffer'[1].status = 255
                     /\ poll' = Turn(1)
                     /\ word' = word /\ fresh' = fresh
         /\ p = 1 => /\ buffer' = bufs /\ poll' = Idle /\ fresh' = TRUE
                     /\ word' = [q \in Ports |-> Buttons(bufs[q])]
<1>1. CASE p = 0
  <2>1. buffer' = [bufs EXCEPT ![1].status = 255] /\ 1 \in Ports
    BY <1>1 DEF NextPort, Ports
  <2>2. [bufs[1] EXCEPT !.status = 255] \in Buffer
    BY <2>1 DEF Buffer
  <2>3. buffer' \in [Ports -> Buffer]
    BY <2>1, <2>2
  <2>4. \A q \in Ports : buffer'[q].id = bufs[q].id /\ buffer'[q].data = bufs[q].data
    BY <2>1 DEF Buffer
  <2>5. buffer'[p] = bufs[p] /\ buffer'[1].status = 255
    BY <1>1, <2>1 DEF Buffer
  <2> QED BY <1>1, <2>3, <2>4, <2>5 DEF NextPort
<1>2. CASE p = 1
  BY <1>2 DEF NextPort
<1> QED BY <1>1, <1>2 DEF Ports

LEMMA ButtonsAreBits ==
  ASSUME NEW b \in Buffer PROVE Buttons(b) \subseteq Bits
<1>1. \A i \in 2 .. 7 : b.data[i] \subseteq Bits
  BY DEF Buffer
<1>2. b.data[2] \subseteq Bits /\ b.data[3] \subseteq Bits /\ b.data[5] \subseteq Bits /\ b.data[6] \subseteq Bits
  BY <1>1
<1> QED BY <1>2 DEF Buttons

LEMMA Turns ==
  /\ Idle \in Poll /\ Idle.step = "idle" /\ Idle.port = 0
  /\ \A p \in Ports :
       /\ Turn(p) \in Poll /\ Turn(p).step = "address" /\ Turn(p).port = p
       /\ Turn(p).left = 0 /\ Turn(p).read = 0
<1>1. NoReply \in Reply
  BY DEF NoReply, Reply
<1>2. Idle \in Poll /\ Idle.step = "idle" /\ Idle.port = 0
  BY <1>1 DEF Idle, Poll, Ports
<1>3. ASSUME NEW p \in Ports
      PROVE  /\ Turn(p) \in Poll /\ Turn(p).step = "address" /\ Turn(p).port = p
             /\ Turn(p).left = 0 /\ Turn(p).read = 0
  BY <1>1, <1>3 DEF Turn, Poll, Ports
<1> QED BY <1>2, <1>3

(* What a port's part of the poll leaves: a whole reply, or none.          *)
Ends(bufs, r, p) ==
  \/ bufs[p].status = 255 /\ r = NoReply
  \/ /\ bufs[p].status = 0 /\ HoldsReply(bufs[p], r)
     /\ plugged[p] = r.dev /\ r.held \subseteq seen[p]

LEMMA PortEnds ==
  ASSUME PadInv, NEW bufs \in [Ports -> Buffer], NEW r \in Reply, ~NoPoll,
         NextPort(bufs, poll.port), answered' = [answered EXCEPT ![poll.port] = r],
         \A q \in Ports : q # poll.port => bufs[q] = buffer[q],
         Ends(bufs, r, poll.port),
         Checked /\ call.port = poll.port =>
           LoadsHeld(bufs[poll.port], poll.port) /\ bufs[poll.port].id = buffer[poll.port].id,
         UNCHANGED <<plugged, call, unpolled, seen>>
  PROVE  PadInv'
<1> DEFINE p == poll.port
<1>1. p \in Ports /\ PadType
  BY DEF PadInv, PadType, Poll
<1>2. /\ buffer' \in [Ports -> Buffer]
      /\ \A q \in Ports : buffer'[q].id = bufs[q].id /\ buffer'[q].data = bufs[q].data
      /\ buffer'[p] = bufs[p]
      /\ p = 0 => /\ buffer'[1].status = 255
                  /\ poll' = Turn(1)
                  /\ word' = word /\ fresh' = fresh
      /\ p = 1 => /\ buffer' = bufs /\ poll' = Idle /\ fresh' = TRUE
                  /\ word' = [q \in Ports |-> Buttons(bufs[q])]
  BY <1>1, NextPortGives
<1>3. p = 0 \/ p = 1
  BY <1>1 DEF Ports
<1>4. Idle \in Poll /\ Turn(1) \in Poll
  BY Turns DEF Ports
<1>5. PadType'
  <2>1. answered' \in [Ports -> Reply]
    BY <1>1 DEF PadType
  <2>2. p = 1 => word' \in [Ports -> SUBSET Bits]
    <3>1. \A q \in Ports : Buttons(bufs[q]) \in SUBSET Bits
      BY ButtonsAreBits
    <3>2. [q \in Ports |-> Buttons(bufs[q])] \in [Ports -> SUBSET Bits]
      BY <3>1
    <3> QED BY <3>2, <1>2
  <2>3. word' \in [Ports -> SUBSET Bits]
    BY <1>1, <1>2, <1>3, <2>2 DEF PadType
  <2>4. fresh' \in BOOLEAN
    BY Zenon, <1>1, <1>2, <1>3 DEF PadType
  <2> QED BY <1>1, <1>2, <1>3, <1>4, <2>1, <2>3, <2>4 DEF PadType
<1>6. ~unpolled /\ ~unpolled'
  BY DEF PadInv, PollInv
<1>7. /\ p = 0 => poll'.step = "address" /\ poll'.port = 1 /\ poll'.left = 0 /\ poll'.read = 0
      /\ p = 1 => poll'.step = "idle" /\ poll'.port = 0
  BY <1>2, Turns DEF Ports
<1>8. PollInv'
  BY <1>2, <1>3, <1>6, <1>7 DEF PollInv, NoPoll
<1>9. \A q \in Ports : Done(q)' =>
        /\ buffer'[q].status = 0 =>
             HoldsReply(buffer'[q], answered'[q]) /\ plugged[q] \in {"none", answered'[q].dev}
        /\ buffer'[q].status = 255 => answered'[q] = NoReply
        /\ answered'[q].held \subseteq seen[q]
  <2> SUFFICES ASSUME NEW q \in Ports, Done(q)'
               PROVE  /\ buffer'[q].status = 0 =>
                           HoldsReply(buffer'[q], answered'[q]) /\ plugged[q] \in {"none", answered'[q].dev}
                      /\ buffer'[q].status = 255 => answered'[q] = NoReply
                      /\ answered'[q].held \subseteq seen[q]
    OBVIOUS
  <2>1. CASE q = p
    <3>1. answered'[q] = r /\ buffer'[q] = bufs[q]
      BY <2>1, <1>1, <1>2 DEF PadType
    <3> QED BY <2>1, <3>1 DEF Ends, NoReply
  <2>2. CASE q # p
    <3>1. p = 1 /\ q = 0
      BY <2>2, <1>3, <1>7 DEF Done, NoPoll, Ports
    <3>2. Done(q)
      BY <3>1, <1>6 DEF Done
    <3>3. answered'[q] = answered[q] /\ buffer'[q] = buffer[q]
      BY <2>2, <3>1, <1>1, <1>2 DEF PadType
    <3> QED BY <3>2, <3>3 DEF PadInv, PortsInv
  <2> QED BY <2>1, <2>2
<1>10. PortsInv'
  BY <1>9 DEF PortsInv
<1>11. CallInv'
  <2>1. call.at = "out" => call = Out
    BY DEF PadInv, CallInv
  <2>2. call.at # "out" => call.polls = 1
    BY DEF PadInv, CallInv
  <2>3. \A q \in Ports : buffer'[q].id = buffer[q].id \/ q = p
    BY <1>2
  <2>4. Checked => call.port \in Ports /\ buffer'[call.port].id = buffer[call.port].id
    BY <1>1, <1>2, <2>3 DEF PadType, PadCall
  <2>5. Checked => LoadsHeld(buffer'[call.port], call.port)
    <3>1. CASE call.port = p
      BY <3>1, <1>2
    <3>2. CASE call.port # p
      <4>1. call.port \in Ports
        BY <1>1 DEF PadType, PadCall
      <4>2. /\ buffer'[call.port].id = buffer[call.port].id
            /\ buffer'[call.port].data = buffer[call.port].data
        BY <3>2, <4>1, <1>2
      <4>3. Checked => LoadsHeld(buffer[call.port], call.port)
        BY DEF PadInv, CallInv
      <4> QED BY <4>2, <4>3 DEF LoadsHeld
    <3> QED BY <3>1, <3>2
  <2>6. Checked' = Checked
    BY DEF Checked
  <2>7. LoadsHeld(buffer[call.port], call.port)' <=> LoadsHeld(buffer'[call.port], call.port)
    BY DEF LoadsHeld
  <2> QED BY <1>6, <2>1, <2>2, <2>4, <2>5, <2>6, <2>7 DEF PadInv, CallInv, Checked
<1>12. FreshWord' /\ PressedMeansPressed'
  <2>1. CASE p = 0
    BY <2>1, <1>7 DEF FreshWord, PressedMeansPressed, NoPoll
  <2>2. CASE p = 1
    <3>1. \A q \in Ports : Done(q)'
      BY <2>2, <1>6, <1>7 DEF Done, NoPoll
    <3>2. \A q \in Ports : Buttons(buffer'[q]) = answered'[q].held
      <4> SUFFICES ASSUME NEW q \in Ports PROVE Buttons(buffer'[q]) = answered'[q].held
        OBVIOUS
      <4>1. buffer'[q] \in Buffer /\ answered'[q] \in Reply
        BY <1>2, <1>5 DEF PadType
      <4>2. CASE buffer'[q].status = 0
        BY <4>1, <4>2, <3>1, <1>9, WholeIsShown
      <4>3. CASE buffer'[q].status = 255
        <5>1. answered'[q] = NoReply
          BY <4>3, <3>1, <1>9
        <5> QED BY <4>3, <5>1 DEF Buttons, NoReply
      <4> QED BY <4>1, <4>2, <4>3 DEF Buffer
    <3>3. word' = [q \in Ports |-> answered'[q].held]
      BY <2>2, <1>2, <3>2
    <3> QED BY <3>1, <3>3, <1>9 DEF FreshWord, PressedMeansPressed
  <2> QED BY <2>1, <2>2, <1>3
<1> QED BY <1>5, <1>8, <1>10, <1>11, <1>12 DEF PadInv

LEMMA VBlankKeeps == PadInv /\ VBlank => PadInv'
<1> SUFFICES ASSUME PadInv, VBlank PROVE PadInv'
  OBVIOUS
<1>1. PadType /\ 0 \in Ports
  BY DEF PadInv, Ports
<1>2. poll' = Turn(0) /\ Turn(0) \in Poll /\ poll'.step = "address" /\ poll'.port = 0
      /\ poll'.left = 0 /\ poll'.read = 0
  BY <1>1, Turns DEF VBlank
<1>3. /\ buffer' \in [Ports -> Buffer] /\ buffer'[0].status = 255
      /\ \A q \in Ports : buffer'[q].id = buffer[q].id /\ buffer'[q].data = buffer[q].data
  <2>1. buffer' = [buffer EXCEPT ![0].status = 255] /\ buffer \in [Ports -> Buffer]
    BY <1>1 DEF VBlank, PadType
  <2>2. [buffer[0] EXCEPT !.status = 255] \in Buffer
    BY <2>1, <1>1 DEF Buffer
  <2> QED BY <2>1, <2>2, <1>1 DEF Buffer
<1>4. CASE call.at = "out"
  <2>1. call' = call /\ call = Out /\ seen' = [p \in Ports |-> {}]
    BY <1>4 DEF VBlank, PadInv, CallInv
  <2>2. PadType'
    BY <1>1, <1>2, <1>3, <2>1 DEF VBlank, PadType
  <2>3. PollInv' /\ PortsInv'
    BY <1>2, <1>3 DEF VBlank, PollInv, PortsInv, Done, NoPoll, Ports
  <2>4. CallInv'
    BY <2>1, <1>4 DEF CallInv, Checked
  <2>5. FreshWord' /\ PressedMeansPressed'
    BY <1>2 DEF FreshWord, PressedMeansPressed, NoPoll
  <2> QED BY <2>2, <2>3, <2>4, <2>5 DEF PadInv
<1>5. CASE call.at # "out"
  <2>1. call' = [call EXCEPT !.polls = 1] /\ seen' = seen /\ call.polls = 0 /\ NoPoll
    BY <1>5 DEF VBlank, NoPoll
  <2>2. /\ call' \in PadCall /\ call'.at = call.at /\ call'.port = call.port
        /\ call'.c = call.c /\ call'.o = call.o /\ call'.polls = 1
    BY <1>1, <2>1 DEF PadType, PadCall
  <2>3. PadType'
    BY <1>1, <1>2, <1>3, <2>1, <2>2 DEF VBlank, PadType
  <2>4. PollInv' /\ PortsInv'
    BY <1>2, <1>3 DEF VBlank, PollInv, PortsInv, Done, NoPoll, Ports
  <2>5. call.port \in Ports
    BY <1>1 DEF PadType, PadCall
  <2>6. Checked => plugged[call.port] = "none" \/ Id(plugged[call.port]) = buffer[call.port].id
    BY <1>5, <2>1, <2>5 DEF PadInv, CallInv, PortsInv, Done, HoldsReply
  <2>7. Checked => LoadsHeld(buffer[call.port], call.port)
    BY DEF PadInv, CallInv
  <2>8. LoadsHeld(buffer[call.port], call.port) => LoadsHeld(buffer[call.port], call.port)'
    BY <1>3, <2>1, <2>2, <2>5 DEF LoadsHeld
  <2>9. CallInv'
    BY <1>3, <1>5, <2>1, <2>2, <2>5, <2>6, <2>7, <2>8 DEF PadInv, CallInv, Checked, VBlank
  <2>10. FreshWord' /\ PressedMeansPressed'
    BY <1>2 DEF FreshWord, PressedMeansPressed, NoPoll
  <2> QED BY <2>3, <2>4, <2>9, <2>10 DEF PadInv
<1> QED BY <1>4, <1>5

LEMMA SilentKeeps == PadInv /\ Silent => PadInv'
<1> SUFFICES ASSUME PadInv, Silent PROVE PadInv'
  OBVIOUS
<1> DEFINE bufs == [buffer EXCEPT ![poll.port].status = 255]
<1>1. poll.port \in Ports /\ buffer \in [Ports -> Buffer]
  BY DEF PadInv, PadType, Poll
<1>2. [buffer[poll.port] EXCEPT !.status = 255] \in Buffer
  BY <1>1 DEF Buffer
<1>3. /\ bufs \in [Ports -> Buffer] /\ bufs[poll.port].status = 255
      /\ bufs[poll.port].id = buffer[poll.port].id /\ bufs[poll.port].data = buffer[poll.port].data
  BY <1>1, <1>2 DEF Buffer
<1>4. \A q \in Ports : q # poll.port => bufs[q] = buffer[q]
  BY <1>1
<1>5. NoReply \in Reply
  BY DEF NoReply, Reply
<1>6. Ends(bufs, NoReply, poll.port)
  BY <1>3 DEF Ends
<1>7. Checked /\ call.port = poll.port =>
        LoadsHeld(bufs[poll.port], poll.port) /\ bufs[poll.port].id = buffer[poll.port].id
  BY <1>3 DEF PadInv, CallInv, LoadsHeld
<1>8. ~NoPoll /\ NextPort(bufs, poll.port) /\ answered' = [answered EXCEPT ![poll.port] = NoReply]
      /\ UNCHANGED <<plugged, call, unpolled, seen>>
  BY DEF Silent, padAbort, NoPoll
<1> HIDE DEF bufs
<1> QED BY <1>3, <1>4, <1>5, <1>6, <1>7, <1>8, PortEnds, ZenonT(60)

LEMMA AddressKeeps == PadInv /\ Address => PadInv'
<1> SUFFICES ASSUME PadInv, Address PROVE PadInv'
  OBVIOUS
<1>1. PadType /\ poll.port \in Ports
  BY DEF PadInv, PadType, Poll
<1>2. PICK r \in Replies(plugged[poll.port]) :
        /\ poll' = [poll EXCEPT !.step = "id", !.reply = r]
        /\ seen' = [seen EXCEPT ![poll.port] = @ \cup r.held]
  BY DEF Address
<1>3. plugged[poll.port] \in Devs
  BY <1>1 DEF Address, PadType
<1>4. r.dev = plugged[poll.port] /\ r.held \in Held(r.dev)
  BY DEF Replies
<1>5. Whole(r) /\ r \in Reply
  <2>1. Held(r.dev) \subseteq SUBSET Bits
    BY DEF Held, Bits
  <2>2. r.held \subseteq Bits
    BY <2>1, <1>4
  <2> QED BY <1>3, <1>4, <2>2 DEF Whole, Replies, Reply
<1>6. /\ poll' \in Poll /\ poll'.step = "id" /\ poll'.reply = r /\ poll'.port = poll.port
      /\ poll'.left = poll.left /\ poll'.read = poll.read
  BY <1>1, <1>2, <1>5 DEF PadType, Poll
<1>7. /\ seen' \in [Ports -> SUBSET Bits] /\ r.held \subseteq seen'[poll.port]
      /\ \A q \in Ports : seen[q] \subseteq seen'[q]
  BY <1>1, <1>2, <1>5 DEF PadType, Reply
<1>8. UNCHANGED <<plugged, buffer, word, call, unpolled, answered, fresh>> /\ poll.step = "address"
  BY DEF Address
<1>9. PadType'
  BY <1>1, <1>6, <1>7, <1>8 DEF PadType
<1>10. PollInv'
  BY <1>4, <1>5, <1>6, <1>7, <1>8 DEF PadInv, PollInv, NoPoll
<1>11. PortsInv'
  BY <1>6, <1>7, <1>8 DEF PadInv, PortsInv, Done, NoPoll
<1>12. CallInv'
  <2>1. call.port \in Ports
    BY <1>1 DEF PadType, PadCall
  <2>2. LoadsHeld(buffer[call.port], call.port) => LoadsHeld(buffer[call.port], call.port)'
    BY <1>7, <1>8, <2>1 DEF LoadsHeld
  <2> QED BY <1>6, <1>7, <1>8, <2>1, <2>2 DEF PadInv, CallInv, Checked, NoPoll
<1>13. FreshWord' /\ PressedMeansPressed'
  BY <1>6 DEF FreshWord, PressedMeansPressed, NoPoll
<1> QED BY <1>9, <1>10, <1>11, <1>12, <1>13 DEF PadInv

LEMMA ReadIdKeeps == PadInv /\ ReadId => PadInv'
<1> SUFFICES ASSUME PadInv, ReadId PROVE PadInv'
  OBVIOUS
<1> DEFINE id == Id(poll.reply.dev)
           bufs == [buffer EXCEPT ![poll.port].id = id]
           last == [bufs EXCEPT ![poll.port].status = 255]
<1>1. PadType /\ poll.port \in Ports /\ buffer \in [Ports -> Buffer] /\ poll.step = "id" /\ ~NoPoll
  BY DEF PadInv, PadType, Poll, ReadId, NoPoll
<1>2. Whole(poll.reply) /\ poll.reply.dev \in Devs /\ plugged[poll.port] = poll.reply.dev
      /\ poll.left = 0 /\ poll.read = 0 /\ buffer[poll.port].status = 255
  BY <1>1 DEF PadInv, PollInv, Whole
<1>3. id \in {65, 35, 18, 128} /\ Count(id) \in 1 .. 16
  BY <1>2, Counts
<1>4. [buffer[poll.port] EXCEPT !.id = id] \in Buffer
  BY <1>1, <1>3 DEF Buffer
<1>5. /\ bufs \in [Ports -> Buffer] /\ bufs[poll.port].id = id
      /\ bufs[poll.port].data = buffer[poll.port].data /\ bufs[poll.port].status = 255
      /\ \A q \in Ports : q # poll.port => bufs[q] = buffer[q]
  BY <1>1, <1>2, <1>4 DEF Buffer
<1>6. Checked /\ call.port = poll.port =>
        bufs[poll.port].id = buffer[poll.port].id /\ LoadsHeld(bufs[poll.port], poll.port)
  <2>1. Checked /\ call.port = poll.port => id = buffer[poll.port].id
    BY <1>1, <1>2 DEF PadInv, CallInv, Devs
  <2>2. Checked => LoadsHeld(buffer[call.port], call.port)
    BY DEF PadInv, CallInv
  <2> QED BY <2>1, <2>2, <1>5 DEF LoadsHeld
<1>7. CASE /\ buffer' = bufs
           /\ poll' = [poll EXCEPT !.step = "ready", !.left = Count(id)]
           /\ UNCHANGED <<word, answered, fresh>>
  <2>1. /\ poll' \in Poll /\ poll'.step = "ready" /\ poll'.reply = poll.reply
        /\ poll'.port = poll.port /\ poll'.left = Count(id) /\ poll'.read = 0
    <3>1. poll \in Poll /\ Count(id) \in 0 .. 16
      BY <1>1, <1>3 DEF PadType
    <3> DEFINE n == Count(id)
    <3>2. poll' = [poll EXCEPT !.step = "ready", !.left = n]
      BY <1>7
    <3> HIDE DEF n
    <3>3. n \in 0 .. 16
      BY <3>1 DEF n
    <3>4. poll' \in Poll /\ poll'.step = "ready" /\ poll'.left = n /\ poll'.read = poll.read
      BY <3>1, <3>2, <3>3 DEF Poll
    <3>5. poll'.reply = poll.reply /\ poll'.port = poll.port
      BY <3>1, <3>2 DEF Poll
    <3> QED BY <3>4, <3>5, <1>2 DEF n
  <2>2. UNCHANGED <<plugged, call, unpolled, seen>>
    BY DEF ReadId
  <2> HIDE DEF id, bufs
  <2>3. PadType'
    BY <1>1, <1>5, <1>7, <2>1, <2>2 DEF PadType
  <2>4. id = Id(poll.reply.dev)
    BY DEF id
  <2>5. PollInv'
    <3>1. Whole(poll.reply) /\ poll.reply.held \subseteq seen[poll.port] /\ ~unpolled
      BY <1>1 DEF PadInv, PollInv
    <3> QED BY <1>2, <1>3, <1>5, <1>7, <2>1, <2>2, <2>4, <3>1 DEF PollInv, NoPoll
  <2>6. PortsInv'
    BY <1>1, <1>5, <1>7, <2>1, <2>2 DEF PadInv, PortsInv, Done, NoPoll, Ports
  <2>7. call.port \in Ports
    BY <1>1 DEF PadType, PadCall
  <2>8. Checked => LoadsHeld(bufs[call.port], call.port) /\ bufs[call.port].id = buffer[call.port].id
    BY <1>5, <1>6, <2>7 DEF PadInv, CallInv
  <2>9. LoadsHeld(bufs[call.port], call.port) => LoadsHeld(buffer[call.port], call.port)'
    BY <1>7, <2>2 DEF LoadsHeld
  <2>10. CallInv'
    BY <1>1, <1>7, <2>1, <2>2, <2>7, <2>8, <2>9 DEF PadInv, CallInv, Checked, NoPoll
  <2>11. FreshWord' /\ PressedMeansPressed'
    BY <2>1 DEF FreshWord, PressedMeansPressed, NoPoll
  <2> QED BY <2>3, <2>5, <2>6, <2>10, <2>11 DEF PadInv
<1>8. CASE padAbort(bufs, poll.port)
  <2>1. [bufs[poll.port] EXCEPT !.status = 255] \in Buffer
    BY <1>1, <1>5 DEF Buffer
  <2> HIDE DEF bufs, id
  <2>2. /\ last \in [Ports -> Buffer] /\ last[poll.port].status = 255
        /\ last[poll.port].id = bufs[poll.port].id /\ last[poll.port].data = bufs[poll.port].data
        /\ \A q \in Ports : q # poll.port => last[q] = buffer[q]
    BY <1>1, <1>5, <2>1 DEF Buffer
  <2>3. NoReply \in Reply
    BY DEF NoReply, Reply
  <2>4. Ends(last, NoReply, poll.port)
    BY <2>2 DEF Ends
  <2>5. Checked /\ call.port = poll.port =>
          LoadsHeld(last[poll.port], poll.port) /\ last[poll.port].id = buffer[poll.port].id
    BY <2>2, <1>6 DEF LoadsHeld
  <2>6. NextPort(last, poll.port) /\ answered' = [answered EXCEPT ![poll.port] = NoReply]
    BY <1>8 DEF padAbort
  <2>7. UNCHANGED <<plugged, call, unpolled, seen>>
    BY DEF ReadId
  <2> HIDE DEF last
  <2> QED BY <1>1, <2>2, <2>3, <2>4, <2>5, <2>6, <2>7, PortEnds
<1> QED BY <1>7, <1>8 DEF ReadId

LEMMA ReadyKeeps == PadInv /\ Ready => PadInv'
<1> SUFFICES ASSUME PadInv, Ready PROVE PadInv'
  OBVIOUS
<1>1. PadType /\ poll.step = "ready" /\ poll' = [poll EXCEPT !.step = "even"]
  BY DEF PadInv, Ready
<1>2. UNCHANGED <<plugged, buffer, word, call, unpolled, answered, seen, fresh>>
  BY DEF Ready, history
<1>3. /\ poll' \in Poll /\ poll'.step = "even" /\ poll'.reply = poll.reply
      /\ poll'.port = poll.port /\ poll'.left = poll.left /\ poll'.read = poll.read
  BY <1>1 DEF PadType, Poll
<1>4. PadType'
  BY <1>1, <1>2, <1>3 DEF PadType
<1>5. PollInv'
  BY <1>1, <1>2, <1>3 DEF PadInv, PollInv, NoPoll, HoldsUpTo
<1>6. PortsInv'
  BY <1>1, <1>2, <1>3 DEF PadInv, PortsInv, Done, NoPoll
<1>7. CallInv'
  BY <1>1, <1>2, <1>3 DEF PadInv, CallInv, Checked, NoPoll, LoadsHeld
<1>8. FreshWord' /\ PressedMeansPressed'
  BY <1>3 DEF FreshWord, PressedMeansPressed, NoPoll
<1> QED BY <1>4, <1>5, <1>6, <1>7, <1>8 DEF PadInv

(* A byte of the reply, in its place.                                      *)
LEMMA TakenGives ==
  ASSUME PadInv, poll.step \in {"even", "odd"}, NEW n \in Nat, n >= 2
  PROVE  /\ Taken(n) \in [Ports -> Buffer]
         /\ \A q \in Ports : q # poll.port => Taken(n)[q] = buffer[q]
         /\ Taken(n)[poll.port].id = buffer[poll.port].id
         /\ Taken(n)[poll.port].status = 255
         /\ HoldsUpTo(buffer[poll.port], poll.reply, n) =>
              HoldsUpTo(Taken(n)[poll.port], poll.reply, n + 1)
         /\ Checked => LoadsHeld(Taken(n)[call.port], call.port)
<1> DEFINE p == poll.port
           b == buffer[p]
           v == Byte(poll.reply, n)
<1>1. PadType /\ p \in Ports /\ buffer \in [Ports -> Buffer] /\ b \in Buffer /\ ~NoPoll
  BY DEF PadInv, PadType, Poll, NoPoll
<1>2. Whole(poll.reply) /\ poll.reply \in Reply /\ plugged[p] = poll.reply.dev
      /\ poll.reply.held \subseteq seen[p] /\ b.status = 255 /\ b.id = Id(poll.reply.dev)
  BY <1>1 DEF PadInv, PollInv, PadType, Poll
<1>3. Checked => LoadsHeld(buffer[call.port], call.port) /\ call.port \in Ports
  BY <1>1 DEF PadInv, CallInv, PadType, PadCall
<1>4. CASE n > 7
  <2>1. Taken(n) = buffer
    BY <1>4 DEF Taken
  <2>2. HoldsUpTo(b, poll.reply, n) => HoldsUpTo(b, poll.reply, n + 1)
    BY <1>4 DEF HoldsUpTo
  <2> QED BY <1>1, <1>2, <1>3, <2>1, <2>2
<1>5. CASE n =< 7
  <2>1. n \in 2 .. 7
    BY <1>5
  <2>2. v \subseteq Bits /\ (poll.reply.dev \in {"free", "flying"} => v \subseteq poll.reply.held)
    BY <2>1, <1>2, ReplyBytes
  <2>3. Taken(n) = [buffer EXCEPT ![p].data[n] = v]
    BY <1>5 DEF Taken
  <2> DEFINE d == [b.data EXCEPT ![n] = v]
             c == [b EXCEPT !.data = d]
  <2>4. b.data \in [2 .. 7 -> SUBSET Bits]
    BY <1>1 DEF Buffer
  <2> HIDE DEF v
  <2>5. d \in [2 .. 7 -> SUBSET Bits] /\ \A i \in 2 .. 7 : d[i] = IF i = n THEN v ELSE b.data[i]
    BY <2>1, <2>2, <2>4
  <2>6. Taken(n) = [buffer EXCEPT ![p] = c]
    BY <2>3
  <2> HIDE DEF d
  <2>7. c \in Buffer /\ c.data = d /\ c.id = b.id /\ c.status = b.status
    BY <1>1, <2>5 DEF Buffer
  <2> HIDE DEF c
  <2>8. /\ Taken(n) \in [Ports -> Buffer] /\ Taken(n)[p] = c
        /\ \A q \in Ports : q # p => Taken(n)[q] = buffer[q]
    BY <1>1, <2>6, <2>7
  <2>9. HoldsUpTo(b, poll.reply, n) => HoldsUpTo(c, poll.reply, n + 1)
    <3> SUFFICES ASSUME HoldsUpTo(b, poll.reply, n), NEW i \in 2 .. 7, i < n + 1
                 PROVE  c.data[i] = Byte(poll.reply, i)
      BY DEF HoldsUpTo
    <3>1. CASE i = n
      BY <3>1, <2>5, <2>7 DEF v
    <3>2. CASE i # n
      BY <3>2, <2>5, <2>7, <2>1 DEF HoldsUpTo
    <3> QED BY <3>1, <3>2
  <2>10. Checked => LoadsHeld(Taken(n)[call.port], call.port)
    <3>1. CASE call.port # p
      BY <3>1, <1>3, <2>8
    <3>2. CASE call.port = p
      <4> SUFFICES ASSUME Checked, c.id \in Known, NEW i \in 2 .. 7, i < 2 + 2 * Count(c.id)
                   PROVE  c.data[i] \subseteq seen[p]
        BY <3>2, <2>8 DEF LoadsHeld
      <4>1. poll.reply.dev \in {"free", "flying"}
        BY <1>2, <2>7 DEF Whole, Devs, Id, Known
      <4>2. v \subseteq seen[p]
        BY <4>1, <2>2, <1>2
      <4>3. b.data[i] \subseteq seen[p]
        BY <3>2, <1>3, <2>7 DEF LoadsHeld
      <4> QED BY <4>2, <4>3, <2>5, <2>7
    <3> QED BY <3>1, <3>2
  <2> QED BY <1>2, <2>7, <2>8, <2>9, <2>10
<1> QED BY <1>4, <1>5

(* The poll goes on with the next byte.                                    *)
LEMMA PollGoesOn ==
  ASSUME PadInv, NEW bufs \in [Ports -> Buffer],
         poll.step \in {"even", "odd"}, poll' \in Poll, poll'.step \in {"even", "odd"},
         poll'.port = poll.port, poll'.reply = poll.reply,
         poll'.left > 0, poll'.read + poll'.left = poll.read + poll.left,
         buffer' = bufs,
         \A q \in Ports : q # poll.port => bufs[q] = buffer[q],
         bufs[poll.port].id = buffer[poll.port].id, bufs[poll.port].status = 255,
         HoldsUpTo(bufs[poll.port], poll.reply,
                   IF poll'.step = "even" THEN 2 + 2 * poll'.read ELSE 3 + 2 * poll'.read),
         Checked => LoadsHeld(bufs[call.port], call.port),
         UNCHANGED <<plugged, word, call, unpolled, answered, seen, fresh>>
  PROVE  PadInv'
<1>1. PadType /\ poll.port \in Ports /\ ~NoPoll /\ ~NoPoll'
  BY DEF PadInv, PadType, Poll, NoPoll
<1>2. PadType'
  BY <1>1 DEF PadType
<1>3. PollInv'
  <2>1. Whole(poll.reply) /\ poll.reply.held \subseteq seen[poll.port] /\ ~unpolled
        /\ plugged[poll.port] = poll.reply.dev /\ buffer[poll.port].id = Id(poll.reply.dev)
        /\ poll.read + poll.left = Count(buffer[poll.port].id)
    BY <1>1 DEF PadInv, PollInv
  <2>2. HoldsUpTo(bufs[poll.port], poll.reply, 2 + 2 * poll'.read) /\ poll'.step = "even"
        => HoldsUpTo(buffer[poll.port], poll.reply, 2 + 2 * poll.read)'
    BY DEF HoldsUpTo
  <2>3. HoldsUpTo(bufs[poll.port], poll.reply, 3 + 2 * poll'.read) /\ poll'.step = "odd"
        => HoldsUpTo(buffer[poll.port], poll.reply, 3 + 2 * poll.read)'
    BY DEF HoldsUpTo
  <2> QED BY <1>1, <2>1, <2>2, <2>3 DEF PollInv, NoPoll
<1>4. PortsInv'
  BY <1>1 DEF PadInv, PortsInv, Done, NoPoll, Ports
<1>5. call.port \in Ports /\ bufs[call.port].id = buffer[call.port].id
  BY <1>1 DEF PadType, PadCall
<1>6. LoadsHeld(bufs[call.port], call.port) => LoadsHeld(buffer[call.port], call.port)'
  BY DEF LoadsHeld
<1>7. CallInv'
  BY <1>1, <1>5, <1>6 DEF PadInv, CallInv, Checked, NoPoll
<1>8. FreshWord' /\ PressedMeansPressed'
  BY <1>1 DEF FreshWord, PressedMeansPressed
<1> QED BY <1>2, <1>3, <1>4, <1>7, <1>8 DEF PadInv

LEMMA ReadEvenKeeps == PadInv /\ ReadEven => PadInv'
<1> SUFFICES ASSUME PadInv, ReadEven PROVE PadInv'
  OBVIOUS
<1> DEFINE n == 2 + 2 * poll.read
           bufs == Taken(n)
<1>1. PadType /\ poll \in Poll /\ poll.step = "even" /\ poll' = [poll EXCEPT !.step = "odd"]
  BY DEF PadInv, PadType, ReadEven
<1>2. n \in Nat /\ n >= 2 /\ poll.read \in Nat /\ poll.left > 0
  BY <1>1 DEF Poll, PadInv, PollInv
<1>3. /\ poll' \in Poll /\ poll'.step = "odd" /\ poll'.reply = poll.reply
      /\ poll'.port = poll.port /\ poll'.left = poll.left /\ poll'.read = poll.read
  BY <1>1 DEF Poll
<1>4. HoldsUpTo(buffer[poll.port], poll.reply, n)
  BY <1>1 DEF PadInv, PollInv
<1>5. /\ bufs \in [Ports -> Buffer]
      /\ \A q \in Ports : q # poll.port => bufs[q] = buffer[q]
      /\ bufs[poll.port].id = buffer[poll.port].id
      /\ bufs[poll.port].status = 255
      /\ HoldsUpTo(bufs[poll.port], poll.reply, n + 1)
      /\ Checked => LoadsHeld(bufs[call.port], call.port)
  BY <1>1, <1>2, <1>4, TakenGives
<1>6. n + 1 = 3 + 2 * poll'.read
  BY <1>2, <1>3
<1>7. buffer' = bufs /\ UNCHANGED <<plugged, word, call, unpolled, answered, seen, fresh>>
  BY DEF ReadEven, history
<1> HIDE DEF bufs, n
<1> QED BY <1>1, <1>2, <1>3, <1>5, <1>6, <1>7, PollGoesOn

LEMMA ReadOddKeeps == PadInv /\ ReadOdd => PadInv'
<1> SUFFICES ASSUME PadInv, ReadOdd PROVE PadInv'
  OBVIOUS
<1> DEFINE n == 3 + 2 * poll.read
           bufs == Taken(n)
<1>1. PadType /\ poll \in Poll /\ poll.step = "odd" /\ poll.port \in Ports /\ ~NoPoll
  BY DEF PadInv, PadType, Poll, ReadOdd, NoPoll
<1>2. n \in Nat /\ n >= 2 /\ poll.read \in 0 .. 15 /\ poll.left \in 1 .. 16
      /\ poll.read + poll.left = Count(buffer[poll.port].id)
  BY <1>1 DEF Poll, PadInv, PollInv
<1>3. HoldsUpTo(buffer[poll.port], poll.reply, n)
  BY <1>1 DEF PadInv, PollInv
<1>4. /\ bufs \in [Ports -> Buffer]
      /\ \A q \in Ports : q # poll.port => bufs[q] = buffer[q]
      /\ bufs[poll.port].id = buffer[poll.port].id
      /\ bufs[poll.port].status = 255
      /\ HoldsUpTo(bufs[poll.port], poll.reply, n + 1)
      /\ Checked => LoadsHeld(bufs[call.port], call.port)
  BY <1>1, <1>2, <1>3, TakenGives
<1>5. UNCHANGED <<plugged, call, unpolled, seen>>
  BY DEF ReadOdd
<1>6. /\ Whole(poll.reply) /\ poll.reply \in Reply /\ plugged[poll.port] = poll.reply.dev
      /\ poll.reply.held \subseteq seen[poll.port] /\ buffer[poll.port].id = Id(poll.reply.dev)
  BY <1>1 DEF PadInv, PollInv, PadType, Poll
<1>7. Count(buffer[poll.port].id) \in 1 .. 16
  BY <1>6, Counts DEF Whole
<1>8. CASE poll.left > 1
  <2>1. /\ buffer' = bufs /\ UNCHANGED <<word, answered, fresh>>
        /\ poll' = [poll EXCEPT !.step = "even", !.left = @ - 1, !.read = @ + 1]
    BY <1>8 DEF ReadOdd
  <2>2. poll.left - 1 \in 0 .. 16 /\ poll.read + 1 \in 0 .. 15
    BY <1>2, <1>7, <1>8
  <2>3. /\ poll' \in Poll /\ poll'.step = "even" /\ poll'.reply = poll.reply
        /\ poll'.port = poll.port /\ poll'.left = poll.left - 1 /\ poll'.read = poll.read + 1
    BY <1>1, <2>1, <2>2 DEF Poll
  <2>4. n + 1 = 2 + 2 * poll'.read /\ poll'.left > 0
        /\ poll'.read + poll'.left = poll.read + poll.left
    BY <1>2, <1>8, <2>3
  <2> HIDE DEF bufs, n
  <2> QED BY <1>1, <1>4, <1>5, <2>1, <2>3, <2>4, PollGoesOn
<1>9. CASE ~(poll.left > 1)
  <2> DEFINE last == [bufs EXCEPT ![poll.port].status = 0]
  <2>1. NextPort(last, poll.port) /\ answered' = [answered EXCEPT ![poll.port] = poll.reply]
    BY <1>9 DEF ReadOdd
  <2>2. poll.left = 1 /\ 2 + 2 * Count(buffer[poll.port].id) = n + 1
    BY <1>2, <1>9
  <2> HIDE DEF bufs, n
  <2>3. [bufs[poll.port] EXCEPT !.status = 0] \in Buffer
    BY <1>1, <1>4 DEF Buffer
  <2>4. /\ last \in [Ports -> Buffer] /\ last[poll.port].status = 0
        /\ last[poll.port].id = bufs[poll.port].id /\ last[poll.port].data = bufs[poll.port].data
        /\ \A q \in Ports : q # poll.port => last[q] = buffer[q]
    BY <1>1, <1>4, <2>3 DEF Buffer
  <2>5. Ends(last, poll.reply, poll.port)
    BY <1>4, <1>6, <2>2, <2>4 DEF Ends, HoldsReply, HoldsUpTo
  <2>6. Checked /\ call.port = poll.port =>
          LoadsHeld(last[poll.port], poll.port) /\ last[poll.port].id = buffer[poll.port].id
    BY <1>4, <2>4 DEF LoadsHeld
  <2> HIDE DEF last
  <2> QED BY <1>1, <1>5, <1>6, <2>1, <2>4, <2>5, <2>6, PortEnds
<1> QED BY <1>8, <1>9

(* A step of the program's call leaves polls and buffers alone.            *)
LEMMA LoadKeeps ==
  ASSUME PadInv, NoPoll, ~unpolled, call' \in PadCall,
         word' \in [Ports -> SUBSET Bits], \A p \in Ports : word'[p] \subseteq seen[p],
         fresh' \in BOOLEAN, fresh' => fresh /\ word' = word,
         call'.at = "out" => call' = Out,
         call'.at \in {"high", "low", "analogue", "last"} =>
           call'.c \in Known /\ buffer[call'.port].id = call'.c,
         call'.at \in {"analogue", "last"} => call'.c = 35,
         call'.at \in {"id", "high", "low", "analogue", "last"} =>
           /\ LoadsHeld(buffer[call'.port], call'.port)
           /\ call'.polls = 0 => buffer[call'.port].status = 0,
         call'.at = "low" => call'.o \subseteq seen[call'.port],
         UNCHANGED <<plugged, poll, buffer, unpolled, answered, seen>>
  PROVE  PadInv'
<1>1. PadType'
  BY DEF PadInv, PadType
<1>2. PollInv'
  BY DEF PadInv, PollInv, NoPoll, HoldsUpTo
<1>3. PortsInv'
  BY DEF PadInv, PortsInv, Done, NoPoll
<1>4. LoadsHeld(buffer[call'.port], call'.port) => LoadsHeld(buffer[call.port], call.port)'
  BY DEF LoadsHeld
<1>5. CallInv'
  BY <1>4 DEF CallInv, Checked, NoPoll
<1>6. FreshWord'
  BY DEF PadInv, FreshWord, NoPoll
<1>7. PressedMeansPressed'
  BY DEF PressedMeansPressed
<1> QED BY <1>1, <1>2, <1>3, <1>5, <1>6, <1>7 DEF PadInv

LEMMA PastGives ==
  ASSUME PadType, NEW p \in Ports
  PROVE  /\ Past(p) \in PadCall
         /\ Past(p) = Out \/ Past(p).at = "status"
<1>1. Out \in PadCall /\ Out.at = "out"
  BY DEF Out, PadCall, Ports
<1>2. /\ [call EXCEPT !.at = "status", !.port = 1] \in PadCall
      /\ [call EXCEPT !.at = "status", !.port = 1].at = "status"
  BY DEF PadType, PadCall, Ports
<1> QED BY <1>1, <1>2 DEF Past

(* The call goes on with the other port, or ends.                          *)
LEMMA PastKeeps ==
  ASSUME PadInv, NoPoll, call.at # "out", call' = Past(call.port),
         word' \in [Ports -> SUBSET Bits], \A p \in Ports : word'[p] \subseteq seen[p],
         fresh' \in BOOLEAN, fresh' => fresh /\ word' = word,
         UNCHANGED <<plugged, poll, buffer, unpolled, answered, seen>>
  PROVE  PadInv'
<1>1. PadType /\ call.port \in Ports /\ ~unpolled
  BY DEF PadInv, PadType, PadCall, CallInv
<1>2. call' \in PadCall /\ (call' = Out \/ call'.at = "status")
  BY <1>1, PastGives
<1>3. Out.at = "out"
  BY DEF Out
<1> QED BY <1>1, <1>2, <1>3, LoadKeeps

LEMMA CallFacts ==
  ASSUME PadInv, NoPoll
  PROVE  /\ PadType /\ call \in PadCall /\ call.port \in Ports
         /\ buffer[call.port] \in Buffer
         /\ word \in [Ports -> SUBSET Bits] /\ \A p \in Ports : word[p] \subseteq seen[p]
         /\ call.at # "out" => ~unpolled
         /\ Checked => LoadsHeld(buffer[call.port], call.port)
         /\ Checked /\ call.polls = 0 => buffer[call.port].status = 0
         /\ fresh \in BOOLEAN
  BY DEF PadInv, PadType, PadCall, CallInv, PressedMeansPressed

LEMMA BeginKeeps == PadInv /\ readPadHighLevel => PadInv'
<1> SUFFICES ASSUME PadInv, readPadHighLevel PROVE PadInv'
  OBVIOUS
<1>1. call' \in PadCall /\ call'.at = "status"
  BY DEF readPadHighLevel, Out, PadCall, Ports
<1>2. word' \in [Ports -> SUBSET Bits] /\ \A p \in Ports : word'[p] \subseteq seen[p]
  BY DEF readPadHighLevel
<1> QED BY <1>1, <1>2, LoadKeeps DEF readPadHighLevel

LEMMA StatusKeeps == PadInv /\ LoadStatus => PadInv'
<1> SUFFICES ASSUME PadInv, LoadStatus PROVE PadInv'
  OBVIOUS
<1>1. NoPoll /\ call.at = "status"
      /\ UNCHANGED <<plugged, poll, buffer, word, unpolled, answered, seen, fresh>>
  BY DEF LoadStatus, history
<1>2. CASE buffer[call.port].status # 0
  <2>1. call' = Past(call.port)
    BY <1>2 DEF LoadStatus
  <2> QED BY <1>1, <2>1, CallFacts, PastKeeps
<1>3. CASE buffer[call.port].status = 0
  <2> DEFINE p == call.port
             r == answered[p]
  <2>1. call' = [call EXCEPT !.at = "id"]
    BY <1>3 DEF LoadStatus
  <2>2. call' \in PadCall /\ call'.at = "id" /\ call'.port = p /\ call'.polls = call.polls
    BY <1>1, <2>1, CallFacts DEF PadCall
  <2>3. HoldsReply(buffer[p], r) /\ r.held \subseteq seen[p] /\ r \in Reply /\ p \in Ports
    BY <1>1, <1>3, CallFacts DEF PadInv, PortsInv, Done, PadType
  <2>4. LoadsHeld(buffer[p], p)
    <3> SUFFICES ASSUME buffer[p].id \in Known, NEW i \in 2 .. 7, i < 2 + 2 * Count(buffer[p].id)
                 PROVE  buffer[p].data[i] \subseteq seen[p]
      BY DEF LoadsHeld
    <3>1. r.dev \in {"free", "flying"}
      BY <2>3 DEF HoldsReply, Whole, Devs, Id, Known
    <3>2. Byte(r, i) \subseteq r.held
      BY <2>3, <3>1, ReplyBytes DEF HoldsReply
    <3>3. buffer[p].data[i] = Byte(r, i)
      BY <2>3 DEF HoldsReply, HoldsUpTo
    <3> QED BY <2>3, <3>2, <3>3
  <2> QED BY <1>1, <1>3, <2>2, <2>4, CallFacts, LoadKeeps
<1> QED BY <1>2, <1>3

LEMMA IdKeeps == PadInv /\ LoadId => PadInv'
<1> SUFFICES ASSUME PadInv, LoadId PROVE PadInv'
  OBVIOUS
<1> DEFINE c == buffer[call.port].id
<1>1. NoPoll /\ call.at = "id" /\ Checked
      /\ UNCHANGED <<plugged, poll, buffer, word, unpolled, answered, seen, fresh>>
  BY DEF LoadId, history, Checked
<1>2. CASE c \notin Known
  <2>1. call' = Past(call.port)
    BY <1>2 DEF LoadId
  <2> QED BY <1>1, <2>1, CallFacts, PastKeeps
<1>3. CASE c \in Known
  <2>1. call' = [call EXCEPT !.at = "high", !.c = c]
    BY <1>3 DEF LoadId
  <2>2. c \in {0, 65, 35}
    BY <1>3 DEF Known
  <2>3. call' \in PadCall /\ call'.at = "high" /\ call'.port = call.port /\ call'.c = c
        /\ call'.polls = call.polls
    BY <1>1, <2>1, <2>2, CallFacts DEF PadCall
  <2> QED BY <1>1, <1>3, <2>3, CallFacts, LoadKeeps
<1> QED BY <1>2, <1>3

(* What the loads find.                                                    *)
LEMMA LoadedWereHeld ==
  ASSUME PadInv, NoPoll, call.at \in {"high", "low", "analogue", "last"},
         NEW i \in 2 .. 7, i \in {2, 3} \/ (i \in {5, 6} /\ call.c = 35)
  PROVE  /\ buffer[call.port].data[i] \subseteq seen[call.port]
         /\ buffer[call.port].data[i] \subseteq Bits
         /\ call.c \in Known /\ buffer[call.port].id = call.c
<1>1. Checked /\ call.c \in Known /\ buffer[call.port].id = call.c
  BY DEF Checked, PadInv, CallInv
<1>2. LoadsHeld(buffer[call.port], call.port) /\ buffer[call.port] \in Buffer
  BY <1>1, CallFacts
<1>3. i < 2 + 2 * Count(call.c)
  BY <1>1, KnownCounts DEF Known
<1> QED BY <1>1, <1>2, <1>3 DEF LoadsHeld, Buffer

LEMMA HighKeeps == PadInv /\ LoadHigh => PadInv'
<1> SUFFICES ASSUME PadInv, LoadHigh PROVE PadInv'
  OBVIOUS
<1> DEFINE o == buffer[call.port].data[2]
<1>1. NoPoll /\ call.at = "high" /\ Checked /\ call' = [call EXCEPT !.at = "low", !.o = o]
      /\ UNCHANGED <<plugged, poll, buffer, word, unpolled, answered, seen, fresh>>
  BY DEF LoadHigh, history, Checked
<1>2. o \subseteq seen[call.port] /\ o \subseteq Bits
      /\ call.c \in Known /\ buffer[call.port].id = call.c
  BY <1>1, LoadedWereHeld
<1> HIDE DEF o
<1>3. call' \in PadCall /\ call'.at = "low" /\ call'.port = call.port /\ call'.c = call.c
      /\ call'.o = o /\ call'.polls = call.polls
  BY <1>1, <1>2, CallFacts DEF PadCall
<1> QED BY <1>1, <1>2, <1>3, CallFacts, LoadKeeps

(* The word of a port takes what the loads found.                          *)
LEMMA WordTakes ==
  ASSUME PadInv, NoPoll, NEW o \in SUBSET Bits, o \subseteq seen[call.port],
         word' = [word EXCEPT ![call.port] = o]
  PROVE  word' \in [Ports -> SUBSET Bits] /\ \A p \in Ports : word'[p] \subseteq seen[p]
  BY CallFacts

LEMMA LowKeeps == PadInv /\ LoadLow => PadInv'
<1> SUFFICES ASSUME PadInv, LoadLow PROVE PadInv'
  OBVIOUS
<1> DEFINE o == call.o \cup buffer[call.port].data[3]
           shown == IF call.c = 35 THEN o \ Noise ELSE o
<1>1. NoPoll /\ call.at = "low" /\ Checked /\ fresh' = FALSE
      /\ word' = [word EXCEPT ![call.port] = shown]
      /\ UNCHANGED <<plugged, poll, buffer, unpolled, answered, seen>>
  BY DEF LoadLow, Checked
<1>2. buffer[call.port].data[3] \subseteq seen[call.port] /\ buffer[call.port].data[3] \subseteq Bits
      /\ call.c \in Known /\ buffer[call.port].id = call.c
  BY <1>1, LoadedWereHeld
<1>3. call.o \subseteq seen[call.port] /\ call.o \subseteq Bits
  BY <1>1, CallFacts DEF PadInv, CallInv, PadCall
<1>4. shown \in SUBSET Bits /\ shown \subseteq seen[call.port]
  BY <1>2, <1>3
<1> HIDE DEF shown
<1>5. word' \in [Ports -> SUBSET Bits] /\ \A p \in Ports : word'[p] \subseteq seen[p]
  BY <1>1, <1>4, WordTakes
<1>6. CASE call.c = 35
  <2>1. call' = [call EXCEPT !.at = "analogue"]
    BY <1>6 DEF LoadLow
  <2>2. call' \in PadCall /\ call'.at = "analogue" /\ call'.port = call.port
        /\ call'.c = call.c /\ call'.polls = call.polls
    BY <1>1, <2>1, CallFacts DEF PadCall
  <2> QED BY <1>1, <1>2, <1>5, <1>6, <2>2, CallFacts, LoadKeeps
<1>7. CASE call.c # 35
  <2>1. call' = Past(call.port)
    BY <1>7 DEF LoadLow
  <2> QED BY <1>1, <1>5, <2>1, PastKeeps
<1> QED BY <1>6, <1>7

LEMMA AnalogueKeeps ==
  ASSUME PadInv, NEW i \in {5, 6}, LoadAnalogue(i)
  PROVE  PadInv'
<1> DEFINE shown == word[call.port] \cup buffer[call.port].data[i]
<1>1. NoPoll /\ call.at \in {"analogue", "last"} /\ Checked /\ fresh' = FALSE
      /\ UNCHANGED <<plugged, poll, buffer, unpolled, answered, seen>>
  BY DEF LoadAnalogue, Checked
<1>2. call.c = 35
  BY <1>1 DEF PadInv, CallInv
<1>3. i \in 2 .. 7
  OBVIOUS
<1>4. buffer[call.port].data[i] \subseteq seen[call.port] /\ buffer[call.port].data[i] \subseteq Bits
      /\ call.c \in Known /\ buffer[call.port].id = call.c
  BY <1>1, <1>2, <1>3, LoadedWereHeld
<1>5. word[call.port] \subseteq seen[call.port] /\ word[call.port] \subseteq Bits
  BY <1>1, CallFacts
<1>6. word' = [word EXCEPT ![call.port] = shown]
  BY <1>1, CallFacts DEF LoadAnalogue
<1>7. shown \in SUBSET Bits /\ shown \subseteq seen[call.port]
  BY <1>4, <1>5
<1> HIDE DEF shown
<1>8. word' \in [Ports -> SUBSET Bits] /\ \A p \in Ports : word'[p] \subseteq seen[p]
  BY <1>1, <1>6, <1>7, WordTakes
<1>9. CASE i = 5
  <2>1. call' = [call EXCEPT !.at = "last"]
    BY <1>9 DEF LoadAnalogue
  <2>2. call' \in PadCall /\ call'.at = "last" /\ call'.port = call.port
        /\ call'.c = call.c /\ call'.polls = call.polls
    BY <1>1, <2>1, CallFacts DEF PadCall
  <2> QED BY <1>1, <1>2, <1>4, <1>8, <2>2, CallFacts, LoadKeeps
<1>10. CASE i = 6
  <2>1. call' = Past(call.port)
    BY <1>10 DEF LoadAnalogue
  <2> QED BY <1>1, <1>8, <2>1, PastKeeps
<1> QED BY <1>9, <1>10

LEMMA InitPadKeeps == PadInv /\ initPadHighLevel => PadInv'
<1> SUFFICES ASSUME PadInv, initPadHighLevel PROVE PadInv'
  OBVIOUS
<1>1. PadType /\ NoPoll /\ call.at = "out" /\ call = Out
  BY DEF PadInv, initPadHighLevel, CallInv
<1>2. Zeroed \in Buffer /\ NoReply \in Reply
  BY DEF Zeroed, Buffer, Bits, High, NoReply, Reply
<1>3. PadType'
  BY <1>1, <1>2 DEF initPadHighLevel, PadType
<1>4. PollInv'
  BY <1>1 DEF initPadHighLevel, PadInv, PollInv, NoPoll, Idle
<1>5. PortsInv'
  BY DEF initPadHighLevel, PortsInv, Done
<1>6. CallInv'
  BY <1>1 DEF initPadHighLevel, CallInv, Checked
<1>7. FreshWord' /\ PressedMeansPressed'
  BY <1>1 DEF initPadHighLevel, FreshWord, PressedMeansPressed, PadInv, NoPoll
<1> QED BY <1>3, <1>4, <1>5, <1>6, <1>7 DEF PadInv

(* Devices go and come between polls.                                      *)
LEMMA PlugKeeps ==
  ASSUME PadInv, NEW p \in Ports, NEW dev \in Devices(p), Unplug(p) \/ Plug(p, dev)
  PROVE  PadInv'
<1>1. PadType /\ NoPoll /\ UNCHANGED <<poll, buffer, word, call, unpolled, answered, seen, fresh>>
  BY DEF PadInv, Unplug, Plug, history
<1>2. dev \in Devs
  BY DevicesAssumption DEF DevicesAssumption, Devices, Devs
<1>3. /\ plugged' \in [Ports -> Devs \cup {"none"}]
      /\ \A q \in Ports : plugged'[q] \in Devices(q) \cup {"none"}
      /\ \A q \in Ports : plugged'[q] # plugged[q] =>
           plugged'[q] = "none" \/ unpolled \/ buffer[q].status = 255
  BY <1>1, <1>2 DEF PadType, Unplug, Plug
<1>4. PadType'
  BY <1>1, <1>3 DEF PadType
<1>5. PollInv'
  BY <1>1 DEF PadInv, PollInv, NoPoll, Idle, HoldsUpTo
<1>6. PortsInv'
  BY <1>1, <1>3 DEF PadInv, PortsInv, Done, NoPoll, HoldsReply, HoldsUpTo
<1>7. CallInv'
  BY <1>1 DEF PadInv, CallInv, Checked, NoPoll, LoadsHeld
<1>8. FreshWord' /\ PressedMeansPressed'
  BY <1>1 DEF PadInv, FreshWord, PressedMeansPressed, NoPoll
<1> QED BY <1>4, <1>5, <1>6, <1>7, <1>8 DEF PadInv

LEMMA UnplugKeeps ==
  ASSUME PadInv, NEW p \in Ports, Unplug(p)
  PROVE  PadInv'
<1>1. PadType /\ plugged[p] \in Devices(p)
  BY DEF PadInv, PadType, Unplug
<1> QED BY <1>1, PlugKeeps

LEMMA PadStutters == PadInv /\ UNCHANGED padVars => PadInv'
<1> SUFFICES ASSUME PadInv, UNCHANGED padVars PROVE PadInv'
  OBVIOUS
<1> USE DEF padVars
<1>1. PadType'
  BY DEF PadInv, PadType
<1>2. PollInv'
  BY DEF PadInv, PollInv, NoPoll, HoldsUpTo
<1>3. PortsInv'
  BY DEF PadInv, PortsInv, Done, NoPoll, HoldsReply, HoldsUpTo
<1>4. CallInv'
  BY DEF PadInv, CallInv, Checked, NoPoll, LoadsHeld
<1>5. FreshWord' /\ PressedMeansPressed'
  BY DEF PadInv, FreshWord, PressedMeansPressed, NoPoll
<1> QED BY <1>1, <1>2, <1>3, <1>4, <1>5 DEF PadInv

LEMMA PadInvShows == PadInv => PadsAreShown
<1> SUFFICES ASSUME PadInv PROVE PadsAreShown
  OBVIOUS
<1>1. PadType
  BY DEF PadInv
<1>2. PadTypeOK
  BY <1>1 DEF PadType, PadTypeOK, Poll, Buffer, PadCall
<1>3. FitsBuffer
  <2> SUFFICES ASSUME poll.step \in {"even", "odd"} PROVE 2 + 2 * (poll.read + poll.left) =< Size
    BY DEF FitsBuffer
  <2>1. /\ poll.read + poll.left = Count(buffer[poll.port].id)
        /\ buffer[poll.port].id = Id(poll.reply.dev) /\ poll.reply.dev \in Devs
    BY DEF PadInv, PollInv, Whole
  <2>2. Count(buffer[poll.port].id) \in 1 .. 16
    BY <2>1, Counts
  <2> QED BY <2>1, <2>2 DEF Size
<1>4. ZeroMeansWhole
  BY <1>1 DEF PadInv, PortsInv, Done, HoldsReply, HoldsUpTo, Whole, Devs, ZeroMeansWhole
<1> QED BY <1>2, <1>3, <1>4 DEF PadInv, PadsAreShown

(* The pads: the poll fits its buffer, a buffer whose status is 0 has the  *)
(* whole of the last reply, and the program's word shows what was held,    *)
(* even when the vertical blank comes between two loads of its own         *)
(* readPadHighLevel (sio0/driver.c, sio0/pad.c).                           *)
THEOREM ButtonsAreHeld == PadSpec => []PadsAreShown
<1>1. PadInit => PadInv
  BY StartsRight
<1>2. PadInv /\ [PadNext]_padVars => PadInv'
  BY VBlankKeeps, SilentKeeps, AddressKeeps, ReadIdKeeps, ReadyKeeps, ReadEvenKeeps,
     ReadOddKeeps, BeginKeeps, StatusKeeps, IdKeeps, HighKeeps, LowKeeps, AnalogueKeeps,
     InitPadKeeps, UnplugKeeps, PlugKeeps, PadStutters DEF PadNext
<1>3. PadInv => PadsAreShown
  BY PadInvShows
<1> QED BY <1>1, <1>2, <1>3, PTL DEF PadSpec

-----------------------------------------------------------------------------

(* Least is the one that is in the set and not above any. *)
LEMMA LeastIs ==
  ASSUME NEW S, S \subseteq Nat, NEW x \in S, \A y \in S : x =< y
  PROVE  Least(S) = x
<1> DEFINE m == CHOOSE i \in S : \A j \in S : i =< j
<1>1. m \in S /\ \A j \in S : m =< j
  OBVIOUS
<1>2. m =< x /\ x =< m /\ m \in Nat /\ x \in Nat
  BY <1>1
<1>3. Least(S) = m
  BY DEF Least
<1> HIDE DEF m
<1> QED BY <1>2, <1>3

(* A set of naturals has its Least in it.                                  *)
LEMMA LeastIsIn ==
  ASSUME NEW S, S \subseteq Nat, S # {}
  PROVE  Least(S) \in S /\ \A y \in S : Least(S) =< y
<1>1. PICK x \in S : \A y \in S : x =< y
  BY LeastExists
<1> QED BY <1>1, LeastIs

(* What holds at 0 and is kept by each step up to n holds up to n. *)
LEMMA UpwardsTo ==
  ASSUME NEW n \in Nat, NEW T, 0 \in T, \A k \in 1 .. n : k - 1 \in T => k \in T
  PROVE  \A k \in 0 .. n : k \in T
<1> DEFINE Bad == (0 .. n) \ T
<1> SUFFICES ASSUME Bad # {} PROVE FALSE
  OBVIOUS
<1>1. PICK k \in Bad : \A j \in Bad : k =< j
  <2>1. Bad \subseteq Nat
    OBVIOUS
  <2> HIDE DEF Bad
  <2> QED BY <2>1, LeastExists
<1>2. k \in 1 .. n /\ k - 1 \in 0 .. n /\ ~(k =< k - 1)
  BY <1>1
<1>3. k - 1 \in T
  BY <1>1, <1>2
<1> QED BY <1>1, <1>2, <1>3

(* A function may be defined by what each of its values makes of the last.  *)
Iterated(f, A, a, g, n) ==
  f \in [0 .. n -> A] /\ f[0] = a /\ \A k \in 1 .. n : f[k] = g[k - 1][f[k - 1]]

(* There is such a function, whatever its steps are.                       *)
LEMMA Iterates ==
  ASSUME NEW A, NEW a \in A, NEW g \in [Nat -> [A -> A]], NEW n \in Nat
  PROVE  \E f : Iterated(f, A, a, g, n)
<1> DEFINE Good(k, f) == f \in [0 .. k -> A] /\ f[0] = a /\ \A i \in 1 .. k : f[i] = g[i - 1][f[i - 1]]
           T == {k \in Nat : \E f : Good(k, f)}
<1>1. 0 \in T
  <2> DEFINE f == [i \in 0 .. 0 |-> a]
  <2>1. Good(0, f)
    OBVIOUS
  <2> QED BY <2>1
<1>2. ASSUME NEW k \in 1 .. n, k - 1 \in T PROVE k \in T
  <2>1. PICK f : Good(k - 1, f)
    BY <1>2
  <2>2. k \in Nat /\ k - 1 \in Nat /\ k # 0
    OBVIOUS
  <2> DEFINE h == [i \in 0 .. k |-> IF i = k THEN g[k - 1][f[k - 1]] ELSE f[i]]
  <2>3. g[k - 1][f[k - 1]] \in A
    BY <2>1, <2>2
  <2>4. h \in [0 .. k -> A] /\ h[0] = a
    BY <2>1, <2>2, <2>3
  <2>5. ASSUME NEW i \in 1 .. k PROVE h[i] = g[i - 1][h[i - 1]]
    <3>1. i - 1 \in 0 .. k /\ i - 1 # k /\ (i # k => i \in 1 .. k - 1)
      BY <2>2
    <3>2. h[i - 1] = f[i - 1]
      BY <3>1
    <3>3. CASE i = k
      BY <2>2, <3>2, <3>3
    <3>4. CASE i # k
      BY <2>1, <2>2, <3>1, <3>2, <3>4
    <3> QED BY <3>3, <3>4
  <2>6. Good(k, h)
    <3> HIDE DEF h
    <3> QED BY <2>4, <2>5
  <2> HIDE DEF Good
  <2> QED BY <2>2, <2>6
<1>3. n \in T
  <2> HIDE DEF T
  <2>1. \A k \in 1 .. n : k - 1 \in T => k \in T
    BY <1>2
  <2>2. \A k \in 0 .. n : k \in T
    BY <1>1, <2>1, UpwardsTo
  <2>3. n \in 0 .. n
    OBVIOUS
  <2> QED BY <2>2, <2>3
<1> QED BY <1>3 DEF Iterated

-----------------------------------------------------------------------------
(* Digits have values, and are no blanks, names or ends.                   *)
LEMMA DigitsAre ==
  /\ HexValue \in [Digits -> Nat]
  /\ \A d \in Digits : d \notin Blanks \cup {"NUL", "=", "other"} \cup ItemNames
<1>1. \A d \in Digits : \E n \in 1 .. 16 : d \in Spelled[n]
  BY DEF Digits
<1>2. ASSUME NEW d \in Digits PROVE (CHOOSE n \in 1 .. 16 : d \in Spelled[n]) - 1 \in Nat
  <2> DEFINE m == CHOOSE n \in 1 .. 16 : d \in Spelled[n]
  <2>1. m \in 1 .. 16
    BY <1>1
  <2> HIDE DEF m
  <2>2. m - 1 \in Nat
    BY <2>1
  <2> QED BY <2>2 DEF m
<1>3. HexValue \in [Digits -> Nat]
  BY <1>2 DEF HexValue
<1>4. ASSUME NEW n \in 1 .. 16, NEW d \in Spelled[n]
      PROVE  d \notin Blanks \cup {"NUL", "=", "other"} \cup ItemNames
  <2>1. n \in {1, 2, 3, 4, 5, 6, 7, 8} \/ n \in {9, 10, 11, 12, 13, 14, 15, 16}
    OBVIOUS
  <2>2. CASE n \in {1, 2, 3, 4, 5, 6, 7, 8}
    BY <2>2 DEF Spelled, Blanks, LineEnds, ItemNames
  <2>3. CASE n \in {9, 10, 11, 12, 13, 14, 15, 16}
    BY <2>3 DEF Spelled, Blanks, LineEnds, ItemNames
  <2> QED BY <2>1, <2>2, <2>3
<1> QED BY <1>1, <1>3, <1>4

(* Number as a sequence of its digits' values, one after the other.        *)
LEMMA NumberUnfolds ==
  ASSUME NEW s \in Seq(Digits)
  PROVE  \E f \in [0 .. Len(s) -> Nat] :
           /\ f[0] = 0 /\ Number(s) = f[Len(s)]
           /\ \A k \in 1 .. Len(s) : f[k] = (f[k - 1] * 16 + HexValue[s[k]]) % WordSize
<1> DEFINE n == Len(s)
           V(k, v) == (v * 16 + HexValue[s[k]]) % WordSize
           F(f) == [k \in 0 .. n |-> IF k = 0 THEN 0 ELSE V(k, f[k - 1])]
           g == [i \in Nat |-> [v \in Nat |-> IF i + 1 \in 1 .. n THEN V(i + 1, v) ELSE 0]]
<1>1. n \in Nat /\ WordSize \in Nat \ {0}
  BY CnfAssumption
<1>2. \A k \in 1 .. n, v \in Nat : V(k, v) \in Nat
  <2> SUFFICES ASSUME NEW k \in 1 .. n, NEW v \in Nat PROVE V(k, v) \in Nat
    OBVIOUS
  <2>1. HexValue[s[k]] \in Nat
    BY DigitsAre
  <2> QED BY <1>1, <2>1
<1> HIDE DEF V, n
<1>3. g \in [Nat -> [Nat -> Nat]]
  BY <1>2
<1>4. \A k \in 1 .. n, v \in Nat : g[k - 1][v] = V(k, v)
  <2> SUFFICES ASSUME NEW k \in 1 .. n, NEW v \in Nat PROVE g[k - 1][v] = V(k, v)
    OBVIOUS
  <2>1. k - 1 \in Nat /\ (k - 1) + 1 = k
    BY <1>1
  <2> QED BY <2>1
<1> HIDE DEF g
<1>5. PICK h \in [0 .. n -> Nat] : h[0] = 0 /\ \A k \in 1 .. n : h[k] = g[k - 1][h[k - 1]]
  <2> DEFINE A == Nat
  <2>1. 0 \in A /\ g \in [Nat -> [A -> A]]
    BY <1>3
  <2> HIDE DEF A
  <2>2. PICK h : Iterated(h, A, 0, g, n)
    BY <1>1, <2>1, Iterates
  <2> QED BY <2>2 DEF Iterated, A
<1>6. \A k \in 1 .. n : h[k] = V(k, h[k - 1])
  <2> SUFFICES ASSUME NEW k \in 1 .. n PROVE h[k] = V(k, h[k - 1])
    OBVIOUS
  <2>1. k - 1 \in 0 .. n
    BY <1>1
  <2> QED BY <1>4, <1>5, <2>1
<1>7. h = F(h)
  <2>1. \A k \in 0 .. n : h[k] = IF k = 0 THEN 0 ELSE V(k, h[k - 1])
    BY <1>1, <1>5, <1>6
  <2>2. h = [k \in 0 .. n |-> h[k]]
    OBVIOUS
  <2> QED BY <2>1, <2>2
<1> DEFINE f == CHOOSE x : x = F(x)
<1>8. f = F(f)
  <2> HIDE DEF F
  <2> QED BY <1>7
<1>9. Number(s) = f[n]
  BY DEF Number, V, n
<1> HIDE DEF f
<1>10. DOMAIN f = 0 .. n /\ f[0] = 0 /\ \A k \in 1 .. n : f[k] = V(k, f[k - 1])
  BY <1>1, <1>8
<1>11. \A k \in 0 .. n : f[k] \in Nat
  <2> DEFINE T == {k \in 0 .. n : f[k] \in Nat}
  <2>1. 0 \in T
    BY <1>1, <1>10
  <2>2. \A k \in 1 .. n : k - 1 \in T => k \in T
    BY <1>1, <1>2, <1>10
  <2> HIDE DEF T
  <2>3. \A k \in 0 .. n : k \in T
    BY <1>1, <2>1, <2>2, UpwardsTo
  <2> QED BY <2>3 DEF T
<1>12. f \in [0 .. n -> Nat]
  <2>1. f = [k \in 0 .. n |-> f[k]]
    BY <1>8
  <2> QED BY <1>11, <2>1
<1> QED BY <1>9, <1>10, <1>12 DEF V, n

(* The powers that Sum weighs the digits with.                             *)
LEMMA PowerUnfolds ==
  ASSUME NEW m \in Nat
  PROVE  LET p == CHOOSE x : x = [k \in 0 .. m |-> IF k = 0 THEN 1 ELSE 16 * x[k - 1]]
         IN  p \in [0 .. m -> Nat] /\ p[0] = 1 /\ \A k \in 1 .. m : p[k] = 16 * p[k - 1]
<1> DEFINE n == m
           V(k, v) == 16 * v
           F(f) == [k \in 0 .. n |-> IF k = 0 THEN 1 ELSE V(k, f[k - 1])]
           g == [i \in Nat |-> [v \in Nat |-> IF i + 1 \in 1 .. n THEN V(i + 1, v) ELSE 1]]
<1>1. n \in Nat /\ 1 \in Nat
  OBVIOUS
<1>2. \A k \in 1 .. n, v \in Nat : V(k, v) \in Nat
  OBVIOUS
<1> HIDE DEF V, n
<1>3. g \in [Nat -> [Nat -> Nat]]
  BY <1>1, <1>2
<1>4. \A k \in 1 .. n, v \in Nat : g[k - 1][v] = V(k, v)
  <2> SUFFICES ASSUME NEW k \in 1 .. n, NEW v \in Nat PROVE g[k - 1][v] = V(k, v)
    OBVIOUS
  <2>1. k - 1 \in Nat /\ (k - 1) + 1 = k
    BY <1>1
  <2> QED BY <2>1
<1> HIDE DEF g
<1>5. PICK h \in [0 .. n -> Nat] : h[0] = 1 /\ \A k \in 1 .. n : h[k] = g[k - 1][h[k - 1]]
  <2> DEFINE A == Nat
  <2>1. 1 \in A /\ g \in [Nat -> [A -> A]]
    BY <1>1, <1>3
  <2> HIDE DEF A
  <2>2. PICK h : Iterated(h, A, 1, g, n)
    BY <1>1, <2>1, Iterates
  <2> QED BY <2>2 DEF Iterated, A
<1>6. \A k \in 1 .. n : h[k] = V(k, h[k - 1])
  <2> SUFFICES ASSUME NEW k \in 1 .. n PROVE h[k] = V(k, h[k - 1])
    OBVIOUS
  <2>1. k - 1 \in 0 .. n
    BY <1>1
  <2> QED BY <1>4, <1>5, <2>1
<1>7. h = F(h)
  <2>1. \A k \in 0 .. n : h[k] = IF k = 0 THEN 1 ELSE V(k, h[k - 1])
    BY <1>1, <1>5, <1>6
  <2>2. h = [k \in 0 .. n |-> h[k]]
    OBVIOUS
  <2> QED BY <2>1, <2>2
<1> DEFINE f == CHOOSE x : x = F(x)
<1>8. f = F(f)
  <2> HIDE DEF F
  <2> QED BY <1>7
<1>9. f = CHOOSE x : x = [k \in 0 .. m |-> IF k = 0 THEN 1 ELSE 16 * x[k - 1]]
  BY DEF V, n
<1> HIDE DEF f
<1>10. DOMAIN f = 0 .. n /\ f[0] = 1 /\ \A k \in 1 .. n : f[k] = V(k, f[k - 1])
  BY <1>1, <1>8
<1>11. \A k \in 0 .. n : f[k] \in Nat
  <2> DEFINE T == {k \in 0 .. n : f[k] \in Nat}
  <2>1. 0 \in T
    <3>1. 0 \in 0 .. n
      BY <1>1
    <3>2. f[0] \in Nat
      BY <1>1, <1>10
    <3> HIDE DEF f
    <3> QED BY <3>1, <3>2
  <2>2. \A k \in 1 .. n : k - 1 \in T => k \in T
    BY <1>1, <1>2, <1>10
  <2> HIDE DEF T
  <2>3. \A k \in 0 .. n : k \in T
    BY <1>1, <2>1, <2>2, UpwardsTo
  <2> QED BY <2>3 DEF T
<1>12. f \in [0 .. n -> Nat]
  <2>1. f = [k \in 0 .. n |-> f[k]]
    BY <1>8
  <2> QED BY <1>11, <2>1
<1> QED BY <1>9, <1>10, <1>12 DEF V, n

(* Sum as a sequence of sums, its powers beside it.                        *)
LEMMA SumUnfolds ==
  ASSUME NEW s \in Seq(Digits)
  PROVE  \E p \in [0 .. Len(s) -> Nat], u \in [0 .. Len(s) -> Nat] :
           /\ p[0] = 1 /\ \A k \in 1 .. Len(s) : p[k] = 16 * p[k - 1]
           /\ u[0] = 0 /\ Sum(s) = u[Len(s)]
           /\ \A k \in 1 .. Len(s) : u[k] = u[k - 1] + HexValue[s[k]] * p[Len(s) - k]
<1> DEFINE n == Len(s)
           p == CHOOSE x : x = [k \in 0 .. n |-> IF k = 0 THEN 1 ELSE 16 * x[k - 1]]
           V(k, v) == v + HexValue[s[k]] * p[n - k]
           F(f) == [k \in 0 .. n |-> IF k = 0 THEN 0 ELSE V(k, f[k - 1])]
           g == [i \in Nat |-> [v \in Nat |-> IF i + 1 \in 1 .. n THEN V(i + 1, v) ELSE 0]]
<1>1. n \in Nat /\ 0 \in Nat
  OBVIOUS
<1>20. p \in [0 .. n -> Nat] /\ p[0] = 1 /\ \A k \in 1 .. n : p[k] = 16 * p[k - 1]
  <2> HIDE DEF n
  <2> QED BY <1>1, PowerUnfolds
<1> HIDE DEF p
<1>2. \A k \in 1 .. n, v \in Nat : V(k, v) \in Nat
  <2> SUFFICES ASSUME NEW k \in 1 .. n, NEW v \in Nat PROVE V(k, v) \in Nat
    OBVIOUS
  <2>1. HexValue[s[k]] \in Nat
    BY DigitsAre
  <2>2. n - k \in 0 .. n
    BY <1>1
  <2>3. p[n - k] \in Nat
    BY <1>20, <2>2
  <2> QED BY <2>1, <2>3
<1> HIDE DEF V, n
<1>3. g \in [Nat -> [Nat -> Nat]]
  BY <1>1, <1>2
<1>4. \A k \in 1 .. n, v \in Nat : g[k - 1][v] = V(k, v)
  <2> SUFFICES ASSUME NEW k \in 1 .. n, NEW v \in Nat PROVE g[k - 1][v] = V(k, v)
    OBVIOUS
  <2>1. k - 1 \in Nat /\ (k - 1) + 1 = k
    BY <1>1
  <2> QED BY <2>1
<1> HIDE DEF g
<1>5. PICK h \in [0 .. n -> Nat] : h[0] = 0 /\ \A k \in 1 .. n : h[k] = g[k - 1][h[k - 1]]
  <2> DEFINE A == Nat
  <2>1. 0 \in A /\ g \in [Nat -> [A -> A]]
    BY <1>1, <1>3
  <2> HIDE DEF A
  <2>2. PICK h : Iterated(h, A, 0, g, n)
    BY <1>1, <2>1, Iterates
  <2> QED BY <2>2 DEF Iterated, A
<1>6. \A k \in 1 .. n : h[k] = V(k, h[k - 1])
  <2> SUFFICES ASSUME NEW k \in 1 .. n PROVE h[k] = V(k, h[k - 1])
    OBVIOUS
  <2>1. k - 1 \in 0 .. n
    BY <1>1
  <2> QED BY <1>4, <1>5, <2>1
<1>7. h = F(h)
  <2>1. \A k \in 0 .. n : h[k] = IF k = 0 THEN 0 ELSE V(k, h[k - 1])
    BY <1>1, <1>5, <1>6
  <2>2. h = [k \in 0 .. n |-> h[k]]
    OBVIOUS
  <2> QED BY <2>1, <2>2
<1> DEFINE f == CHOOSE x : x = F(x)
<1>8. f = F(f)
  <2> HIDE DEF F
  <2> QED BY <1>7
<1>9. Sum(s) = f[n]
  BY DEF Sum, V, n, p
<1> HIDE DEF f
<1>10. DOMAIN f = 0 .. n /\ f[0] = 0 /\ \A k \in 1 .. n : f[k] = V(k, f[k - 1])
  BY <1>1, <1>8
<1>11. \A k \in 0 .. n : f[k] \in Nat
  <2> DEFINE T == {k \in 0 .. n : f[k] \in Nat}
  <2>1. 0 \in T
    <3>1. 0 \in 0 .. n
      BY <1>1
    <3>2. f[0] \in Nat
      BY <1>1, <1>10
    <3> HIDE DEF f
    <3> QED BY <3>1, <3>2
  <2>2. \A k \in 1 .. n : k - 1 \in T => k \in T
    BY <1>1, <1>2, <1>10
  <2> HIDE DEF T
  <2>3. \A k \in 0 .. n : k \in T
    BY <1>1, <2>1, <2>2, UpwardsTo
  <2> QED BY <2>3 DEF T
<1>12. f \in [0 .. n -> Nat]
  <2>1. f = [k \in 0 .. n |-> f[k]]
    BY <1>8
  <2> QED BY <1>11, <2>1
<1>13. \A k \in 1 .. n : f[k] = f[k - 1] + HexValue[s[k]] * p[n - k]
  BY <1>10 DEF V
<1> QED BY <1>9, <1>10, <1>12, <1>13, <1>20 DEF n

(* What is below M is its own remainder, with any multiple of M added.     *)
LEMMA Remains ==
  ASSUME NEW M \in Nat \ {0}, NEW q \in Nat, NEW y \in 0 .. M - 1
  PROVE  (q * M + y) % M = y
<1> DEFINE z == q * M + y
<1>1. z \in Nat /\ z = M * (z \div M) + (z % M) /\ z % M \in 0 .. M - 1 /\ z \div M \in Nat
  OBVIOUS
<1> DEFINE r == z % M
           t == z \div M
<1>2. q * M + y = t * M + r /\ r \in 0 .. M - 1 /\ t \in Nat
  BY <1>1
<1> HIDE DEF r, t, z
<1>3. q = t
  <2>1. (q - t) * M = r - y
    BY <1>2
  <2>2. q - t >= 1 => (q - t) * M >= M
    BY <1>2
  <2>3. t - q >= 1 => (t - q) * M >= M
    BY <1>2
  <2>4. (t - q) * M = y - r
    BY <1>2
  <2> QED BY <1>2, <2>1, <2>2, <2>3, <2>4
<1> QED BY <1>2, <1>3 DEF r, z

(* The row's number, cut to a word at each digit, is that of its digits.     *)
(* A digit more: what the word that keeps only a remainder makes of it.     *)
Shifted(M, P, d, v, q) ==
  \E r \in Nat : (q * M + v) * (16 * P) + d * P = (r * M + ((v * 16 + d) % M)) * P

LEMMA Shifts ==
  ASSUME NEW M \in Nat \ {0}, NEW P \in Nat, NEW d \in Nat, NEW v \in Nat, NEW q \in Nat
  PROVE  Shifted(M, P, d, v, q)
<1> DEFINE y == v * 16 + d
<1>1. y \in Nat
  OBVIOUS
<1>2. PICK t \in Nat : y = t * M + (y % M)
  <2> HIDE DEF y
  <2>1. y = M * (y \div M) + (y % M) /\ y \div M \in Nat
    BY <1>1
  <2>2. M * (y \div M) = (y \div M) * M
    BY <2>1
  <2> QED BY <2>1, <2>2
<1>3. y % M \in Nat
  BY <1>1
<1> DEFINE w == y % M
<1>4. (q * M + v) * (16 * P) + d * P = (q * M * 16 + y) * P
  OBVIOUS
<1> HIDE DEF y
<1>5. y = t * M + w
  BY <1>2
<1>6. w \in Nat
  BY <1>3
<1> HIDE DEF w
<1>7. q * M * 16 + y = (16 * q + t) * M + w
  BY <1>5, <1>6
<1>8. 16 * q + t \in Nat
  OBVIOUS
<1>9. (q * M + v) * (16 * P) + d * P = ((16 * q + t) * M + ((v * 16 + d) % M)) * P
  BY <1>4, <1>7 DEF w, y
<1> QED BY <1>8, <1>9 DEF Shifted

(* What is read digit by digit is what the digits are worth, as far as a   *)
(* word holds it (findWordItem in openbios/main/main.c).                   *)
LEMMA NumberIsSum ==
  ASSUME NEW s \in Seq(Digits)
  PROVE  Number(s) = Sum(s) % WordSize /\ Number(s) \in 0 .. WordSize - 1
<1> DEFINE n == Len(s)
           M == WordSize
<1>1. n \in Nat /\ M \in Nat \ {0}
  BY CnfAssumption
<1>2. PICK f \in [0 .. n -> Nat] :
        /\ f[0] = 0 /\ Number(s) = f[n]
        /\ \A k \in 1 .. n : f[k] = (f[k - 1] * 16 + HexValue[s[k]]) % M
  BY NumberUnfolds
<1>3. PICK p \in [0 .. n -> Nat], u \in [0 .. n -> Nat] :
        /\ p[0] = 1 /\ \A k \in 1 .. n : p[k] = 16 * p[k - 1]
        /\ u[0] = 0 /\ Sum(s) = u[n]
        /\ \A k \in 1 .. n : u[k] = u[k - 1] + HexValue[s[k]] * p[n - k]
  BY SumUnfolds
<1>4. \A k \in 1 .. n : HexValue[s[k]] \in Nat
  BY DigitsAre
<1> HIDE DEF n, M
<1> DEFINE T == {k \in 0 .. n : \E q \in Nat : u[k] = (q * M + f[k]) * p[n - k]}
<1>5. 0 \in T
  <2>1. n - 0 = n /\ p[n] \in Nat /\ 0 \in 0 .. n
    BY <1>1
  <2>2. u[0] = (0 * M + f[0]) * p[n - 0]
    BY <1>1, <1>2, <1>3, <2>1
  <2> QED BY <2>1, <2>2
<1>6. ASSUME NEW k \in 1 .. n, k - 1 \in T PROVE k \in T
  <2>1. k - 1 \in 0 .. n /\ k \in 0 .. n /\ n - k \in 0 .. n /\ n - (k - 1) \in 1 .. n
        /\ (n - (k - 1)) - 1 = n - k
    BY <1>1
  <2>2. PICK q \in Nat : u[k - 1] = (q * M + f[k - 1]) * p[n - (k - 1)]
    BY <1>6
  <2>3. p[n - (k - 1)] = 16 * p[n - k]
    BY <1>3, <2>1
  <2> DEFINE P == p[n - k]
             d == HexValue[s[k]]
             v == f[k - 1]
  <2>4. P \in Nat /\ d \in Nat /\ v \in Nat
    BY <1>2, <1>3, <1>4, <2>1
  <2>5. u[k] = (q * M + v) * (16 * P) + d * P
    BY <1>3, <2>2, <2>3
  <2>6. f[k] = (v * 16 + d) % M
    BY <1>2
  <2> HIDE DEF P, d, v
  <2>7. \E r \in Nat : u[k] = (r * M + ((v * 16 + d) % M)) * P
    <3>1. M \in Nat \ {0} /\ q \in Nat
      BY <1>1, <2>2
    <3>2. Shifted(M, P, d, v, q)
      BY <2>4, <3>1, Shifts
    <3>3. PICK r \in Nat : (q * M + v) * (16 * P) + d * P = (r * M + ((v * 16 + d) % M)) * P
      BY <3>2 DEF Shifted
    <3> QED BY <2>5, <3>3
  <2> QED BY <2>1, <2>6, <2>7 DEF P
<1>7. n \in T
  <2> HIDE DEF T
  <2>1. n \in 0 .. n
    BY <1>1
  <2>2. \A k \in 1 .. n : k - 1 \in T => k \in T
    BY <1>6
  <2> QED BY <1>1, <1>5, <2>1, <2>2, UpwardsTo
<1>8. PICK q \in Nat : u[n] = (q * M + f[n]) * p[n - n]
  BY <1>7
<1>9. n - n = 0 /\ f[n] \in Nat
  BY <1>1
<1>10. u[n] = q * M + f[n]
  BY <1>1, <1>3, <1>8, <1>9
<1>11. f[n] \in 0 .. M - 1
  <2>1. CASE n = 0
    BY <1>1, <1>2, <2>1
  <2>2. CASE n # 0
    <3>1. n \in 1 .. n /\ n - 1 \in 0 .. n
      BY <1>1, <2>2
    <3> DEFINE y == f[n - 1] * 16 + HexValue[s[n]]
    <3>2. f[n] = y % M
      BY <1>2, <3>1
    <3>3. f[n - 1] \in Nat /\ HexValue[s[n]] \in Nat
      BY <1>2, <1>4, <3>1
    <3>4. y \in Nat
      BY <3>3
    <3> HIDE DEF y
    <3> QED BY <1>1, <3>2, <3>4
  <2> QED BY <2>1, <2>2
<1>12. \A y \in 0 .. M - 1 : (q * M + y) % M = y
  BY <1>1, Remains
<1> QED BY <1>2, <1>3, <1>10, <1>11, <1>12 DEF M

Char == Shown \cup LineEnds
PieceOf(file, i) == LineText(file.lines[i]) \o EndOfLine(file, i)

(* The text line by line.                                                  *)
LEMMA TextUnfolds ==
  ASSUME NEW file, NEW m \in Nat, m = Len(file.lines),
         \A i \in 1 .. m : PieceOf(file, i) \in Seq(Char)
  PROVE  \E u \in [0 .. m -> Seq(Char)] :
           u[0] = <<>> /\ Text(file) = u[m] /\ \A k \in 1 .. m : u[k] = u[k - 1] \o PieceOf(file, k)
<1> DEFINE n == m
           V(k, v) == v \o PieceOf(file, k)
           F(f) == [k \in 0 .. n |-> IF k = 0 THEN <<>> ELSE V(k, f[k - 1])]
           g == [i \in Nat |-> [v \in Seq(Char) |-> IF i + 1 \in 1 .. n THEN V(i + 1, v) ELSE <<>>]]
<1>1. n \in Nat /\ <<>> \in Seq(Char)
  OBVIOUS
<1>2. \A k \in 1 .. n, v \in Seq(Char) : V(k, v) \in Seq(Char)
  BY ConcatProperties
<1> HIDE DEF V, n
<1>3. g \in [Nat -> [Seq(Char) -> Seq(Char)]]
  BY <1>1, <1>2
<1>4. \A k \in 1 .. n, v \in Seq(Char) : g[k - 1][v] = V(k, v)
  <2> SUFFICES ASSUME NEW k \in 1 .. n, NEW v \in Seq(Char) PROVE g[k - 1][v] = V(k, v)
    OBVIOUS
  <2>1. k - 1 \in Nat /\ (k - 1) + 1 = k
    BY <1>1
  <2> QED BY <2>1
<1> HIDE DEF g
<1>5. PICK h \in [0 .. n -> Seq(Char)] : h[0] = <<>> /\ \A k \in 1 .. n : h[k] = g[k - 1][h[k - 1]]
  <2> DEFINE A == Seq(Char)
  <2>1. <<>> \in A /\ g \in [Nat -> [A -> A]]
    BY <1>1, <1>3
  <2> HIDE DEF A
  <2>2. PICK h : Iterated(h, A, <<>>, g, n)
    BY <1>1, <2>1, Iterates
  <2> QED BY <2>2 DEF Iterated, A
<1>6. \A k \in 1 .. n : h[k] = V(k, h[k - 1])
  <2> SUFFICES ASSUME NEW k \in 1 .. n PROVE h[k] = V(k, h[k - 1])
    OBVIOUS
  <2>1. k - 1 \in 0 .. n
    BY <1>1
  <2> QED BY <1>4, <1>5, <2>1
<1>7. h = F(h)
  <2>1. \A k \in 0 .. n : h[k] = IF k = 0 THEN <<>> ELSE V(k, h[k - 1])
    BY <1>1, <1>5, <1>6
  <2>2. h = [k \in 0 .. n |-> h[k]]
    OBVIOUS
  <2> QED BY <2>1, <2>2
<1> DEFINE f == CHOOSE x : x = F(x)
<1>8. f = F(f)
  <2> HIDE DEF F
  <2> QED BY <1>7
<1>9. Text(file) = f[n]
  BY DEF Text, V, n, PieceOf
<1> HIDE DEF f
<1>10. DOMAIN f = 0 .. n /\ f[0] = <<>> /\ \A k \in 1 .. n : f[k] = V(k, f[k - 1])
  BY <1>1, <1>8
<1>11. \A k \in 0 .. n : f[k] \in Seq(Char)
  <2> DEFINE T == {k \in 0 .. n : f[k] \in Seq(Char)}
  <2>1. 0 \in T
    <3>1. 0 \in 0 .. n
      BY <1>1
    <3>2. f[0] \in Seq(Char)
      BY <1>1, <1>10
    <3> HIDE DEF f
    <3> QED BY <3>1, <3>2
  <2>2. \A k \in 1 .. n : k - 1 \in T => k \in T
    BY <1>1, <1>2, <1>10
  <2> HIDE DEF T
  <2>3. \A k \in 0 .. n : k \in T
    BY <1>1, <2>1, <2>2, UpwardsTo
  <2> QED BY <2>3 DEF T
<1>12. f \in [0 .. n -> Seq(Char)]
  <2>1. f = [k \in 0 .. n |-> f[k]]
    BY <1>8
  <2> QED BY <1>11, <2>1
<1> QED BY <1>9, <1>10, <1>12 DEF V, n

(* A file that its author wrote.                                           *)
Written(file) == AsWritten(file) /\ Len(file.lines) \in Nat /\ file.ended \in BOOLEAN

(* What a line is made of ends no line.                                    *)
LEMMA WordsShow ==
  /\ ItemNames \subseteq Shown /\ Digits \subseteq Shown /\ {"=", "SP", "TAB"} \subseteq Shown
  /\ LineEnds \subseteq Char /\ Shown \subseteq Char
  /\ \A c \in Shown : c \notin LineEnds \cup {"NUL"}
<1>1. \A c \in Others : c \notin LineEnds \cup {"NUL"}
  BY CnfAssumption DEF CnfAssumption, Blanks
<1>2. \A c \in Digits : c \notin LineEnds \cup {"NUL"}
  BY DigitsAre DEF Blanks
<1> QED BY <1>1, <1>2 DEF Shown, ItemNames, LineEnds, Char

(* What follows the name of an item, part by part.                         *)
LEMMA RestShows ==
  ASSUME NEW l, WordLine(l) \/ BootLine(l), l.pad \in Seq({"SP", "TAB"})
  PROVE  /\ l.value \in Seq(Shown) /\ l.tail \in Seq(Shown) /\ l.pad \in Seq(Shown)
         /\ <<"=">> \in Seq(Shown)
         /\ l.value \o l.tail \in Seq(Shown) /\ l.pad \o (l.value \o l.tail) \in Seq(Shown)
         /\ <<"=">> \o (l.pad \o (l.value \o l.tail)) \in Seq(Shown)
         /\ l.pad \o (<<"=">> \o (l.pad \o (l.value \o l.tail))) \in Seq(Shown)
<1>2. l.value \in Seq(Shown) /\ l.tail \in Seq(Shown)
  <2>1. CASE WordLine(l)
    <3>1. l.value \in Seq(Digits) /\ l.tail = <<>>
      BY <2>1 DEF WordLine
    <3>2. l.value \in Seq(Shown)
      BY <3>1, WordsShow
    <3> QED BY <3>1, <3>2
  <2>2. CASE BootLine(l)
    <3>1. l.value \in Seq(Shown \ {"TAB"})
      BY <2>2 DEF BootLine
    <3>2. l.value \in Seq(Shown)
      BY <3>1, SeqMonotonic
    <3> QED BY <2>2, <3>2 DEF BootLine
  <2> QED BY <2>1, <2>2
<1>3. l.pad \in Seq(Shown) /\ <<"=">> \in Seq(Shown)
  <2>1. l.pad \in Seq(Shown)
    BY WordsShow
  <2> QED BY <2>1, WordsShow
<1>4. l.value \o l.tail \in Seq(Shown)
  BY <1>2, ConcatProperties
<1>5. l.pad \o (l.value \o l.tail) \in Seq(Shown)
  BY <1>3, <1>4, ConcatProperties
<1>6. <<"=">> \o (l.pad \o (l.value \o l.tail)) \in Seq(Shown)
  BY <1>3, <1>5, ConcatProperties
<1>7. l.pad \o (<<"=">> \o (l.pad \o (l.value \o l.tail))) \in Seq(Shown)
  BY <1>3, <1>6, ConcatProperties
<1> QED BY <1>2, <1>3, <1>4, <1>5, <1>6, <1>7

(* A line is made of characters that end none.                             *)
LEMMA LineShows ==
  ASSUME NEW file, Written(file), NEW i \in 1 .. Len(file.lines)
  PROVE  /\ LineText(file.lines[i]) \in Seq(Shown)
         /\ EndOfLine(file, i) \in Seq(LineEnds)
         /\ i < Len(file.lines) => EndOfLine(file, i) # <<>>
<1> DEFINE l == file.lines[i]
<1>1. OtherLine(l) \/ ((WordLine(l) \/ BootLine(l)) /\ l.pad \in Seq({"SP", "TAB"}))
  BY DEF Written, AsWritten
<1>2. file.end \in Seq(LineEnds) /\ file.end # <<>>
  <2>1. file.end = <<"LF">> \/ file.end = <<"CR">> \/ file.end = <<"CR", "LF">>
    BY DEF Written, AsWritten
  <2>2. "LF" \in LineEnds /\ "CR" \in LineEnds
    BY DEF LineEnds
  <2>3. <<"LF">> \in Seq(LineEnds) /\ <<"CR">> \in Seq(LineEnds) /\ <<"CR", "LF">> \in Seq(LineEnds)
    BY <2>2
  <2>4. <<"LF">> # <<>> /\ <<"CR">> # <<>> /\ <<"CR", "LF">> # <<>>
    OBVIOUS
  <2> QED BY <2>1, <2>3, <2>4, Zenon
<1>3. EndOfLine(file, i) \in Seq(LineEnds) /\ (i < Len(file.lines) => EndOfLine(file, i) # <<>>)
  BY <1>2 DEF EndOfLine, Written
<1> HIDE DEF l
<1>4. LineText(l) \in Seq(Shown)
  <2>1. CASE OtherLine(l)
    BY <2>1 DEF OtherLine, LineText
  <2>2. CASE (WordLine(l) \/ BootLine(l)) /\ l.pad \in Seq({"SP", "TAB"})
    <3>1. l.name \in ItemNames /\ l.name # "other"
      BY <2>2 DEF WordLine, BootLine, ItemNames
    <3>2. <<l.name>> \in Seq(Shown)
      BY <3>1, WordsShow
    <3>3. l.pad \o (<<"=">> \o (l.pad \o (l.value \o l.tail))) \in Seq(Shown)
      BY <2>2, RestShows
    <3>8. <<l.name>> \o (l.pad \o (<<"=">> \o (l.pad \o (l.value \o l.tail)))) \in Seq(Shown)
      BY <3>2, <3>3, ConcatProperties
    <3> QED BY <3>1, <3>8 DEF LineText
  <2> QED BY <1>1, <2>1, <2>2
<1> QED BY <1>3, <1>4 DEF l

(* Where the lines lie in the text.                                        *)
Lies(file, o) ==
  LET t == Text(file)
      m == Len(file.lines)
  IN  /\ t \in Seq(Char) /\ o \in [0 .. m -> Nat] /\ o[0] = 0 /\ o[m] = Len(t)
      /\ \A j, k \in 0 .. m : j =< k => o[j] =< o[k]
      /\ \A k \in 1 .. m : /\ o[k] = o[k - 1] + Len(PieceOf(file, k))
                           /\ \A j \in 1 .. Len(PieceOf(file, k)) : t[o[k - 1] + j] = PieceOf(file, k)[j]

(* A line and its end, character by character.                             *)
LEMMA PieceIs ==
  ASSUME NEW file, Written(file), NEW i \in 1 .. Len(file.lines)
  PROVE  /\ PieceOf(file, i) \in Seq(Char)
         /\ Len(PieceOf(file, i)) = Len(LineText(file.lines[i])) + Len(EndOfLine(file, i))
         /\ \A j \in 1 .. Len(PieceOf(file, i)) :
              IF j =< Len(LineText(file.lines[i]))
              THEN PieceOf(file, i)[j] = LineText(file.lines[i])[j] /\ PieceOf(file, i)[j] \in Shown
              ELSE PieceOf(file, i)[j] \in LineEnds
<1> DEFINE a == LineText(file.lines[i])
           b == EndOfLine(file, i)
<1>1. a \in Seq(Shown) /\ b \in Seq(LineEnds)
  BY LineShows
<1> HIDE DEF a, b
<1>2. a \in Seq(Char) /\ b \in Seq(Char)
  BY <1>1, WordsShow, SeqMonotonic
<1>3. a \o b \in Seq(Char) /\ Len(a \o b) = Len(a) + Len(b)
  BY <1>2, ConcatProperties
<1>4. ASSUME NEW j \in 1 .. Len(a \o b)
      PROVE  IF j =< Len(a) THEN (a \o b)[j] = a[j] /\ (a \o b)[j] \in Shown ELSE (a \o b)[j] \in LineEnds
  <2>1. Len(a) \in Nat /\ Len(b) \in Nat
    BY <1>2
  <2>2. (a \o b)[j] = IF j =< Len(a) THEN a[j] ELSE b[j - Len(a)]
    BY <1>2, <1>3, <1>4, ConcatProperties
  <2>3. CASE j =< Len(a)
    BY <1>1, <1>4, <2>1, <2>2, <2>3
  <2>4. CASE ~(j =< Len(a))
    <3>1. j - Len(a) \in 1 .. Len(b)
      BY <1>3, <1>4, <2>1, <2>4
    <3> QED BY <1>1, <2>2, <2>4, <3>1
  <2> QED BY <2>3, <2>4
<1> QED BY <1>3, <1>4 DEF PieceOf, a, b

(* The places that the lines of the text have.                             *)
LEMMA TextLies ==
  ASSUME NEW file, Written(file)
  PROVE  \E o : Lies(file, o)
<1> DEFINE m == Len(file.lines)
           t == Text(file)
<1>1. m \in Nat /\ \A i \in 1 .. m : PieceOf(file, i) \in Seq(Char)
  BY PieceIs DEF Written
<1>2. PICK u \in [0 .. m -> Seq(Char)] :
        u[0] = <<>> /\ t = u[m] /\ \A k \in 1 .. m : u[k] = u[k - 1] \o PieceOf(file, k)
  BY <1>1, TextUnfolds
<1> HIDE DEF m, t
<1> DEFINE o == [k \in 0 .. m |-> Len(u[k])]
           Begins(j, k) == Len(u[j]) =< Len(u[k]) /\ \A x \in 1 .. Len(u[j]) : u[k][x] = u[j][x]
           T == {k \in 0 .. m : \A j \in 0 .. k : Begins(j, k)}
<1>3. ASSUME NEW k \in 1 .. m
      PROVE  /\ k - 1 \in 0 .. m /\ k \in 0 .. m
             /\ Len(u[k]) = Len(u[k - 1]) + Len(PieceOf(file, k)) /\ Len(u[k - 1]) \in Nat
             /\ Len(PieceOf(file, k)) \in Nat
             /\ \A x \in 1 .. Len(u[k - 1]) : u[k][x] = u[k - 1][x]
             /\ \A j \in 1 .. Len(PieceOf(file, k)) : u[k][Len(u[k - 1]) + j] = PieceOf(file, k)[j]
  <2>1. k - 1 \in 0 .. m /\ k \in 0 .. m
    BY <1>1
  <2> DEFINE a == u[k - 1]
             b == PieceOf(file, k)
  <2>2. a \in Seq(Char) /\ b \in Seq(Char) /\ u[k] = a \o b
    BY <1>1, <1>2, <2>1
  <2> HIDE DEF a, b
  <2>3. Len(a) \in Nat /\ Len(b) \in Nat
    BY <2>2
  <2>4. /\ Len(a \o b) = Len(a) + Len(b)
        /\ \A i \in 1 .. Len(a) + Len(b) : (a \o b)[i] = IF i =< Len(a) THEN a[i] ELSE b[i - Len(a)]
    BY <2>2, ConcatProperties
  <2>5. \A x \in 1 .. Len(a) : (a \o b)[x] = a[x]
    BY <2>3, <2>4
  <2>6. ASSUME NEW j \in 1 .. Len(b) PROVE (a \o b)[Len(a) + j] = b[j]
    <3>1. Len(a) + j \in 1 .. Len(a) + Len(b) /\ ~(Len(a) + j =< Len(a)) /\ (Len(a) + j) - Len(a) = j
      BY <2>3
    <3> QED BY <2>4, <3>1
  <2> QED BY <2>1, <2>2, <2>3, <2>4, <2>5, <2>6 DEF a, b
<1>4. \A k \in 0 .. m : Len(u[k]) \in Nat
  BY <1>2
<1>5. 0 \in T
  BY <1>1, <1>4
<1>6. ASSUME NEW k \in 1 .. m, k - 1 \in T PROVE k \in T
  <2>1. k - 1 \in 0 .. m /\ k \in 0 .. m /\ \A j \in 0 .. k : j = k \/ j \in 0 .. k - 1
    BY <1>1
  <2>2. ASSUME NEW j \in 0 .. k - 1 PROVE Begins(j, k)
    <3>1. Begins(j, k - 1) /\ j \in 0 .. m
      BY <1>1, <1>6
    <3>2. Len(u[j]) \in Nat /\ Len(u[k]) \in Nat /\ Len(u[k - 1]) \in Nat /\ Len(PieceOf(file, k)) \in Nat
      BY <1>3, <1>4, <2>1, <3>1
    <3>3. Len(u[j]) =< Len(u[k])
      BY <1>3, <3>1, <3>2
    <3>4. ASSUME NEW x \in 1 .. Len(u[j]) PROVE u[k][x] = u[j][x]
      <4>1. x \in 1 .. Len(u[k - 1])
        BY <3>1, <3>2
      <4> QED BY <1>3, <3>1, <4>1
    <3> QED BY <3>3, <3>4
  <2>3. Begins(k, k)
    BY <1>4, <2>1
  <2> HIDE DEF Begins
  <2> QED BY <2>1, <2>2, <2>3
<1>7. \A k \in 0 .. m : k \in T
  <2> HIDE DEF T
  <2> QED BY <1>1, <1>5, <1>6, UpwardsTo
<1>8. \A j, k \in 0 .. m : j =< k => Begins(j, k)
  <2> SUFFICES ASSUME NEW j \in 0 .. m, NEW k \in 0 .. m, j =< k PROVE Begins(j, k)
    OBVIOUS
  <2>1. j \in 0 .. k
    BY <1>1
  <2> HIDE DEF Begins
  <2> QED BY <1>7, <2>1
<1>9. o \in [0 .. m -> Nat] /\ o[0] = 0 /\ o[m] = Len(t) /\ t \in Seq(Char)
  BY <1>1, <1>2, <1>4
<1>10. \A j, k \in 0 .. m : j =< k => o[j] =< o[k]
  BY <1>8
<1>11. ASSUME NEW k \in 1 .. m
       PROVE  /\ o[k] = o[k - 1] + Len(PieceOf(file, k))
              /\ \A j \in 1 .. Len(PieceOf(file, k)) : t[o[k - 1] + j] = PieceOf(file, k)[j]
  <2>0. k - 1 \in 0 .. m /\ k \in 0 .. m /\ k =< m /\ m \in 0 .. m
    BY <1>1
  <2>01. o[k] = Len(u[k]) /\ o[k - 1] = Len(u[k - 1])
    BY <2>0
  <2>1. o[k] = o[k - 1] + Len(PieceOf(file, k)) /\ o[k - 1] = Len(u[k - 1]) /\ k \in 0 .. m /\ k =< m /\ m \in 0 .. m
    BY <1>3, <2>0, <2>01
  <2>2. ASSUME NEW j \in 1 .. Len(PieceOf(file, k)) PROVE t[o[k - 1] + j] = PieceOf(file, k)[j]
    <3>1. Len(u[k - 1]) + j \in 1 .. Len(u[k])
      BY <1>3
    <3>2. t[Len(u[k - 1]) + j] = u[k][Len(u[k - 1]) + j]
      BY <1>2, <1>8, <2>1, <3>1
    <3> QED BY <1>3, <2>1, <3>2
  <2> QED BY <2>1, <2>2
<1>12. Lies(file, o)
  <2> HIDE DEF o
  <2> QED BY <1>9, <1>10, <1>11 DEF Lies, m, t
<1> QED BY <1>12

(* The character at a place of a line.                                     *)
LEMMA AtIs ==
  ASSUME NEW file, Written(file), NEW o, Lies(file, o), NEW i \in 1 .. Len(file.lines)
  PROVE  /\ i - 1 \in 0 .. Len(file.lines) /\ i \in 0 .. Len(file.lines)
         /\ o[i - 1] \in Nat /\ o[i] \in Nat /\ o[i] =< Len(Text(file)) /\ Len(Text(file)) \in Nat
         /\ Len(LineText(file.lines[i])) \in Nat /\ Len(EndOfLine(file, i)) \in Nat
         /\ o[i] = o[i - 1] + (Len(LineText(file.lines[i])) + Len(EndOfLine(file, i)))
         /\ \A j \in 1 .. Len(PieceOf(file, i)) : At(Text(file), o[i - 1] + j) = PieceOf(file, i)[j]
<1> DEFINE m == Len(file.lines)
           t == Text(file)
           s == PieceOf(file, i)
           a == LineText(file.lines[i])
           b == EndOfLine(file, i)
<1>1. m \in Nat /\ a \in Seq(Shown) /\ b \in Seq(LineEnds)
  BY LineShows DEF Written
<1>2. Len(s) = Len(a) + Len(b)
  BY PieceIs
<1>3. /\ t \in Seq(Char) /\ o \in [0 .. m -> Nat] /\ o[m] = Len(t)
      /\ \A j, k \in 0 .. m : j =< k => o[j] =< o[k]
      /\ \A k \in 1 .. m : /\ o[k] = o[k - 1] + Len(PieceOf(file, k))
                           /\ \A j \in 1 .. Len(PieceOf(file, k)) : t[o[k - 1] + j] = PieceOf(file, k)[j]
  BY DEF Lies
<1>4. o[i] = o[i - 1] + Len(s) /\ \A j \in 1 .. Len(s) : t[o[i - 1] + j] = s[j]
  BY <1>3
<1> HIDE DEF m, t, s, a, b
<1>5. i \in 1 .. m
  BY DEF m
<1>6. i - 1 \in 0 .. m /\ i \in 0 .. m /\ m \in 0 .. m /\ i =< m
  BY <1>1, <1>5
<1>7. o[i - 1] \in Nat /\ o[i] \in Nat /\ o[i] =< Len(t) /\ Len(t) \in Nat /\ Len(a) \in Nat /\ Len(b) \in Nat
  BY <1>1, <1>3, <1>6
<1>8. ASSUME NEW j \in 1 .. Len(s) PROVE At(t, o[i - 1] + j) = s[j]
  <2>1. o[i - 1] + j =< Len(t)
    BY <1>2, <1>4, <1>7
  <2> QED BY <1>4, <2>1 DEF At
<1> QED BY <1>2, <1>4, <1>6, <1>7, <1>8 DEF m, t, s, a, b

(* Each character of the text is one of a line's. *)
LEMMA Located ==
  ASSUME NEW file, Written(file), NEW o, Lies(file, o), NEW x \in 1 .. Len(Text(file))
  PROVE  \E i \in 1 .. Len(file.lines) : o[i - 1] < x /\ x =< o[i]
<1> DEFINE m == Len(file.lines)
           T == {k \in 0 .. m : x =< o[k]}
<1>1. m \in Nat /\ o \in [0 .. m -> Nat] /\ o[0] = 0 /\ o[m] = Len(Text(file))
  BY DEF Lies, Written
<1> HIDE DEF m
<1>2. m \in T
  BY <1>1
<1>3. PICK i \in T : \A k \in T : i =< k
  <2>1. T \subseteq Nat /\ T # {}
    BY <1>1, <1>2
  <2> HIDE DEF T
  <2> QED BY <2>1, LeastExists
<1>4. i \in 0 .. m /\ x =< o[i]
  OBVIOUS
<1>5. i # 0
  BY <1>1, <1>4
<1>6. i \in 1 .. m /\ i - 1 \in 0 .. m /\ ~(i =< i - 1)
  BY <1>1, <1>4, <1>5
<1>7. ~(x =< o[i - 1])
  BY <1>3, <1>6
<1>8. o[i - 1] \in Nat
  BY <1>1, <1>6
<1>9. o[i - 1] < x
  BY <1>7, <1>8
<1> QED BY <1>4, <1>6, <1>9 DEF m

(* A line begins where the one before it has ended.                        *)
LEMMA FirstOf ==
  ASSUME NEW file, Written(file), NEW i \in 1 .. Len(file.lines), NEW item \in ItemNames
  PROVE  /\ file.lines[i].name = item => Len(PieceOf(file, i)) >= 1 /\ PieceOf(file, i)[1] = item
         /\ file.lines[i].name # item /\ Len(PieceOf(file, i)) >= 1 => PieceOf(file, i)[1] # item
<1> DEFINE l == file.lines[i]
           s == LineText(l)
           p == PieceOf(file, i)
<1>1. OtherLine(l) \/ ((WordLine(l) \/ BootLine(l)) /\ l.pad \in Seq({"SP", "TAB"}))
  BY DEF Written, AsWritten
<1>2. /\ p \in Seq(Char) /\ Len(p) = Len(s) + Len(EndOfLine(file, i))
      /\ \A j \in 1 .. Len(p) :
           IF j =< Len(s) THEN p[j] = s[j] /\ p[j] \in Shown ELSE p[j] \in LineEnds
  BY PieceIs
<1>3. s \in Seq(Shown) /\ EndOfLine(file, i) \in Seq(LineEnds)
  BY LineShows
<1>4. item \notin LineEnds
  BY DEF ItemNames, LineEnds
<1> HIDE DEF s, p
<1>5. Len(s) \in Nat /\ Len(p) \in Nat /\ Len(EndOfLine(file, i)) \in Nat
  BY <1>2, <1>3
<1>6. CASE OtherLine(l)
  <2>1. l.name # item /\ s = l.value /\ l.value \in Seq(Shown) /\ (l.value # <<>> => l.value[1] \notin ItemNames)
    BY <1>6 DEF OtherLine, s, LineText, ItemNames
  <2>2. CASE Len(p) >= 1 /\ Len(s) >= 1
    <3>1. 1 \in 1 .. Len(p) /\ p[1] = s[1] /\ s # <<>>
      BY <1>2, <1>3, <1>5, <2>2
    <3> QED BY <2>1, <3>1 DEF p
  <2>3. CASE Len(p) >= 1 /\ ~(Len(s) >= 1)
    <3>1. p[1] \in LineEnds
      BY <1>2, <1>5, <2>3
    <3> QED BY <1>4, <2>1, <3>1 DEF p
  <2>4. CASE ~(Len(p) >= 1)
    BY <2>1, <2>4 DEF p
  <2> QED BY <2>2, <2>3, <2>4
<1>7. CASE (WordLine(l) \/ BootLine(l)) /\ l.pad \in Seq({"SP", "TAB"})
  <2> DEFINE r == l.pad \o (<<"=">> \o (l.pad \o (l.value \o l.tail)))
  <2>1. l.name \in ItemNames /\ s = <<l.name>> \o r
    <3>1. l.name \in ItemNames
      BY <1>7 DEF WordLine, BootLine, ItemNames
    <3>2. l.name # "other"
      BY <3>1 DEF ItemNames
    <3> QED BY <3>1, <3>2 DEF s, LineText
  <2>2. r \in Seq(Shown)
    BY <1>7, RestShows DEF r
  <2> HIDE DEF r, l
  <2>3. Len(s) >= 1 /\ s[1] = l.name
    <3>1. <<l.name>> \in Seq(Shown) /\ Len(<<l.name>>) = 1 /\ <<l.name>>[1] = l.name
      BY <2>1, WordsShow
    <3>2. Len(r) \in Nat
      BY <2>2
    <3> QED BY <2>1, <2>2, <3>1, <3>2, ConcatProperties
  <2>4. Len(p) >= 1 /\ p[1] = l.name
    BY <1>2, <1>5, <2>3
  <2> QED BY <2>4 DEF l, p
<1> QED BY <1>1, <1>6, <1>7

(* A name is found where the lines begin that give the item a value, and    *)
(* nowhere else: not behind a line's name or value, not between the two     *)
(* characters that end a line.                                              *)
LEMMA FoundAtLines ==
  ASSUME NEW file, Written(file), NEW o, Lies(file, o), NEW item \in ItemNames
  PROVE  {x \in Starts(Text(file)) : At(Text(file), x) = item} = {o[i - 1] + 1 : i \in LinesOf(file, item)}
<1> DEFINE t == Text(file)
           m == Len(file.lines)
           Found == {x \in Starts(t) : At(t, x) = item}
           Begun == {o[i - 1] + 1 : i \in LinesOf(file, item)}
<1>0. item # "NUL" /\ item \notin LineEnds
  BY DEF ItemNames, LineEnds
<1>1. m \in Nat /\ o \in [0 .. m -> Nat] /\ o[0] = 0 /\ t \in Seq(Char) /\ Len(t) \in Nat
  BY DEF Lies, Written
<1>2. ASSUME NEW i \in LinesOf(file, item) PROVE o[i - 1] + 1 \in Found
  <2>1. i \in 1 .. m /\ file.lines[i].name = item
    BY DEF LinesOf
  <2> DEFINE p == PieceOf(file, i)
  <2>2. Len(p) >= 1 /\ p[1] = item
    BY <2>1, FirstOf
  <2>3. /\ i - 1 \in 0 .. m /\ o[i - 1] \in Nat /\ \A j \in 1 .. Len(p) : At(t, o[i - 1] + j) = p[j]
    BY <2>1, AtIs
  <2>4. Len(p) \in Nat
    BY <2>1, PieceIs
  <2> HIDE DEF p, t, m
  <2>5. At(t, o[i - 1] + 1) = item
    BY <2>2, <2>3, <2>4
  <2>6. o[i - 1] + 1 \in Starts(t)
    <3>1. CASE i = 1
      <4>1. o[i - 1] + 1 = 1
        BY <1>1, <3>1
      <4> QED BY <4>1 DEF Starts
    <3>2. CASE i # 1
      <4> DEFINE k == i - 1
                 q == PieceOf(file, k)
                 e == EndOfLine(file, k)
                 a == LineText(file.lines[k])
      <4>1. k \in 1 .. m /\ k < m
        BY <1>1, <2>1, <3>2
      <4>2. e \in Seq(LineEnds) /\ e # <<>>
        BY <4>1, LineShows DEF m
      <4>3. /\ Len(q) = Len(a) + Len(e)
            /\ \A j \in 1 .. Len(q) : ~(j =< Len(a)) => q[j] \in LineEnds
        BY <4>1, PieceIs DEF m
      <4>4. /\ o[k - 1] \in Nat /\ o[k] = o[k - 1] + (Len(a) + Len(e)) /\ Len(a) \in Nat /\ Len(e) \in Nat
            /\ o[k] =< Len(t) /\ \A j \in 1 .. Len(q) : At(t, o[k - 1] + j) = q[j]
        BY <4>1, AtIs DEF m, t
      <4> HIDE DEF q, e, a, k
      <4>5. Len(e) >= 1
        BY <4>2, <4>4
      <4>6. Len(q) \in 1 .. Len(q) /\ ~(Len(q) =< Len(a)) /\ o[k] = o[k - 1] + Len(q)
        BY <4>3, <4>4, <4>5
      <4>7. At(t, o[k]) \in LineEnds
        BY <4>3, <4>4, <4>6
      <4>8. o[k] \in 1 .. Len(t)
        BY <1>1, <4>4, <4>5
      <4>9. t[o[k]] \in LineEnds
        BY <4>7, <4>8 DEF At
      <4> QED BY <4>8, <4>9 DEF Starts, k
    <3> QED BY <3>1, <3>2
  <2> QED BY <2>5, <2>6 DEF t
<1>3. ASSUME NEW x \in Found PROVE x \in Begun
  <2>1. x \in Starts(t) /\ At(t, x) = item
    OBVIOUS
  <2> HIDE DEF Found, t, m
  <2>2. x \in Nat /\ x >= 1 /\ (x = 1 \/ (x - 1 \in 1 .. Len(t) /\ t[x - 1] \in LineEnds))
    BY <1>1, <2>1 DEF Starts
  <2>3. x \in 1 .. Len(t)
    BY <1>0, <1>1, <2>1, <2>2 DEF At
  <2>4. PICK i \in 1 .. m : o[i - 1] < x /\ x =< o[i]
    BY <2>3, Located DEF t, m
  <2> DEFINE p == PieceOf(file, i)
             a == LineText(file.lines[i])
             e == EndOfLine(file, i)
             b == o[i - 1]
  <2>5. /\ Len(p) = Len(a) + Len(e)
        /\ \A j \in 1 .. Len(p) : IF j =< Len(a) THEN p[j] \in Shown ELSE p[j] \in LineEnds
    BY <2>4, PieceIs DEF m
  <2>6. /\ b \in Nat /\ o[i] = b + (Len(a) + Len(e)) /\ o[i] =< Len(t)
        /\ Len(a) \in Nat /\ Len(e) \in Nat /\ \A j \in 1 .. Len(p) : At(t, b + j) = p[j]
    BY <2>4, AtIs DEF m, t
  <2>7. /\ file.lines[i].name = item => Len(p) >= 1 /\ p[1] = item
        /\ file.lines[i].name # item /\ Len(p) >= 1 => p[1] # item
    BY <2>4, FirstOf DEF m
  <2> HIDE DEF p, a, e, b
  <2> DEFINE j == x - b
  <2>8. b < x /\ x =< o[i]
    BY <2>4 DEF b
  <2>9. j \in 1 .. Len(p) /\ b + j = x
    BY <2>2, <2>5, <2>6, <2>8
  <2>10. p[j] = item
    BY <2>1, <2>6, <2>9
  <2>11. j = 1
    <3> SUFFICES ASSUME j # 1 PROVE FALSE
      OBVIOUS
    <3>1. j - 1 \in 1 .. Len(p) /\ b + (j - 1) = x - 1 /\ x - 1 # 0
      BY <2>2, <2>6, <2>9
    <3>2. x - 1 \in 1 .. Len(t) /\ t[x - 1] \in LineEnds
      BY <2>2, <3>1
    <3>3. At(t, x - 1) = t[x - 1]
      BY <3>2 DEF At
    <3>4. p[j - 1] \in LineEnds
      BY <2>6, <3>1, <3>2, <3>3
    <3>5. ~(j - 1 =< Len(a))
      BY <2>5, <3>1, <3>4, WordsShow
    <3>6. ~(j =< Len(a))
      BY <2>6, <2>9, <3>5
    <3>7. p[j] \in LineEnds
      BY <2>5, <2>9, <3>6
    <3> QED BY <1>0, <2>10, <3>7
  <2>12. file.lines[i].name = item
    BY <2>7, <2>9, <2>10, <2>11
  <2>13. i \in LinesOf(file, item)
    BY <2>12 DEF LinesOf, m
  <2>14. x = o[i - 1] + 1
    BY <2>9, <2>11 DEF b
  <2> QED BY <2>13, <2>14
<1> QED BY <1>2, <1>3

(* The first place where an item is found is that of its first line.       *)
LEMMA FirstFound ==
  ASSUME NEW file, Written(file), NEW o, Lies(file, o), NEW item \in ItemNames, LinesOf(file, item) # {}
  PROVE  /\ Least(LinesOf(file, item)) \in LinesOf(file, item)
         /\ Least({o[i - 1] + 1 : i \in LinesOf(file, item)}) = o[Least(LinesOf(file, item)) - 1] + 1
<1> DEFINE its == LinesOf(file, item)
           m == Len(file.lines)
           k == Least(its)
<1>1. m \in Nat /\ o \in [0 .. m -> Nat] /\ \A i, j \in 0 .. m : i =< j => o[i] =< o[j]
  BY DEF Lies, Written
<1>2. its \subseteq 1 .. m
  BY DEF LinesOf
<1>3. its \subseteq Nat /\ its # {}
  BY <1>1, <1>2
<1> HIDE DEF its, m
<1>4. k \in its /\ \A i \in its : k =< i
  BY <1>3, LeastIsIn
<1> HIDE DEF k
<1>5. ASSUME NEW i \in its PROVE o[i - 1] + 1 \in Nat /\ o[k - 1] + 1 =< o[i - 1] + 1
  <2>1. i - 1 \in 0 .. m /\ k - 1 \in 0 .. m /\ k - 1 =< i - 1
    BY <1>1, <1>2, <1>4
  <2>2. o[k - 1] =< o[i - 1] /\ o[k - 1] \in Nat /\ o[i - 1] \in Nat
    BY <1>1, <2>1
  <2> QED BY <2>2
<1>6. Least({o[i - 1] + 1 : i \in its}) = o[k - 1] + 1
  <2> DEFINE S == {o[i - 1] + 1 : i \in its}
  <2>1. S \subseteq Nat /\ o[k - 1] + 1 \in S /\ \A y \in S : o[k - 1] + 1 =< y
    BY <1>4, <1>5
  <2> HIDE DEF S
  <2>2. Least(S) = o[k - 1] + 1
    BY <2>1, LeastIs
  <2> QED BY <2>2 DEF S
<1> QED BY <1>4, <1>6 DEF k, its

(* How a place is known to be Beyond's.                                    *)
LEMMA BeyondIs ==
  ASSUME NEW t, Len(t) \in Nat, NEW a \in Nat, NEW z \in Nat, a =< z, z =< Len(t) + 1, NEW chars,
         \A j \in a .. z - 1 : At(t, j) \in chars, At(t, z) \notin chars
  PROVE  Beyond(t, a, chars) = z
<1> DEFINE S == {j \in a .. Len(t) + 1 : At(t, j) \notin chars}
<1>1. S \subseteq Nat /\ z \in S
  OBVIOUS
<1>2. \A y \in S : z =< y
  <2> SUFFICES ASSUME NEW y \in S PROVE z =< y
    OBVIOUS
  <2>1. y \in Nat /\ a =< y /\ y \notin a .. z - 1
    OBVIOUS
  <2> QED BY <2>1
<1> HIDE DEF S
<1>3. Least(S) = z
  BY <1>1, <1>2, LeastIs
<1> QED BY <1>3 DEF Beyond, S

(* How a place is known to be UpTo's.                                      *)
LEMMA UpToIs ==
  ASSUME NEW t, Len(t) \in Nat, NEW a \in Nat, NEW z \in Nat, a =< z, z =< Len(t) + 1, NEW chars,
         \A j \in a .. z - 1 : At(t, j) \notin chars \cup {"NUL"}, At(t, z) \in chars \cup {"NUL"}
  PROVE  UpTo(t, a, chars) = z
<1> DEFINE S == {j \in a .. Len(t) + 1 : At(t, j) \in chars \cup {"NUL"}}
<1>1. S \subseteq Nat /\ z \in S
  OBVIOUS
<1>2. \A y \in S : z =< y
  <2> SUFFICES ASSUME NEW y \in S PROVE z =< y
    OBVIOUS
  <2>1. y \in Nat /\ a =< y /\ y \notin a .. z - 1
    OBVIOUS
  <2> QED BY <2>1
<1> HIDE DEF S
<1>3. Least(S) = z
  BY <1>1, <1>2, LeastIs
<1> QED BY <1>3 DEF UpTo, S

(* Two sequences one behind the other, element by element.                 *)
LEMMA Joined ==
  ASSUME NEW S, NEW a \in Seq(S), NEW b \in Seq(S)
  PROVE  /\ a \o b \in Seq(S) /\ Len(a) \in Nat /\ Len(b) \in Nat /\ Len(a \o b) = Len(a) + Len(b)
         /\ \A j \in 1 .. Len(a) : (a \o b)[j] = a[j]
         /\ \A j \in 1 .. Len(b) : (a \o b)[Len(a) + j] = b[j]
<1>1. Len(a) \in Nat /\ Len(b) \in Nat
  OBVIOUS
<1>2. /\ a \o b \in Seq(S) /\ Len(a \o b) = Len(a) + Len(b)
      /\ \A i \in 1 .. Len(a) + Len(b) : (a \o b)[i] = IF i =< Len(a) THEN a[i] ELSE b[i - Len(a)]
  BY ConcatProperties
<1>3. \A j \in 1 .. Len(a) : (a \o b)[j] = a[j]
  BY <1>1, <1>2
<1>4. ASSUME NEW j \in 1 .. Len(b) PROVE (a \o b)[Len(a) + j] = b[j]
  <2>1. Len(a) + j \in 1 .. Len(a) + Len(b) /\ ~(Len(a) + j =< Len(a)) /\ (Len(a) + j) - Len(a) = j
    BY <1>1
  <2> QED BY <1>2, <2>1
<1> QED BY <1>1, <1>2, <1>3, <1>4

(* An item's line, character by character. *)
LEMMA Parts ==
  ASSUME NEW l, WordLine(l) \/ BootLine(l), l.pad \in Seq({"SP", "TAB"})
  PROVE  LET s == LineText(l)
             p == Len(l.pad)
             v == Len(l.value)
             q == Len(l.tail)
         IN  /\ p \in Nat /\ v \in Nat /\ q \in Nat /\ Len(s) = 2 + p + p + v + q
             /\ s[1] = l.name /\ s[2 + p] = "="
             /\ \A j \in 1 .. p : s[1 + j] = l.pad[j] /\ s[2 + p + j] = l.pad[j]
             /\ \A j \in 1 .. v : s[2 + p + p + j] = l.value[j]
             /\ \A j \in 1 .. q : s[2 + p + p + v + j] = l.tail[j]
<1> DEFINE y4 == l.value \o l.tail
           y3 == l.pad \o y4
           y2 == <<"=">> \o y3
           y1 == l.pad \o y2
           s == LineText(l)
           p == Len(l.pad)
           v == Len(l.value)
           q == Len(l.tail)
<1>1. /\ l.value \in Seq(Shown) /\ l.tail \in Seq(Shown) /\ l.pad \in Seq(Shown)
      /\ <<"=">> \in Seq(Shown) /\ <<l.name>> \in Seq(Shown)
      /\ s = <<l.name>> \o y1 /\ y4 \in Seq(Shown) /\ y3 \in Seq(Shown) /\ y2 \in Seq(Shown) /\ y1 \in Seq(Shown)
  <2>1. l.name \in ItemNames
    BY DEF WordLine, BootLine, ItemNames
  <2>2. l.name # "other"
    BY <2>1 DEF ItemNames
  <2>3. <<l.name>> \in Seq(Shown)
    BY <2>1, WordsShow
  <2>4. s = <<l.name>> \o y1
    BY <2>2 DEF LineText
  <2> QED BY <2>3, <2>4, RestShows
<1> DEFINE c == <<l.name>>
           d == <<"=">>
<1>2. c[1] = l.name /\ d[1] = "=" /\ Len(c) = 1 /\ Len(d) = 1
  OBVIOUS
<1> HIDE DEF s, y1, y2, y3, y4, c, d
<1>3. /\ v \in Nat /\ q \in Nat /\ Len(y4) = v + q
      /\ \A j \in 1 .. v : y4[j] = l.value[j]
      /\ \A j \in 1 .. q : y4[v + j] = l.tail[j]
  <2>1. \A a, b \in Seq(Shown) :
          /\ Len(a) \in Nat /\ Len(b) \in Nat /\ Len(a \o b) = Len(a) + Len(b)
          /\ \A j \in 1 .. Len(a) : (a \o b)[j] = a[j]
          /\ \A j \in 1 .. Len(b) : (a \o b)[Len(a) + j] = b[j]
    BY Joined
  <2> QED BY <1>1, <2>1, Zenon DEF y4
<1>4. /\ p \in Nat /\ Len(y3) = p + Len(y4)
      /\ \A j \in 1 .. p : y3[j] = l.pad[j]
      /\ \A j \in 1 .. Len(y4) : y3[p + j] = y4[j]
  BY <1>1, Joined DEF y3
<1>5. /\ Len(y2) = Len(d) + Len(y3)
      /\ \A j \in 1 .. Len(d) : y2[j] = d[j]
      /\ \A j \in 1 .. Len(y3) : y2[Len(d) + j] = y3[j]
  BY <1>1, Joined DEF d, y2
<1>6. /\ Len(y1) = p + Len(y2)
      /\ \A j \in 1 .. p : y1[j] = l.pad[j]
      /\ \A j \in 1 .. Len(y2) : y1[p + j] = y2[j]
  BY <1>1, Joined DEF y1
<1>7. /\ Len(s) = Len(c) + Len(y1)
      /\ \A j \in 1 .. Len(c) : s[j] = c[j]
      /\ \A j \in 1 .. Len(y1) : s[Len(c) + j] = y1[j]
  BY <1>1, Joined DEF c
<1> HIDE DEF p, v, q
<1>8. /\ Len(y4) = v + q /\ Len(y3) = p + v + q /\ Len(y2) = 1 + p + v + q /\ Len(y1) = 1 + p + p + v + q
      /\ Len(s) = 2 + p + p + v + q
  BY <1>2, <1>3, <1>4, <1>5, <1>6, <1>7
<1>9. \A j \in 1 .. Len(y1) : s[1 + j] = y1[j]
  BY <1>2, <1>7
<1>10. \A j \in 1 .. Len(y3) : y2[1 + j] = y3[j]
  BY <1>2, <1>5
<1>11. s[1] = l.name
  BY <1>2, <1>7
<1>12. \A j \in 1 .. p : s[1 + j] = l.pad[j]
  <2> SUFFICES ASSUME NEW j \in 1 .. p PROVE s[1 + j] = l.pad[j]
    OBVIOUS
  <2>1. j \in 1 .. Len(y1)
    BY <1>3, <1>4, <1>8
  <2> QED BY <1>6, <1>9, <2>1
<1>13. \A j \in 1 .. Len(y2) : s[1 + p + j] = y2[j]
  <2> SUFFICES ASSUME NEW j \in 1 .. Len(y2) PROVE s[1 + p + j] = y2[j]
    OBVIOUS
  <2>1. p + j \in 1 .. Len(y1) /\ 1 + (p + j) = 1 + p + j
    BY <1>3, <1>4, <1>8
  <2> QED BY <1>6, <1>9, <2>1
<1>14. s[2 + p] = "="
  <2>1. 1 \in 1 .. Len(y2) /\ 1 + p + 1 = 2 + p /\ y2[1] = "="
    BY <1>2, <1>3, <1>4, <1>5, <1>8
  <2> QED BY <1>13, <2>1
<1>15. \A j \in 1 .. Len(y3) : s[2 + p + j] = y3[j]
  <2> SUFFICES ASSUME NEW j \in 1 .. Len(y3) PROVE s[2 + p + j] = y3[j]
    OBVIOUS
  <2>1. 1 + j \in 1 .. Len(y2)
    <3>1. Len(y3) \in Nat /\ Len(y2) = 1 + Len(y3)
      BY <1>3, <1>4, <1>8
    <3> QED BY <3>1
  <2>2. 1 + p + (1 + j) = 2 + p + j
    BY <1>4
  <2> QED BY <1>10, <1>13, <2>1, <2>2
<1>16. \A j \in 1 .. p : s[2 + p + j] = l.pad[j]
  <2> SUFFICES ASSUME NEW j \in 1 .. p PROVE s[2 + p + j] = l.pad[j]
    OBVIOUS
  <2>1. j \in 1 .. Len(y3)
    BY <1>3, <1>4, <1>8
  <2> QED BY <1>4, <1>15, <2>1
<1>17. \A j \in 1 .. Len(y4) : s[2 + p + p + j] = y4[j]
  <2> SUFFICES ASSUME NEW j \in 1 .. Len(y4) PROVE s[2 + p + p + j] = y4[j]
    OBVIOUS
  <2>1. p + j \in 1 .. Len(y3) /\ 2 + p + (p + j) = 2 + p + p + j
    BY <1>3, <1>4, <1>8
  <2> QED BY <1>4, <1>15, <2>1
<1>18. \A j \in 1 .. v : s[2 + p + p + j] = l.value[j]
  <2> SUFFICES ASSUME NEW j \in 1 .. v PROVE s[2 + p + p + j] = l.value[j]
    OBVIOUS
  <2>1. j \in 1 .. Len(y4)
    BY <1>3, <1>8
  <2> QED BY <1>3, <1>17, <2>1
<1>19. \A j \in 1 .. q : s[2 + p + p + v + j] = l.tail[j]
  <2> SUFFICES ASSUME NEW j \in 1 .. q PROVE s[2 + p + p + v + j] = l.tail[j]
    OBVIOUS
  <2>1. v + j \in 1 .. Len(y4) /\ 2 + p + p + (v + j) = 2 + p + p + v + j
    BY <1>3, <1>4, <1>8
  <2> QED BY <1>3, <1>17, <2>1
<1> QED BY <1>3, <1>4, <1>8, <1>11, <1>12, <1>14, <1>16, <1>18, <1>19 DEF s, p, v, q

(* A part of a sequence, element by element.                               *)
LEMMA PartOf ==
  ASSUME NEW S, NEW t \in Seq(S), NEW a \in Nat, NEW n \in Nat, a + n =< Len(t)
  PROVE  /\ SubSeq(t, a + 1, a + n) \in Seq(S) /\ Len(SubSeq(t, a + 1, a + n)) = n
         /\ \A j \in 1 .. n : SubSeq(t, a + 1, a + n)[j] = t[a + j]
<1> DEFINE u == SubSeq(t, a + 1, a + n)
<1>1. Len(t) \in Nat /\ a + 1 \in Int /\ a + n \in Int
  OBVIOUS
<1>2. \A i \in a + 1 .. a + n : t[i] \in S
  <2> SUFFICES ASSUME NEW i \in a + 1 .. a + n PROVE t[i] \in S
    OBVIOUS
  <2>1. i \in 1 .. Len(t)
    BY <1>1
  <2> QED BY <2>1
<1>3. /\ u \in Seq(S)
      /\ Len(u) = IF a + 1 <= a + n THEN (a + n) - (a + 1) + 1 ELSE 0
      /\ \A i \in 1 .. (a + n) - (a + 1) + 1 : u[i] = t[(a + 1) + i - 1]
  BY <1>1, <1>2, SubSeqProperties
<1> HIDE DEF u
<1>4. Len(u) = n
  BY <1>3
<1>5. ASSUME NEW j \in 1 .. n PROVE u[j] = t[a + j]
  <2>1. j \in 1 .. (a + n) - (a + 1) + 1 /\ (a + 1) + j - 1 = a + j
    OBVIOUS
  <2> QED BY <1>3, <2>1
<1> QED BY <1>3, <1>4, <1>5 DEF u

(* Two parts with the same elements are the same.                          *)
LEMMA Cut ==
  ASSUME NEW S, NEW t \in Seq(S), NEW x \in Seq(S), NEW a \in Nat, NEW c \in Nat, NEW n \in Nat,
         a + n =< Len(t), c + n =< Len(x), \A j \in 1 .. n : t[a + j] = x[c + j]
  PROVE  SubSeq(t, a + 1, a + n) = SubSeq(x, c + 1, c + n)
<1> DEFINE u == SubSeq(t, a + 1, a + n)
           w == SubSeq(x, c + 1, c + n)
<1>1. u \in Seq(S) /\ Len(u) = n /\ \A j \in 1 .. n : u[j] = t[a + j]
  BY PartOf
<1>2. w \in Seq(S) /\ Len(w) = n /\ \A j \in 1 .. n : w[j] = x[c + j]
  BY PartOf
<1> HIDE DEF u, w
<1>3. \A j \in 1 .. Len(u) : u[j] = w[j]
  BY <1>1, <1>2
<1>4. u = w
  BY <1>1, <1>2, <1>3, SeqEqual
<1> QED BY <1>4 DEF u, w

(* Where a line lies in the text, character by character.                  *)
ReadAs(file, o, i) ==
  LET l == file.lines[i]
      t == Text(file)
      b == o[i - 1]
      p == Len(l.pad)
      v == Len(l.value)
      q == Len(l.tail)
  IN  /\ (WordLine(l) \/ BootLine(l)) /\ l.pad \in Seq({"SP", "TAB"})
      /\ b \in Nat /\ p \in Nat /\ v \in Nat /\ q \in Nat /\ Len(t) \in Nat
      /\ b + 2 + p + p + v + q =< Len(t)
      /\ At(t, b + 1) = l.name /\ At(t, b + 2 + p) = "="
      /\ \A j \in 1 .. p : At(t, b + 1 + j) = l.pad[j] /\ At(t, b + 2 + p + j) = l.pad[j]
      /\ \A j \in 1 .. v : At(t, b + 2 + p + p + j) = l.value[j]
      /\ \A j \in 1 .. q : At(t, b + 2 + p + p + v + j) = l.tail[j]
      /\ At(t, b + 2 + p + p + v + q + 1) \in LineEnds \cup {"NUL"}

(* What is read at the places of an item's line.                           *)
LEMMA Reads ==
  ASSUME NEW file, Written(file), NEW o, Lies(file, o), NEW i \in 1 .. Len(file.lines),
         file.lines[i].name \in ItemNames
  PROVE  ReadAs(file, o, i)
<1> DEFINE l == file.lines[i]
           t == Text(file)
           m == Len(file.lines)
           b == o[i - 1]
           p == Len(l.pad)
           v == Len(l.value)
           q == Len(l.tail)
           s == LineText(l)
           e == EndOfLine(file, i)
           y == PieceOf(file, i)
<1>1. (WordLine(l) \/ BootLine(l)) /\ l.pad \in Seq({"SP", "TAB"})
  <2>1. "other" \notin ItemNames
    BY DEF ItemNames
  <2> QED BY <2>1 DEF Written, AsWritten, OtherLine
<1>2. /\ p \in Nat /\ v \in Nat /\ q \in Nat /\ Len(s) = 2 + p + p + v + q
      /\ s[1] = l.name /\ s[2 + p] = "="
      /\ \A j \in 1 .. p : s[1 + j] = l.pad[j] /\ s[2 + p + j] = l.pad[j]
      /\ \A j \in 1 .. v : s[2 + p + p + j] = l.value[j]
      /\ \A j \in 1 .. q : s[2 + p + p + v + j] = l.tail[j]
  <2> HIDE DEF l
  <2> QED BY <1>1, Parts
<1>3. /\ b \in Nat /\ o[i] \in Nat /\ o[i] =< Len(t) /\ Len(t) \in Nat
      /\ Len(s) \in Nat /\ Len(e) \in Nat /\ o[i] = b + (Len(s) + Len(e))
      /\ \A j \in 1 .. Len(y) : At(t, b + j) = y[j]
  BY AtIs
<1>4. /\ Len(y) = Len(s) + Len(e)
      /\ \A j \in 1 .. Len(y) : IF j =< Len(s) THEN y[j] = s[j] ELSE y[j] \in LineEnds
  BY PieceIs
<1>5. e \in Seq(LineEnds) /\ (i < m => e # <<>>)
  BY LineShows
<1>6. m \in Nat /\ o[m] = Len(t) /\ i \in 1 .. m
  BY DEF Lies, Written
<1> HIDE DEF l, t, m, b, p, v, q, s, e, y
<1>7. \A j \in 1 .. Len(s) : At(t, b + j) = s[j]
  BY <1>3, <1>4
<1>8. b + 2 + p + p + v + q =< Len(t)
  BY <1>2, <1>3
<1>9. At(t, b + 1) = l.name /\ At(t, b + 2 + p) = "="
  <2>1. 1 \in 1 .. Len(s) /\ 2 + p \in 1 .. Len(s) /\ b + (2 + p) = b + 2 + p
    BY <1>2, <1>3
  <2> QED BY <1>2, <1>7, <2>1
<1>10. ASSUME NEW j \in 1 .. p PROVE At(t, b + 1 + j) = l.pad[j] /\ At(t, b + 2 + p + j) = l.pad[j]
  <2>1. 1 + j \in 1 .. Len(s) /\ b + (1 + j) = b + 1 + j
    BY <1>2, <1>3
  <2>2. 2 + p + j \in 1 .. Len(s) /\ b + (2 + p + j) = b + 2 + p + j
    BY <1>2, <1>3
  <2>3. s[1 + j] = l.pad[j] /\ s[2 + p + j] = l.pad[j]
    BY <1>2
  <2> QED BY <1>7, <2>1, <2>2, <2>3
<1>11. ASSUME NEW j \in 1 .. v PROVE At(t, b + 2 + p + p + j) = l.value[j]
  <2>1. 2 + p + p + j \in 1 .. Len(s) /\ b + (2 + p + p + j) = b + 2 + p + p + j
    BY <1>2, <1>3
  <2> QED BY <1>2, <1>7, <2>1
<1>12. ASSUME NEW j \in 1 .. q PROVE At(t, b + 2 + p + p + v + j) = l.tail[j]
  <2>1. 2 + p + p + v + j \in 1 .. Len(s) /\ b + (2 + p + p + v + j) = b + 2 + p + p + v + j
    BY <1>2, <1>3
  <2> QED BY <1>2, <1>7, <2>1
<1>13. At(t, b + 2 + p + p + v + q + 1) \in LineEnds \cup {"NUL"}
  <2>1. b + 2 + p + p + v + q + 1 = b + (Len(s) + 1)
    BY <1>2, <1>3
  <2>2. CASE Len(e) >= 1
    <3>1. Len(s) + 1 \in 1 .. Len(y) /\ ~(Len(s) + 1 =< Len(s))
      BY <1>3, <1>4, <2>2
    <3> QED BY <1>3, <1>4, <2>1, <3>1
  <2>3. CASE ~(Len(e) >= 1)
    <3>1. e = <<>>
      BY <1>3, <1>5, <2>3
    <3>2. i = m
      BY <1>5, <1>6, <3>1
    <3>3. ~(b + (Len(s) + 1) =< Len(t))
      BY <1>3, <1>6, <2>3, <3>2
    <3>4. At(t, b + (Len(s) + 1)) = "NUL"
      BY <3>3 DEF At
    <3> QED BY <2>1, <3>4
  <2> QED BY <2>2, <2>3
<1> QED BY <1>1, <1>2, <1>3, <1>8, <1>9, <1>10, <1>11, <1>12, <1>13 DEF ReadAs, l, t, b, p, v, q

(* The value that is found is that of the item's first line. *)
LEMMA ValueIs ==
  ASSUME NEW file, Written(file), NEW o, Lies(file, o), NEW item \in ItemNames, LinesOf(file, item) # {}
  PROVE  LET i == Least(LinesOf(file, item))
             p == Len(file.lines[i].pad)
         IN  ValueOf(Text(file), item) = o[i - 1] + 2 + p + p + 1
<1> DEFINE i == Least(LinesOf(file, item))
           l == file.lines[i]
           t == Text(file)
           b == o[i - 1]
           p == Len(l.pad)
           v == Len(l.value)
           q == Len(l.tail)
           found == {x \in Starts(t) : At(t, x) = item}
<1>1. i \in LinesOf(file, item) /\ Least(found) = b + 1
  BY FoundAtLines, FirstFound
<1>2. found # {}
  BY <1>1, FoundAtLines
<1>3. i \in 1 .. Len(file.lines) /\ l.name = item
  BY <1>1 DEF LinesOf
<1>4. /\ (WordLine(l) \/ BootLine(l)) /\ l.pad \in Seq({"SP", "TAB"})
      /\ b \in Nat /\ p \in Nat /\ v \in Nat /\ q \in Nat /\ Len(t) \in Nat
      /\ b + 2 + p + p + v + q =< Len(t)
      /\ At(t, b + 2 + p) = "="
      /\ \A j \in 1 .. p : At(t, b + 1 + j) = l.pad[j] /\ At(t, b + 2 + p + j) = l.pad[j]
      /\ \A j \in 1 .. v : At(t, b + 2 + p + p + j) = l.value[j]
  <2>1. i \in 1 .. Len(file.lines) /\ file.lines[i].name \in ItemNames
    BY <1>3
  <2>2. ReadAs(file, o, i)
    <3> HIDE DEF i
    <3> QED BY <2>1, Reads
  <2> HIDE DEF i
  <2> QED BY <2>2, Zenon DEF ReadAs
<1>5. v >= 1 /\ l.value[1] \notin Blanks
  <2>1. CASE WordLine(l)
    <3>1. l.value \in Seq(Digits) /\ l.value # <<>>
      BY <2>1 DEF WordLine
    <3>2. v >= 1 /\ l.value[1] \in Digits
      BY <3>1
    <3> QED BY <3>2, DigitsAre
  <2>2. CASE BootLine(l)
    <3>1. l.value \in Seq(Shown \ {"TAB"}) /\ l.value # <<>> /\ l.value[1] # "SP"
      BY <2>2 DEF BootLine
    <3>2. v >= 1 /\ l.value[1] \in Shown \ {"TAB"}
      BY <3>1
    <3> QED BY <3>1, <3>2, WordsShow DEF Blanks
  <2> QED BY <1>4, <2>1, <2>2
<1> HIDE DEF i, l, t, b, p, v, q, found
<1>6. \A j \in 1 .. p : l.pad[j] \in Blanks
  BY <1>4 DEF Blanks, p
<1>7. "=" \notin Blanks
  BY DEF Blanks, LineEnds
<1>8. Beyond(t, (b + 1) + 1, Blanks) = b + 2 + p
  <2>1. ASSUME NEW j \in (b + 1) + 1 .. (b + 2 + p) - 1 PROVE At(t, j) \in Blanks
    <3> DEFINE k == j - (b + 1)
    <3>1. k \in 1 .. p /\ b + 1 + k = j
      BY <1>4
    <3> QED BY <1>4, <1>6, <3>1
  <2>2. (b + 1) + 1 \in Nat /\ b + 2 + p \in Nat /\ (b + 1) + 1 =< b + 2 + p /\ b + 2 + p =< Len(t) + 1
    BY <1>4
  <2>3. At(t, b + 2 + p) \notin Blanks
    BY <1>4, <1>7
  <2> DEFINE x == (b + 1) + 1
             y == b + 2 + p
  <2>4. /\ x \in Nat /\ y \in Nat /\ x =< y /\ y =< Len(t) + 1 /\ At(t, y) \notin Blanks
        /\ \A j \in x .. y - 1 : At(t, j) \in Blanks
    BY <2>1, <2>2, <2>3
  <2>5. Len(t) \in Nat
    BY <1>4
  <2> HIDE DEF x, y
  <2>6. Beyond(t, x, Blanks) = y
    BY <2>4, <2>5, BeyondIs
  <2> QED BY <2>6 DEF x, y
<1>9. Beyond(t, (b + 2 + p) + 1, Blanks) = b + 2 + p + p + 1
  <2>1. ASSUME NEW j \in (b + 2 + p) + 1 .. (b + 2 + p + p + 1) - 1 PROVE At(t, j) \in Blanks
    <3> DEFINE k == j - (b + 2 + p)
    <3>1. k \in 1 .. p /\ b + 2 + p + k = j
      BY <1>4
    <3> QED BY <1>4, <1>6, <3>1
  <2>2. /\ (b + 2 + p) + 1 \in Nat /\ b + 2 + p + p + 1 \in Nat
        /\ (b + 2 + p) + 1 =< b + 2 + p + p + 1 /\ b + 2 + p + p + 1 =< Len(t) + 1
    BY <1>4
  <2>3. At(t, b + 2 + p + p + 1) \notin Blanks
    <3>1. 1 \in 1 .. v
      BY <1>4, <1>5
    <3> QED BY <1>4, <1>5, <3>1
  <2> DEFINE x == (b + 2 + p) + 1
             y == b + 2 + p + p + 1
  <2>4. /\ x \in Nat /\ y \in Nat /\ x =< y /\ y =< Len(t) + 1 /\ At(t, y) \notin Blanks
        /\ \A j \in x .. y - 1 : At(t, j) \in Blanks
    BY <2>1, <2>2, <2>3
  <2>5. Len(t) \in Nat
    BY <1>4
  <2> HIDE DEF x, y
  <2>6. Beyond(t, x, Blanks) = y
    BY <2>4, <2>5, BeyondIs
  <2> QED BY <2>6 DEF x, y
<1>10. ValueOf(t, item) = Beyond(t, Beyond(t, Least(found) + 1, Blanks) + 1, Blanks)
  <2>1. At(t, Beyond(t, Least(found) + 1, Blanks)) = "="
    BY <1>1, <1>4, <1>8
  <2> QED BY <1>2, <2>1 DEF ValueOf, found
<1>11. ValueOf(t, item) = b + 2 + p + p + 1
  BY <1>1, <1>8, <1>9, <1>10
<1> QED BY <1>11 DEF i, l, t, b, p

(* An item without a line is not found.                                    *)
LEMMA NoValue ==
  ASSUME NEW file, Written(file), NEW item \in ItemNames, LinesOf(file, item) = {}
  PROVE  ValueOf(Text(file), item) = 0
<1>1. PICK o : Lies(file, o)
  BY TextLies
<1>2. {x \in Starts(Text(file)) : At(Text(file), x) = item} = {}
  BY <1>1, FoundAtLines
<1> QED BY <1>2 DEF ValueOf

(* findWordItem finds the number that was meant.                           *)
LEMMA FindsWord ==
  ASSUME NEW file, Written(file), NEW item \in {"TCB", "EVENT", "STACK"}
  PROVE  /\ findWordItem(Text(file), item) = MeantWord(file, item)
         /\ findWordItem(Text(file), item) \in 0 .. WordSize - 1
<1>0. item \in ItemNames /\ item # "BOOT"
  BY DEF ItemNames
<1>1. CASE LinesOf(file, item) = {}
  <2>1. ValueOf(Text(file), item) = 0
    BY <1>0, <1>1, NoValue
  <2>2. findWordItem(Text(file), item) = 0 /\ MeantWord(file, item) = 0
    BY <1>1, <2>1 DEF findWordItem, MeantWord
  <2> QED BY <2>2, CnfAssumption DEF CnfAssumption
<1>2. CASE LinesOf(file, item) # {}
  <2>1. PICK o : Lies(file, o)
    BY TextLies
  <2> DEFINE i == Least(LinesOf(file, item))
             l == file.lines[i]
             t == Text(file)
             b == o[i - 1]
             p == Len(l.pad)
             v == Len(l.value)
             q == Len(l.tail)
             a == b + 2 + p + p
  <2>2. i \in 1 .. Len(file.lines) /\ l.name = item
    <3>1. i \in LinesOf(file, item)
      BY <1>0, <1>2, <2>1, FirstFound
    <3> QED BY <3>1 DEF LinesOf
  <2>3. /\ (WordLine(l) \/ BootLine(l))
        /\ b \in Nat /\ p \in Nat /\ v \in Nat /\ q \in Nat /\ Len(t) \in Nat
        /\ b + 2 + p + p + v + q =< Len(t)
        /\ \A j \in 1 .. v : At(t, b + 2 + p + p + j) = l.value[j]
        /\ At(t, b + 2 + p + p + v + q + 1) \in LineEnds \cup {"NUL"}
    <3>1. i \in 1 .. Len(file.lines) /\ file.lines[i].name \in ItemNames
      BY <1>0, <2>2
    <3>2. ReadAs(file, o, i)
      <4> HIDE DEF i
      <4> QED BY <2>1, <3>1, Reads
    <3> HIDE DEF i
    <3> QED BY <3>2, Zenon DEF ReadAs
  <2>4. ValueOf(t, item) = a + 1
    BY <1>0, <1>2, <2>1, ValueIs
  <2>5. t \in Seq(Char)
    BY <2>1 DEF Lies
  <2> HIDE DEF i, l, t, b, p, v, q
  <2>6. l.value \in Seq(Digits) /\ q = 0
    <3>1. WordLine(l)
      BY <1>0, <2>2, <2>3 DEF BootLine
    <3> QED BY <3>1 DEF WordLine, q
  <2>7. a \in Nat /\ a + v =< Len(t) /\ (\A j \in 1 .. v : At(t, a + j) = l.value[j])
        /\ At(t, a + v + 1) \in LineEnds \cup {"NUL"}
    BY <2>3, <2>6
  <2> HIDE DEF a
  <2>8. Beyond(t, a + 1, Digits) = a + v + 1
    <3>1. ASSUME NEW j \in a + 1 .. (a + v + 1) - 1 PROVE At(t, j) \in Digits
      <4> DEFINE k == j - a
      <4>1. k \in 1 .. v /\ a + k = j
        BY <2>3, <2>7
      <4>2. l.value[k] \in Digits
        BY <2>6, <4>1 DEF v
      <4> QED BY <2>7, <4>1, <4>2
    <3>2. a + 1 \in Nat /\ a + v + 1 \in Nat /\ a + 1 =< a + v + 1 /\ a + v + 1 =< Len(t) + 1
      BY <2>3, <2>7
    <3>3. At(t, a + v + 1) \notin Digits
      BY <2>7, DigitsAre DEF Blanks
    <3> QED BY <2>3, <3>1, <3>2, <3>3, BeyondIs
  <2>9. SubSeq(t, a + 1, (a + v + 1) - 1) = l.value
    <3>1. (a + v + 1) - 1 = a + v /\ 0 + v = v /\ 0 + 1 = 1 /\ v = Len(l.value)
      BY <2>3, <2>7 DEF v
    <3>2. \A j \in 1 .. v : t[a + j] = l.value[0 + j]
      <4> SUFFICES ASSUME NEW j \in 1 .. v PROVE t[a + j] = l.value[0 + j]
        OBVIOUS
      <4>1. a + j =< Len(t) /\ 0 + j = j
        BY <2>3, <2>7
      <4> QED BY <2>7, <4>1 DEF At
    <3>3. l.value \in Seq(Char)
      <4>1. Digits \subseteq Char
        BY WordsShow
      <4> QED BY <2>6, <4>1, SeqMonotonic
    <3>4. SubSeq(t, a + 1, a + v) = SubSeq(l.value, 0 + 1, 0 + v)
      <4>1. 0 \in Nat /\ 0 + v =< Len(l.value)
        BY <2>3, <3>1
      <4> QED BY <2>3, <2>5, <2>7, <3>2, <3>3, <4>1, Cut
    <3>5. SubSeq(l.value, 1, v) = l.value
      BY <2>6, <3>1, SubSeqFull
    <3> QED BY <3>1, <3>4, <3>5
  <2>10. findWordItem(t, item) = Number(l.value)
    <3>1. a + 1 # 0
      BY <2>7
    <3> QED BY <2>4, <2>7, <2>8, <2>9, <3>1 DEF findWordItem
  <2>11. MeantWord(file, item) = Sum(l.value) % WordSize
    BY <1>2 DEF MeantWord, Meaning, l, i
  <2> QED BY <2>6, <2>10, <2>11, NumberIsSum DEF t
<1> QED BY <1>1, <1>2

(* The argument as long as it may be, counted from either side.            *)
LEMMA Shortened ==
  ASSUME NEW q \in Nat, NEW A \in Nat, NEW z \in Nat, q >= 1
  PROVE  LET n == IF q > A + 1 THEN A ELSE q - 1
         IN  /\ (IF (z + q) - 1 - z > A THEN z + A ELSE (z + q) - 1) = z + n
             /\ (IF q > A + 1 THEN A + 1 ELSE q) = 1 + n
<1>1. CASE q > A + 1
  <2>1. (z + q) - 1 - z > A
    BY <1>1
  <2> QED BY <1>1, <2>1
<1>2. CASE ~(q > A + 1)
  <2>1. ~((z + q) - 1 - z > A) /\ (z + q) - 1 = z + (q - 1) /\ q = 1 + (q - 1)
    BY <1>2
  <2> QED BY <1>2, <2>1
<1> QED BY <1>1, <1>2

(* findStringItem finds the path and the argument that were meant.         *)
LEMMA FindsBoot ==
  ASSUME NEW file, Written(file)
  PROVE  /\ findStringItem(Text(file), "BOOT") = MeantBoot(file)
         /\ Len(findStringItem(Text(file), "BOOT").arg) =< ArgSize
<1>0. "BOOT" \in ItemNames /\ ArgSize \in Nat
  BY CnfAssumption DEF ItemNames, CnfAssumption
<1>1. CASE LinesOf(file, "BOOT") = {}
  <2>1. ValueOf(Text(file), "BOOT") = 0
    BY <1>0, <1>1, NoValue
  <2>2. findStringItem(Text(file), "BOOT") = [path |-> <<>>, arg |-> <<>>]
    BY <2>1 DEF findStringItem
  <2>3. MeantBoot(file) = [path |-> <<>>, arg |-> <<>>]
    BY <1>1 DEF MeantBoot
  <2>4. Len(<<>>) =< ArgSize
    BY <1>0
  <2> QED BY <2>2, <2>3, <2>4
<1>2. CASE LinesOf(file, "BOOT") # {}
  <2>1. PICK o : Lies(file, o)
    BY TextLies
  <2> DEFINE i == Least(LinesOf(file, "BOOT"))
             l == file.lines[i]
             t == Text(file)
             b == o[i - 1]
             p == Len(l.pad)
             v == Len(l.value)
             q == Len(l.tail)
             a == b + 2 + p + p
             z == a + v + 1
  <2>2. i \in 1 .. Len(file.lines) /\ l.name = "BOOT"
    <3>1. i \in LinesOf(file, "BOOT")
      BY <1>0, <1>2, <2>1, FirstFound
    <3> QED BY <3>1 DEF LinesOf
  <2>3. /\ (WordLine(l) \/ BootLine(l))
        /\ b \in Nat /\ p \in Nat /\ v \in Nat /\ q \in Nat /\ Len(t) \in Nat
        /\ b + 2 + p + p + v + q =< Len(t)
        /\ \A j \in 1 .. v : At(t, b + 2 + p + p + j) = l.value[j]
        /\ \A j \in 1 .. q : At(t, b + 2 + p + p + v + j) = l.tail[j]
        /\ At(t, b + 2 + p + p + v + q + 1) \in LineEnds \cup {"NUL"}
    <3>1. i \in 1 .. Len(file.lines) /\ file.lines[i].name \in ItemNames
      BY <1>0, <2>2
    <3>2. ReadAs(file, o, i)
      <4> HIDE DEF i
      <4> QED BY <2>1, <3>1, Reads
    <3> HIDE DEF i
    <3> QED BY <3>2, Zenon DEF ReadAs
  <2>4. ValueOf(t, "BOOT") = a + 1
    BY <1>0, <1>2, <2>1, ValueIs
  <2>5. t \in Seq(Char)
    BY <2>1 DEF Lies
  <2>51. MeantBoot(file) =
           [path |-> l.value,
            arg |-> IF l.tail = <<>> THEN <<>>
                    ELSE SubSeq(l.tail, 2, IF q > ArgSize + 1 THEN ArgSize + 1 ELSE q)]
    BY <1>2 DEF MeantBoot, Meaning
  <2> HIDE DEF i, l, t, b, p, v, q
  <2>6. /\ l.value \in Seq(Shown \ {"TAB"}) /\ l.tail \in Seq(Shown) /\ (l.tail # <<>> => l.tail[1] = "TAB")
    BY <2>2, <2>3 DEF WordLine, BootLine
  <2>7. a \in Nat /\ a + v + q =< Len(t)
        /\ (\A j \in 1 .. v : At(t, a + j) = l.value[j])
        /\ (\A j \in 1 .. q : At(t, a + v + j) = l.tail[j])
        /\ At(t, a + v + q + 1) \in LineEnds \cup {"NUL"}
    BY <2>3
  <2> HIDE DEF a
  <2>70. a \in Nat /\ v \in Nat /\ q \in Nat /\ Len(t) \in Nat /\ a + v + q =< Len(t)
    BY <2>3, <2>7
  <2>71. z \in Nat
    BY <2>70
  <2>8. z \in Nat /\ z + q = a + v + q + 1 /\ a + v =< Len(t) /\ z - 1 = a + v /\ q = Len(l.tail) /\ v = Len(l.value)
    <3>1. q = Len(l.tail) /\ v = Len(l.value)
      BY DEF q, v
    <3>2. z \in Nat /\ z + q = a + v + q + 1 /\ a + v =< Len(t) /\ z - 1 = a + v
      BY <2>70
    <3> QED BY <3>1, <3>2
  <2>9. At(t, z) \in {"TAB"} \cup LineEnds \cup {"NUL"} /\ (At(t, z) = "TAB" <=> l.tail # <<>>)
    <3>1. CASE q = 0
      <4>1. l.tail = <<>>
        BY <2>6, <3>1 DEF q
      <4>2. At(t, z) \in LineEnds \cup {"NUL"}
        BY <2>3, <2>7, <3>1
      <4> QED BY <4>1, <4>2 DEF LineEnds
    <3>2. CASE q # 0
      <4>1. l.tail # <<>>
        BY <3>2 DEF q
      <4>2. 1 \in 1 .. q /\ a + v + 1 = z
        BY <2>3, <3>2
      <4> QED BY <2>6, <2>7, <4>1, <4>2
    <3> QED BY <3>1, <3>2
  <2>10. UpTo(t, a + 1, {"TAB"} \cup LineEnds) = z
    <3>1. ASSUME NEW j \in a + 1 .. z - 1 PROVE At(t, j) \notin ({"TAB"} \cup LineEnds) \cup {"NUL"}
      <4> DEFINE k == j - a
      <4>1. k \in 1 .. v /\ a + k = j
        BY <2>70
      <4>2. l.value[k] \in Shown \ {"TAB"}
        BY <2>6, <4>1 DEF v
      <4> QED BY <2>7, <4>1, <4>2, WordsShow
    <3>2. a + 1 \in Nat /\ a + 1 =< z /\ z =< Len(t) + 1
      BY <2>3, <2>7
    <3> DEFINE chars == {"TAB"} \cup LineEnds
    <3> DEFINE x == a + 1
    <3>3. /\ x \in Nat /\ x =< z /\ z =< Len(t) + 1 /\ At(t, z) \in chars \cup {"NUL"}
          /\ \A j \in x .. z - 1 : At(t, j) \notin chars \cup {"NUL"}
      BY <2>9, <3>1, <3>2
    <3> HIDE DEF chars, x, z
    <3>4. UpTo(t, x, chars) = z
      BY <2>70, <2>71, <3>3, UpToIs
    <3> QED BY <3>4 DEF chars, x
  <2>11. UpTo(t, z, LineEnds) = z + q
    <3>1. ASSUME NEW j \in z .. (z + q) - 1 PROVE At(t, j) \notin LineEnds \cup {"NUL"}
      <4> DEFINE k == j - (a + v)
      <4>1. k \in 1 .. q /\ a + v + k = j
        BY <2>70
      <4>2. l.tail[k] \in Shown
        BY <2>6, <4>1 DEF q
      <4> QED BY <2>7, <4>1, <4>2, WordsShow
    <3>2. z + q \in Nat /\ z =< z + q /\ z + q =< Len(t) + 1
      BY <2>3, <2>7
    <3>3. At(t, z + q) \in LineEnds \cup {"NUL"}
      BY <2>7, <2>8
    <3> DEFINE y == z + q
    <3>4. /\ y \in Nat /\ z =< y /\ y =< Len(t) + 1 /\ At(t, y) \in LineEnds \cup {"NUL"}
          /\ \A j \in z .. y - 1 : At(t, j) \notin LineEnds \cup {"NUL"}
      BY <3>1, <3>2, <3>3
    <3> HIDE DEF z, y
    <3>5. UpTo(t, z, LineEnds) = y
      BY <2>70, <2>71, <3>4, UpToIs
    <3> QED BY <3>5 DEF y
  <2>12. \A j \in 1 .. v : t[a + j] = l.value[0 + j]
    <3> SUFFICES ASSUME NEW j \in 1 .. v PROVE t[a + j] = l.value[0 + j]
      OBVIOUS
    <3>1. a + j =< Len(t) /\ 0 + j = j
      BY <2>3, <2>7
    <3> QED BY <2>7, <3>1 DEF At
  <2>13. \A j \in 1 .. q : t[a + v + j] = l.tail[j]
    <3> SUFFICES ASSUME NEW j \in 1 .. q PROVE t[a + v + j] = l.tail[j]
      OBVIOUS
    <3>1. a + v + j =< Len(t)
      BY <2>3, <2>7
    <3> QED BY <2>7, <3>1 DEF At
  <2>14. l.value \in Seq(Char) /\ l.tail \in Seq(Char)
    <3>1. Shown \ {"TAB"} \subseteq Char /\ Shown \subseteq Char
      BY WordsShow
    <3> QED BY <2>6, <3>1, SeqMonotonic
  <2>15. SubSeq(t, a + 1, z - 1) = l.value
    <3>1. SubSeq(t, a + 1, a + v) = SubSeq(l.value, 0 + 1, 0 + v)
      <4>1. 0 \in Nat /\ 0 + v =< Len(l.value)
        BY <2>3, <2>8
      <4> QED BY <2>3, <2>5, <2>7, <2>8, <2>12, <2>14, <4>1, Cut
    <3>2. 0 + 1 = 1 /\ 0 + v = v
      BY <2>3
    <3>3. SubSeq(l.value, 1, v) = l.value
      BY <2>8, <2>14, SubSeqFull
    <3> QED BY <2>8, <3>1, <3>2, <3>3
  <2> DEFINE n == IF q > ArgSize + 1 THEN ArgSize ELSE q - 1
  <2>16. CASE l.tail = <<>>
    <3>1. findStringItem(t, "BOOT") = [path |-> l.value, arg |-> <<>>]
      <4>1. a + 1 # 0 /\ At(t, z) # "TAB"
        BY <2>7, <2>9, <2>16
      <4> HIDE DEF z
      <4> QED BY <2>4, <2>10, <2>15, <4>1 DEF findStringItem
    <3>2. Len(<<>>) =< ArgSize
      BY <1>0
    <3> QED BY <2>16, <2>51, <3>1, <3>2 DEF t
  <2>17. CASE l.tail # <<>>
    <3>1. q >= 1
      BY <2>3, <2>6, <2>8, <2>17
    <3>2. n \in Nat /\ n =< ArgSize /\ 1 + n =< q
      BY <1>0, <2>3, <3>1
    <3>3. /\ (IF (z + q) - 1 - z > ArgSize THEN z + ArgSize ELSE (z + q) - 1) = z + n
          /\ (IF q > ArgSize + 1 THEN ArgSize + 1 ELSE q) = 1 + n
      <4>1. z \in Nat /\ q \in Nat /\ ArgSize \in Nat
        BY <1>0, <2>70, <2>71
      <4> HIDE DEF z
      <4> QED BY <3>1, <4>1, Shortened
    <3>4. \A j \in 1 .. n : t[z + j] = l.tail[1 + j]
      <4> SUFFICES ASSUME NEW j \in 1 .. n PROVE t[z + j] = l.tail[1 + j]
        OBVIOUS
      <4>1. 1 + j \in 1 .. q /\ a + v + (1 + j) = z + j
        BY <2>3, <2>7, <3>2
      <4> QED BY <2>13, <4>1
    <3>5. z + n =< Len(t) /\ 1 + n =< Len(l.tail)
      <4>1. z + n =< Len(t)
        BY <2>70, <3>2
      <4>2. 1 + n =< q
        BY <3>2
      <4> QED BY <2>8, <4>1, <4>2
    <3> HIDE DEF n, z
    <3>6. SubSeq(t, z + 1, z + n) = SubSeq(l.tail, 1 + 1, 1 + n)
      <4>1. 1 \in Nat /\ z \in Nat
        BY <2>8
      <4>2. l.tail \in Seq(Char) /\ t \in Seq(Char) /\ n \in Nat
        BY <2>5, <2>14, <3>2
      <4>3. \A x \in Seq(Char), y \in Seq(Char), e \in Nat, c \in Nat, m \in Nat :
              e + m =< Len(x) /\ c + m =< Len(y) /\ (\A j \in 1 .. m : x[e + j] = y[c + j])
                => SubSeq(x, e + 1, e + m) = SubSeq(y, c + 1, c + m)
        BY Cut
      <4> DEFINE x == l.tail
      <4>4. x \in Seq(Char) /\ 1 + n =< Len(x) /\ \A j \in 1 .. n : t[z + j] = x[1 + j]
        BY <3>4, <3>5, <4>2
      <4> HIDE DEF x, z
      <4>5. \A e \in Nat, c \in Nat, m \in Nat :
              e + m =< Len(t) /\ c + m =< Len(x) /\ (\A j \in 1 .. m : t[e + j] = x[c + j])
                => SubSeq(t, e + 1, e + m) = SubSeq(x, c + 1, c + m)
        BY <4>2, <4>3, <4>4
      <4>6. SubSeq(t, z + 1, z + n) = SubSeq(x, 1 + 1, 1 + n)
        BY <3>5, <4>1, <4>2, <4>4, <4>5
      <4> QED BY <4>6 DEF x
    <3>7. Len(SubSeq(t, z + 1, z + n)) = n
      BY <2>5, <2>8, <3>2, <3>5, PartOf
    <3>8. findStringItem(t, "BOOT") = [path |-> l.value, arg |-> SubSeq(t, z + 1, z + n)]
      <4>1. a + 1 # 0 /\ At(t, z) = "TAB"
        BY <2>7, <2>9, <2>17
      <4> QED BY <2>4, <2>10, <2>11, <2>15, <3>3, <4>1 DEF findStringItem
    <3>9. MeantBoot(file) = [path |-> l.value, arg |-> SubSeq(l.tail, 1 + 1, 1 + n)]
      <4>1. 1 + 1 = 2
        OBVIOUS
      <4>2. (IF q > ArgSize + 1 THEN ArgSize + 1 ELSE q) = 1 + n
        BY <3>3
      <4>3. MeantBoot(file) =
              [path |-> l.value, arg |-> SubSeq(l.tail, 2, IF q > ArgSize + 1 THEN ArgSize + 1 ELSE q)]
        BY <2>17, <2>51
      <4> QED BY <4>1, <4>2, <4>3, Zenon
    <3>10. findStringItem(t, "BOOT") = MeantBoot(file) /\ Len(findStringItem(t, "BOOT").arg) = n
      <4> DEFINE f == findStringItem(t, "BOOT")
                 u == SubSeq(t, z + 1, z + n)
      <4>1. f = [path |-> l.value, arg |-> u] /\ MeantBoot(file) = [path |-> l.value, arg |-> u]
        BY <3>6, <3>8, <3>9
      <4>2. Len(u) = n
        BY <3>7
      <4> HIDE DEF f, u
      <4>3. f = MeantBoot(file) /\ f.arg = u
        BY <4>1
      <4> QED BY <4>2, <4>3 DEF f
    <3>11. Len(findStringItem(t, "BOOT").arg) =< ArgSize
      BY <3>2, <3>10
    <3> QED BY <3>10, <3>11 DEF t
  <2> QED BY <2>16, <2>17
<1> QED BY <1>1, <1>2

(* What loadSystemCnf reads of a file is what its author meant, whatever   *)
(* the lines and their order (openbios/main/main.c).                       *)
THEOREM LoadsAsMeant ==
  ASSUME NEW file, Written(file)
  PROVE  /\ loadSystemCnf(Text(file)) = MeantCnf(file)
         /\ {MeantCnf(file).tasks, MeantCnf(file).events, MeantCnf(file).stack} \subseteq 0 .. WordSize - 1
         /\ Len(MeantCnf(file).boot.arg) =< ArgSize
<1> DEFINE t == Text(file)
<1>1. \A item \in {"TCB", "EVENT", "STACK"} :
        findWordItem(t, item) = MeantWord(file, item) /\ MeantWord(file, item) \in 0 .. WordSize - 1
  BY FindsWord
<1>2. findStringItem(t, "BOOT") = MeantBoot(file) /\ Len(MeantBoot(file).arg) =< ArgSize
  BY FindsBoot
<1> HIDE DEF t
<1>3. loadSystemCnf(t) = MeantCnf(file)
  BY <1>1, <1>2 DEF loadSystemCnf, MeantCnf
<1>4. {MeantCnf(file).tasks, MeantCnf(file).events, MeantCnf(file).stack} \subseteq 0 .. WordSize - 1
  BY <1>1 DEF MeantCnf
<1> QED BY <1>2, <1>3, <1>4 DEF MeantCnf, t

(* Nothing is read of an empty text. *)
LEMMA LoadsNothing ==
  loadSystemCnf(<<>>) = [tasks |-> 0, events |-> 0, stack |-> 0, boot |-> [path |-> <<>>, arg |-> <<>>]]
<1> DEFINE t == <<>>
<1>1. \A item \in ItemNames : ValueOf(t, item) = 0
  <2> SUFFICES ASSUME NEW item \in ItemNames PROVE ValueOf(t, item) = 0
    OBVIOUS
  <2>1. item # "NUL"
    BY DEF ItemNames
  <2>2. Starts(t) = {1}
    BY DEF Starts
  <2>3. At(t, 1) = "NUL"
    BY DEF At
  <2> HIDE DEF t
  <2>4. {x \in Starts(t) : At(t, x) = item} = {}
    BY <2>1, <2>2, <2>3
  <2> QED BY <2>4 DEF ValueOf
<1> HIDE DEF t
<1>2. \A item \in ItemNames : findWordItem(t, item) = 0
  BY <1>1 DEF findWordItem
<1>3. findStringItem(t, "BOOT") = [path |-> <<>>, arg |-> <<>>]
  BY <1>1 DEF findStringItem, ItemNames
<1>4. findWordItem(t, "TCB") = 0 /\ findWordItem(t, "EVENT") = 0 /\ findWordItem(t, "STACK") = 0
  BY <1>2 DEF ItemNames
<1> QED BY <1>3, <1>4 DEF loadSystemCnf, t

-----------------------------------------------------------------------------

(* What holds at each step of the boot: before SYSTEM.CNF is read nothing   *)
(* has come of it; from kernelSetup on the configuration is what it should  *)
(* be, or that of a failed read, which names no program.                    *)
Early == {"startShell", "runExp1PostHook", "openCnf", "readCnf"}
Loads == {"openProgram", "readHeader", "readText"}
Late == {"kernelSetup", "exec"} \cup Loads
Found == {"readHeader", "readText", "exec"}

Meant == CASE cnfSize = "some" -> MeantCnf(cnf)
           [] cnfSize = "none" -> DefaultWith(conf.boot.arg)
           [] OTHER -> DefaultWith(<<>>)

BeforeCnf == step \in Early =>
  cnfSize = "unread" /\ descriptors = IF step = "readCnf" THEN {"cnf"} ELSE {}
AtCnf == step = "loadSystemCnf" => cnfSize \in {"some", "failed"} /\ descriptors = {}
AfterCnf == step \in Late =>
  /\ conf = Meant \/ (cnfSize = "failed" /\ conf.boot.path = <<>>)
  /\ step # "kernelSetup" => kernel = conf
  /\ step \in Found => conf.boot.path # <<>>
  /\ cnfSize # "none" /\ (ended = "not" \/ step = "exec") =>
       descriptors = IF step \in {"readHeader", "readText"} THEN {"program"} ELSE {}
CodeIsSet == step \notin {"loadSystemCnf", "kernelSetup"} =>
  code \in Codes(step) /\ (step \in Loads => code = "389")

BootInv ==
  /\ BootTypeOK /\ CodeTellsStep /\ step \in Early \cup {"loadSystemCnf"} \cup Late
  /\ BeforeCnf /\ AtCnf /\ AfterCnf /\ CodeIsSet

(* Every file there may be is one that its author wrote.                   *)
LEMMA FilesAreWritten == \A file \in CnfFiles : Written(file)
<1> SUFFICES ASSUME NEW file \in CnfFiles PROVE Written(file)
  OBVIOUS
<1>1. /\ file \in [lines : Seq([name : ItemNames \cup {"other"}, value : Seq(Shown), pad : Seq(Shown),
                                tail : Seq(Shown)]),
                   end : Seq(LineEnds), ended : BOOLEAN]
      /\ AsWritten(file)
  BY BootAssumption DEF BootAssumption
<1> QED BY <1>1 DEF Written

(* The default is a configuration, with any argument.                      *)
LEMMA DefaultIsTyped ==
  ASSUME NEW arg, arg \in Leftovers \/ Len(arg) =< ArgSize
  PROVE  LET c == DefaultWith(arg) IN
         /\ {c.tasks, c.events, c.stack} \subseteq 0 .. WordSize - 1
         /\ c.boot.arg = arg
  BY BootAssumption DEF BootAssumption, DefaultWith, Conf

(* The codes of each call, one by one.                                     *)
LEMMA CodesAre ==
  /\ Codes("startShell") = {"385"} /\ Codes("runExp1PostHook") = {"399"} /\ Codes("openCnf") = {"387"}
  /\ Codes("readCnf") = {"38f"} /\ Codes("openProgram") = {"389", "38a"} /\ Codes("readHeader") = {"389", "38a"}
  /\ Codes("readText") = {"389"} /\ Codes("exec") = {"38b", "38c"}
  BY DEF Codes

(* A boot begins with nothing read.                                        *)
LEMMA BootInvInit == BootInit => BootInv
<1> SUFFICES ASSUME BootInit PROVE BootInv
  OBVIOUS
<1>1. PICK arg \in Leftovers : conf = DefaultWith(arg)
  BY DEF BootInit
<1>2. BootTypeOK
  BY <1>1, DefaultIsTyped DEF BootInit, BootTypeOK
<1>3. step = "startShell" /\ code = "385" /\ ended = "not" /\ cnfSize = "unread" /\ descriptors = {}
  BY DEF BootInit
<1> QED BY <1>2, <1>3 DEF BootInv, CodeTellsStep, BeforeCnf, AtCnf, AfterCnf, CodeIsSet, Early, Late, Loads, Codes

(* Every call of the boot keeps the invariant.                             *)
LEMMA BootInvStep == BootInv /\ [BootNext]_bootVars => BootInv'
<1> SUFFICES ASSUME BootInv, [BootNext]_bootVars PROVE BootInv'
  OBVIOUS
<1> USE DEF BootInv
<1>1. CASE ended = "not" /\ ShellReturns
  <2>1. BootTypeOK'
    BY <1>1 DEF ShellReturns, BootTypeOK
  <2> QED
    <3>1. CodeTellsStep'
      BY <1>1, <2>1 DEF ShellReturns, Goto, CodeTellsStep
    <3>2. step' \in Early \cup {"loadSystemCnf"} \cup Late /\ BeforeCnf' /\ AtCnf'
      BY <1>1, <2>1 DEF ShellReturns, Goto, BeforeCnf, AtCnf, Early, Late, Loads
    <3>3. AfterCnf'
      BY <1>1, <2>1 DEF ShellReturns, Goto, AfterCnf, Late, Loads, Found, Early
    <3>4. CodeIsSet'
      BY <1>1, <2>1, CodesAre DEF ShellReturns, Goto, CodeIsSet, Loads
    <3> QED BY <1>1, <2>1, <3>1, <3>2, <3>3, <3>4
<1>2. CASE ended = "not" /\ HookReturns
  <2>1. BootTypeOK'
    BY <1>2 DEF HookReturns, BootTypeOK
  <2> QED
    <3>1. CodeTellsStep'
      BY <1>2, <2>1 DEF HookReturns, Goto, CodeTellsStep
    <3>2. step' \in Early \cup {"loadSystemCnf"} \cup Late /\ BeforeCnf' /\ AtCnf'
      BY <1>2, <2>1 DEF HookReturns, Goto, BeforeCnf, AtCnf, Early, Late, Loads
    <3>3. AfterCnf'
      BY <1>2, <2>1 DEF HookReturns, Goto, AfterCnf, Late, Loads, Found, Early
    <3>4. CodeIsSet'
      BY <1>2, <2>1, CodesAre DEF HookReturns, Goto, CodeIsSet, Loads
    <3> QED BY <1>2, <2>1, <3>1, <3>2, <3>3, <3>4
<1>3. CASE ended = "not" /\ OpenCnf
  <2>0. step = "openCnf" /\ cnfSize = "unread" /\ descriptors = {} /\ UNCHANGED <<cnf, kernel, cnfSize, ended>>
    BY <1>3 DEF OpenCnf, BeforeCnf, Early
  <2>1. CASE descriptors' = descriptors \cup {"cnf"} /\ Goto("readCnf", "38f") /\ UNCHANGED conf
    <3>1. BootTypeOK'
      BY <2>0, <2>1 DEF BootTypeOK
    <3> QED
      <4>1. CodeTellsStep'
        BY <1>3, <2>0, <2>1, <3>1 DEF Goto, CodeTellsStep
      <4>2. step' \in Early \cup {"loadSystemCnf"} \cup Late /\ BeforeCnf' /\ AtCnf'
        BY <2>0, <2>1, <3>1 DEF Goto, BeforeCnf, AtCnf, Early, Late, Loads
      <4>3. AfterCnf'
        BY <2>0, <2>1, <3>1 DEF Goto, AfterCnf, Late, Loads, Found, Early
      <4>4. CodeIsSet'
        BY <2>0, <2>1, <3>1, CodesAre DEF Goto, CodeIsSet, Loads
      <4> QED BY <2>0, <2>1, <3>1, <4>1, <4>2, <4>3, <4>4
  <2>2. CASE conf' = DefaultWith(<<>>) /\ Goto("kernelSetup", "388") /\ UNCHANGED descriptors
    <3>1. BootTypeOK'
      <4>1. Len(<<>>) =< ArgSize
        BY CnfAssumption DEF CnfAssumption
      <4>2. /\ {conf'.tasks, conf'.events, conf'.stack} \subseteq 0 .. WordSize - 1
            /\ conf'.boot.arg = <<>>
        BY <2>2, <4>1, DefaultIsTyped
      <4> QED BY <2>0, <2>2, <4>1, <4>2 DEF BootTypeOK
    <3>2. conf' = Meant'
      BY <2>0, <2>2 DEF Meant, DefaultWith
    <3> QED
      <4>1. CodeTellsStep'
        BY <1>3, <2>0, <2>2, <3>1, <3>2 DEF Goto, CodeTellsStep
      <4>2. step' \in Early \cup {"loadSystemCnf"} \cup Late /\ BeforeCnf' /\ AtCnf'
        BY <2>0, <2>2, <3>1, <3>2 DEF Goto, BeforeCnf, AtCnf, Early, Late, Loads
      <4>3. AfterCnf'
        BY <2>0, <2>2, <3>1, <3>2 DEF Goto, AfterCnf, Late, Loads, Found, Early
      <4>4. CodeIsSet'
        BY <2>0, <2>2, <3>1, <3>2, CodesAre DEF Goto, CodeIsSet, Loads
      <4> QED BY <2>0, <2>2, <3>1, <3>2, <4>1, <4>2, <4>3, <4>4
  <2> QED BY <1>3, <2>1, <2>2 DEF OpenCnf
<1>4. CASE ended = "not" /\ ReadCnf
  <2>0. /\ step = "readCnf" /\ cnfSize = "unread" /\ descriptors = {"cnf"} /\ UNCHANGED <<cnf, kernel, ended>>
        /\ cnfSize' \in {"failed", "none", "some"}
    BY <1>4 DEF ReadCnf, BeforeCnf, Early
  <2>1. CASE cnfSize' \in Empty
    <3>0. conf' = DefaultWith(conf.boot.arg) /\ Goto("kernelSetup", "388") /\ descriptors' = descriptors
          /\ cnfSize' = "none"
      BY <1>4, <2>1 DEF ReadCnf, Empty
    <3>1. BootTypeOK'
      <4>1. conf.boot.arg \in Leftovers \/ Len(conf.boot.arg) =< ArgSize
        BY DEF BootTypeOK
      <4>2. /\ {conf'.tasks, conf'.events, conf'.stack} \subseteq 0 .. WordSize - 1
            /\ conf'.boot.arg = conf.boot.arg
        BY <3>0, <4>1, DefaultIsTyped
      <4> QED BY <2>0, <3>0, <4>1, <4>2 DEF BootTypeOK
    <3>2. conf' = Meant'
      <4>1. conf'.boot.arg = conf.boot.arg
        BY <3>0 DEF DefaultWith, Conf
      <4> QED BY <3>0, <4>1 DEF Meant, DefaultWith
    <3> QED
      <4>1. CodeTellsStep'
        BY <1>4, <2>0, <3>0, <3>1, <3>2 DEF Goto, CodeTellsStep
      <4>2. step' \in Early \cup {"loadSystemCnf"} \cup Late /\ BeforeCnf' /\ AtCnf'
        BY <2>0, <3>0, <3>1, <3>2 DEF Goto, BeforeCnf, AtCnf, Early, Late, Loads
      <4>3. AfterCnf'
        BY <2>0, <3>0, <3>1, <3>2 DEF Goto, AfterCnf, Late, Loads, Found, Early
      <4>4. CodeIsSet'
        BY <2>0, <3>0, <3>1, <3>2, CodesAre DEF Goto, CodeIsSet, Loads
      <4> QED BY <2>0, <3>0, <3>1, <3>2, <4>1, <4>2, <4>3, <4>4
  <2>2. CASE cnfSize' \notin Empty
    <3>0. descriptors' = {} /\ Goto("loadSystemCnf", "390") /\ conf' = conf /\ cnfSize' \in {"some", "failed"}
      BY <1>4, <2>0, <2>2 DEF ReadCnf, Empty
    <3>1. BootTypeOK'
      BY <2>0, <3>0 DEF BootTypeOK
    <3> QED
      <4>1. CodeTellsStep'
        BY <1>4, <2>0, <3>0, <3>1 DEF Goto, CodeTellsStep
      <4>2. step' \in Early \cup {"loadSystemCnf"} \cup Late /\ BeforeCnf' /\ AtCnf'
        BY <2>0, <3>0, <3>1 DEF Goto, BeforeCnf, AtCnf, Early, Late, Loads
      <4>3. AfterCnf'
        BY <2>0, <3>0, <3>1 DEF Goto, AfterCnf, Late, Loads, Found, Early
      <4>4. CodeIsSet'
        BY <2>0, <3>0, <3>1, CodesAre DEF Goto, CodeIsSet, Loads
      <4> QED BY <2>0, <3>0, <3>1, <4>1, <4>2, <4>3, <4>4
  <2> QED BY <2>1, <2>2
<1>5. CASE ended = "not" /\ ParseCnf
  <2>0. /\ step = "loadSystemCnf" /\ cnfSize \in {"some", "failed"} /\ descriptors = {}
        /\ Goto("kernelSetup", "388") /\ UNCHANGED <<cnf, kernel, cnfSize, descriptors, ended>>
        /\ conf' = loadSystemCnf(IF cnfSize = "some" THEN Text(cnf) ELSE <<>>)
    BY <1>5 DEF ParseCnf, AtCnf
  <2>1. cnf \in CnfFiles
    BY DEF BootTypeOK
  <2>2. /\ {conf'.tasks, conf'.events, conf'.stack} \subseteq 0 .. WordSize - 1
        /\ Len(conf'.boot.arg) =< ArgSize
        /\ conf' = Meant' \/ (cnfSize' = "failed" /\ conf'.boot.path = <<>>)
    <3>1. CASE cnfSize = "some"
      <4>1. conf' = MeantCnf(cnf)
        BY <2>0, <2>1, <3>1, FilesAreWritten, LoadsAsMeant
      <4>2. /\ {MeantCnf(cnf).tasks, MeantCnf(cnf).events, MeantCnf(cnf).stack} \subseteq 0 .. WordSize - 1
            /\ Len(MeantCnf(cnf).boot.arg) =< ArgSize
        BY <2>1, FilesAreWritten, LoadsAsMeant
      <4>3. conf' = Meant'
        BY <2>0, <3>1, <4>1 DEF Meant
      <4> QED BY <4>1, <4>2, <4>3
    <3>2. CASE cnfSize = "failed"
      <4>1. conf' = [tasks |-> 0, events |-> 0, stack |-> 0, boot |-> [path |-> <<>>, arg |-> <<>>]]
        BY <2>0, <3>2, LoadsNothing
      <4>2. 0 \in 0 .. WordSize - 1 /\ Len(<<>>) =< ArgSize
        BY CnfAssumption DEF CnfAssumption
      <4> QED BY <2>0, <3>2, <4>1, <4>2
    <3> QED BY <2>0, <3>1, <3>2
  <2>3. BootTypeOK'
    BY <2>0, <2>2 DEF BootTypeOK
  <2> QED
    <3>1. CodeTellsStep'
      BY <1>5, <2>0, <2>2, <2>3 DEF Goto, CodeTellsStep
    <3>2. step' \in Early \cup {"loadSystemCnf"} \cup Late /\ BeforeCnf' /\ AtCnf'
      BY <2>0, <2>2, <2>3 DEF Goto, BeforeCnf, AtCnf, Early, Late, Loads
    <3>3. AfterCnf'
      BY <2>0, <2>2, <2>3 DEF Goto, AfterCnf, Late, Loads, Found, Early
    <3>4. CodeIsSet'
      BY <2>0, <2>2, <2>3, CodesAre DEF Goto, CodeIsSet, Loads
    <3> QED BY <2>0, <2>2, <2>3, <3>1, <3>2, <3>3, <3>4
<1>6. CASE ended = "not" /\ kernelSetup
  <2>0. step = "kernelSetup" /\ kernel' = conf /\ Goto("openProgram", "389")
        /\ UNCHANGED <<cnf, conf, cnfSize, descriptors, ended>>
    BY <1>6 DEF kernelSetup
  <2>1. BootTypeOK' /\ Meant' = Meant
    BY <2>0 DEF BootTypeOK, Meant
  <2> QED
    <3>1. CodeTellsStep'
      BY <1>6, <2>0, <2>1 DEF Goto, CodeTellsStep
    <3>2. step' \in Early \cup {"loadSystemCnf"} \cup Late /\ BeforeCnf' /\ AtCnf'
      BY <2>0, <2>1 DEF Goto, BeforeCnf, AtCnf, Early, Late, Loads
    <3>3. AfterCnf'
      BY <2>0, <2>1 DEF Goto, AfterCnf, Late, Loads, Found, Early
    <3>4. CodeIsSet'
      BY <2>0, <2>1, CodesAre DEF Goto, CodeIsSet, Loads
    <3> QED BY <2>0, <2>1, <3>1, <3>2, <3>3, <3>4
<1>7. CASE ended = "not" /\ OpenProgram
  <2>0. step = "openProgram" /\ UNCHANGED <<cnf, code, conf, kernel, cnfSize>>
    BY <1>7 DEF OpenProgram
  <2>1. BootTypeOK' /\ Meant' = Meant
    BY <1>7, <2>0 DEF OpenProgram, BootTypeOK, Meant
  <2>2. CASE conf.boot.path # <<>> /\ descriptors' = descriptors \cup {"program"} /\ step' = "readHeader"
             /\ UNCHANGED ended
    <3>1. CodeTellsStep'
      BY <1>7, <2>0, <2>1, <2>2, CodesAre DEF CodeTellsStep
    <3>2. step' \in Early \cup {"loadSystemCnf"} \cup Late /\ BeforeCnf' /\ AtCnf'
      BY <1>7, <2>0, <2>1, <2>2 DEF BeforeCnf, AtCnf, Early, Late, Loads
    <3>3. AfterCnf'
      BY <1>7, <2>0, <2>1, <2>2 DEF AfterCnf, Late, Loads, Found, Early
    <3>4. CodeIsSet'
      BY <1>7, <2>0, <2>1, <2>2, CodesAre DEF CodeIsSet, Loads
    <3> QED BY <2>1, <3>1, <3>2, <3>3, <3>4
  <2>3. CASE ended' = "38a" /\ UNCHANGED <<step, descriptors>>
    <3>1. CodeTellsStep'
      BY <1>7, <2>0, <2>1, <2>3, CodesAre DEF CodeTellsStep
    <3>2. step' \in Early \cup {"loadSystemCnf"} \cup Late /\ BeforeCnf' /\ AtCnf'
      BY <1>7, <2>0, <2>1, <2>3 DEF BeforeCnf, AtCnf, Early, Late, Loads
    <3>3. AfterCnf'
      BY <1>7, <2>0, <2>1, <2>3 DEF AfterCnf, Late, Loads, Found, Early
    <3>4. CodeIsSet'
      BY <1>7, <2>0, <2>1, <2>3, CodesAre DEF CodeIsSet, Loads
    <3> QED BY <2>1, <3>1, <3>2, <3>3, <3>4
  <2> QED BY <1>7, <2>2, <2>3 DEF OpenProgram
<1>8. CASE ended = "not" /\ ReadHeader
  <2>0. step = "readHeader" /\ UNCHANGED <<cnf, code, conf, kernel, cnfSize>>
    BY <1>8 DEF ReadHeader
  <2>1. BootTypeOK' /\ Meant' = Meant
    BY <1>8, <2>0 DEF ReadHeader, BootTypeOK, Meant
  <2>2. CASE step' = "readText" /\ UNCHANGED <<descriptors, ended>>
    <3>1. CodeTellsStep'
      BY <1>8, <2>0, <2>1, <2>2, CodesAre DEF CodeTellsStep
    <3>2. step' \in Early \cup {"loadSystemCnf"} \cup Late /\ BeforeCnf' /\ AtCnf'
      BY <1>8, <2>0, <2>1, <2>2 DEF BeforeCnf, AtCnf, Early, Late, Loads
    <3>3. AfterCnf'
      BY <1>8, <2>0, <2>1, <2>2 DEF AfterCnf, Late, Loads, Found, Early
    <3>4. CodeIsSet'
      BY <1>8, <2>0, <2>1, <2>2, CodesAre DEF CodeIsSet, Loads
    <3> QED BY <2>1, <3>1, <3>2, <3>3, <3>4
  <2>3. CASE descriptors' = descriptors \ {"program"} /\ ended' = "38a" /\ UNCHANGED step
    <3>1. CodeTellsStep'
      BY <1>8, <2>0, <2>1, <2>3, CodesAre DEF CodeTellsStep
    <3>2. step' \in Early \cup {"loadSystemCnf"} \cup Late /\ BeforeCnf' /\ AtCnf'
      BY <1>8, <2>0, <2>1, <2>3 DEF BeforeCnf, AtCnf, Early, Late, Loads
    <3>3. AfterCnf'
      BY <1>8, <2>0, <2>1, <2>3 DEF AfterCnf, Late, Loads, Found, Early
    <3>4. CodeIsSet'
      BY <1>8, <2>0, <2>1, <2>3, CodesAre DEF CodeIsSet, Loads
    <3> QED BY <2>1, <3>1, <3>2, <3>3, <3>4
  <2> QED BY <1>8, <2>2, <2>3 DEF ReadHeader
<1>9. CASE ended = "not" /\ ReadText
  <2>0. /\ step = "readText" /\ descriptors' = descriptors \ {"program"} /\ Goto("exec", "38b")
        /\ UNCHANGED <<cnf, conf, kernel, cnfSize, ended>>
    BY <1>9 DEF ReadText, Enter
  <2>1. BootTypeOK' /\ Meant' = Meant
    BY <2>0 DEF BootTypeOK, Meant
  <2> QED
    <3>1. CodeTellsStep'
      BY <1>9, <2>0, <2>1 DEF Goto, CodeTellsStep
    <3>2. step' \in Early \cup {"loadSystemCnf"} \cup Late /\ BeforeCnf' /\ AtCnf'
      BY <2>0, <2>1 DEF Goto, BeforeCnf, AtCnf, Early, Late, Loads
    <3>3. AfterCnf'
      BY <1>9, <2>0, <2>1 DEF Goto, AfterCnf, Late, Loads, Found, Early
    <3>4. CodeIsSet'
      BY <2>0, <2>1, CodesAre DEF Goto, CodeIsSet, Loads
    <3> QED BY <2>0, <2>1, <3>1, <3>2, <3>3, <3>4
<1>10. CASE ended = "not" /\ Returns
  <2>0. step = "exec" /\ ended' = "38c" /\ UNCHANGED <<cnf, step, code, conf, kernel, cnfSize, descriptors>>
    BY <1>10 DEF Returns
  <2>1. BootTypeOK' /\ Meant' = Meant
    BY <2>0 DEF BootTypeOK, Meant
  <2> QED
    <3>1. CodeTellsStep'
      BY <1>10, <2>0, <2>1, CodesAre DEF CodeTellsStep
    <3>2. step' \in Early \cup {"loadSystemCnf"} \cup Late /\ BeforeCnf' /\ AtCnf'
      BY <2>0, <2>1 DEF BeforeCnf, AtCnf, Early, Late, Loads
    <3>3. AfterCnf'
      BY <2>0, <2>1 DEF AfterCnf, Late, Loads, Found, Early
    <3>4. CodeIsSet'
      BY <2>0, <2>1, CodesAre DEF CodeIsSet, Loads
    <3> QED BY <2>0, <2>1, <3>1, <3>2, <3>3, <3>4
<1>11. CASE ended = "not" /\ ioabort
  <2>0. /\ step \notin {"loadSystemCnf", "kernelSetup"} /\ ended' = code
        /\ UNCHANGED <<cnf, step, code, conf, kernel, cnfSize, descriptors>>
    BY <1>11 DEF ioabort
  <2>1. BootTypeOK' /\ Meant' = Meant
    BY <2>0 DEF BootTypeOK, Meant
  <2>2. CodeTellsStep'
    BY <1>11, <2>0 DEF CodeTellsStep, CodeIsSet, Codes
  <2>3. BeforeCnf' /\ AtCnf' /\ CodeIsSet'
    BY <2>0 DEF BeforeCnf, AtCnf, CodeIsSet, Codes
  <2>4. AfterCnf'
    BY <1>11, <2>0, <2>1 DEF AfterCnf
  <2> QED BY <2>0, <2>1, <2>2, <2>3, <2>4
<1>12. CASE UNCHANGED bootVars
  BY <1>12 DEF bootVars, BootTypeOK, CodeTellsStep, BeforeCnf, AtCnf, AfterCnf, CodeIsSet, Meant, Codes, DefaultWith
<1> QED BY <1>1, <1>2, <1>3, <1>4, <1>5, <1>6, <1>7, <1>8, <1>9, <1>10, <1>11, <1>12 DEF BootNext

(* A failed read of SYSTEM.CNF never comes to a program: it leaves no path.*)
LEMMA BootInvShows == BootInv => DiscBoots
<1> SUFFICES ASSUME BootInv PROVE DiscBoots
  OBVIOUS
<1>1. BootTypeOK /\ CodeTellsStep
  BY DEF BootInv
<1>2. ASSUME step = "exec" PROVE kernel = conf /\ conf = Meant /\ (cnfSize # "none" => descriptors = {})
  <2>1. /\ conf = Meant \/ (cnfSize = "failed" /\ conf.boot.path = <<>>)
        /\ kernel = conf /\ conf.boot.path # <<>> /\ (cnfSize # "none" => descriptors = {})
    BY <1>2 DEF BootInv, AfterCnf, Late, Found
  <2> QED BY <2>1
<1>3. RunsAsConfigured
  BY <1>2 DEF RunsAsConfigured, Meant
<1>4. StartsWithoutFiles
  BY <1>2 DEF StartsWithoutFiles
<1> QED BY <1>1, <1>3, <1>4 DEF DiscBoots

(* In every boot the disc's program runs as the disc says, or the code      *)
(* tells why not (boot in openbios/main/main.c).                            *)
THEOREM DiscsBoot == BootSpec => []DiscBoots
<1>1. BootInit => BootInv
  BY BootInvInit
<1>2. BootInv /\ [BootNext]_bootVars => BootInv'
  BY BootInvStep
<1>3. BootInv => DiscBoots
  BY BootInvShows
<1> QED BY <1>1, <1>2, <1>3, PTL DEF BootSpec
=============================================================================
