------------------------------- MODULE Threads -------------------------------
(***************************************************************************)
(* The threads of OpenBIOS (nugget/openbios/kernel/threads.c), the system  *)
(* calls that change them (handlers/syscall.c) and the registers that      *)
(* every exception saves into the current thread's block and loads from    *)
(* the one that is current at its end (kernel/vectors.s).  Of a thread's   *)
(* registers the model keeps where it is and whether it may be interrupted. *)
(***************************************************************************)
EXTENDS Integers, FiniteSets, FiniteSetsExt

CONSTANTS
  Slots,      \* the blocks, TCB of SYSTEM.CNF
  Tasks,      \* what runs in them
  Points,     \* where a task can be: 0 .. Points - 1
  OpensInCritical   \* openThread is called in a critical section only

ASSUME ThreadsAssumption ==
  /\ Slots \in Nat \ {0} /\ Points \in Nat \ {0} /\ Tasks # {}
  /\ OpensInCritical \in BOOLEAN

NONE == -1
Slot == 0 .. Slots - 1

VARIABLES
  open,       \* flags: 0x4000 against 0x1000
  registers,  \* of each block: the task, its place, SR
  thread,     \* processes[0].thread
  cpu,        \* the registers of the processor
  exception,  \* an exception is being handled
  opening,    \* the block openThread has found, and for which task
  handle,     \* history: the answer of openThread for each task
  left        \* history: the registers each task had when it last ran

vars == <<open, registers, thread, cpu, exception, opening, handle, left>>

-----------------------------------------------------------------------------
Begin == CHOOSE t \in Tasks : TRUE   \* the program that initThreads finds
Context == [task : Tasks, at : 0 .. Points - 1, interrupts : BOOLEAN]

(* initThreads: the blocks come from the heap as they are, but the heap was *)
(* zeroed with the rest of the memory.                                      *)
Init ==
  /\ open = {0}
  /\ registers = [s \in Slot |-> [task |-> Begin, at |-> 0, interrupts |-> FALSE]]
  /\ thread = 0
  /\ cpu = [task |-> Begin, at |-> 0, interrupts |-> TRUE]
  /\ exception = FALSE
  /\ opening = NONE
  /\ handle = [t \in Tasks |-> IF t = Begin THEN 0 ELSE NONE]
  /\ left = [t \in Tasks |-> [cpu EXCEPT !.task = t]]

Runs == ~exception /\ opening = NONE

getFreeTCBslot == IF open = Slot THEN NONE ELSE Min(Slot \ open)

(* A thread starts with the SR its block happens to hold. *)
Filled(s, t) == [registers EXCEPT ![s] = [@ EXCEPT !.task = t, !.at = 0]]

(* openThread by a running task: finds a block, and fills it; an interrupt  *)
(* may come between.                                                       *)
openThread ==
  /\ Runs /\ (OpensInCritical => ~cpu.interrupts)
  /\ getFreeTCBslot # NONE
  /\ opening' = getFreeTCBslot
  /\ UNCHANGED <<open, registers, thread, cpu, exception, handle, left>>

Opens(s, t) ==
  /\ handle[t] = NONE
  /\ open' = open \cup {s}
  /\ registers' = Filled(s, t)
  /\ handle' = [handle EXCEPT ![t] = s]
  /\ left' = [left EXCEPT ![t] = registers'[s]]

openThreadEnds(t) ==
  /\ ~exception /\ opening # NONE
  /\ Opens(opening, t)
  /\ opening' = NONE
  /\ UNCHANGED <<thread, cpu, exception>>

(* The callback of an event opens a thread in the exception. *)
CallbackOpens(t) ==
  /\ exception /\ getFreeTCBslot # NONE
  /\ Opens(getFreeTCBslot, t)
  /\ UNCHANGED <<thread, cpu, exception, opening>>

Closed(s) == open \ {s}

(* closeThread, of another thread than the one that runs, and once. *)
closeThread(t) ==
  /\ opening = NONE \/ exception
  /\ handle[t] \notin {NONE, thread}
  /\ open' = Closed(handle[t])
  /\ handle' = [handle EXCEPT ![t] = NONE]
  /\ UNCHANGED <<registers, thread, cpu, exception, opening, left>>

Computes ==
  /\ Runs
  /\ cpu' = [cpu EXCEPT !.at = (@ + 1) % Points]
  /\ UNCHANGED <<open, registers, thread, exception, opening, handle, left>>

-----------------------------------------------------------------------------
(* exceptionHandler saves the registers into the current thread's block.   *)
SavesFirst == [registers EXCEPT ![0] = cpu]   \* mutant: into the first thread's

Saves == [registers EXCEPT ![thread] = cpu]

Leaves == left' = [left EXCEPT ![cpu.task] = cpu]

Interrupt ==
  /\ ~exception /\ cpu.interrupts
  /\ registers' = Saves
  /\ Leaves
  /\ exception' = TRUE
  /\ UNCHANGED <<open, thread, cpu, opening, handle>>

Loaded(rs, s) == rs[s]

returnFromException ==
  /\ exception
  /\ cpu' = Loaded(registers, thread)
  /\ exception' = FALSE
  /\ UNCHANGED <<open, registers, thread, opening, handle, left>>

(* syscallVerifier, which returns from the exception itself.  The system   *)
(* calls 1 and 2 change SR in the saved registers, 3 the current thread.   *)
SetsInterrupts(on) == [Saves EXCEPT ![thread].interrupts = on]

CriticalSection(on) ==
  /\ Runs
  /\ registers' = SetsInterrupts(on)
  /\ left' = [left EXCEPT ![cpu.task] = [cpu EXCEPT !.interrupts = on]]
  /\ cpu' = Loaded(registers', thread)
  /\ UNCHANGED <<open, thread, exception, opening, handle>>

changeThread(t) ==
  /\ Runs /\ handle[t] # NONE
  /\ registers' = Saves
  /\ Leaves
  /\ thread' = handle[t]
  /\ cpu' = Loaded(registers', thread')
  /\ UNCHANGED <<open, exception, opening, handle>>

Next ==
  \/ openThread \/ Computes \/ Interrupt \/ returnFromException
  \/ \E t \in Tasks : openThreadEnds(t) \/ CallbackOpens(t) \/ closeThread(t) \/ changeThread(t)
  \/ \E on \in BOOLEAN : CriticalSection(on)

Spec == Init /\ [][Next]_vars

-----------------------------------------------------------------------------

(* What the variables hold; the blocks in use are those somebody has.      *)
TypeOK ==
  /\ open \subseteq Slot /\ thread \in Slot
  /\ registers \in [Slot -> Context] /\ cpu \in Context
  /\ open = {handle[t] : t \in Tasks} \ {NONE}

(* No two threads have one block, however openThread is interrupted by a   *)
(* callback that opens one too (threads.c:66-92).                          *)
OneThreadPerBlock ==
  \A t, u \in Tasks : handle[t] = handle[u] /\ handle[t] # NONE => t = u

(* A thread that does not run is in its block as it was when it last ran,  *)
(* whatever threads ran, were opened or closed meanwhile (vectors.s:53-177, *)
(* syscall.c:57-60).                                                       *)
LeftAlone ==
  \A t \in Tasks : handle[t] # NONE /\ (handle[t] # thread \/ exception)
                     => registers[handle[t]] = left[t]

(* The task that runs is the current thread's, in its place: after an      *)
(* exception it is where it was (vectors.s:241-292).                        *)
RunsItself == ~exception => handle[cpu.task] = thread

(* Every thread has a block of its own, that keeps what the thread left,   *)
(* and what runs is the current thread (threads.c, vectors.s).             *)
ThreadsApart == TypeOK /\ OneThreadPerBlock /\ LeftAlone /\ RunsItself

=============================================================================
