-------------------------------- MODULE Boot --------------------------------
(***************************************************************************)
(* The boot of a disc (boot in openbios/main/main.c, loadExe in            *)
(* openbios/kernel/psxexe.c): the shell runs, SYSTEM.CNF is read or stands *)
(* in for itself, the kernel is set up again as it says, and the program   *)
(* is loaded and run.  Any call on a device may end in an abort, which     *)
(* jumps back to the latest SETJMPFATAL; its code is then what a developer *)
(* is shown.                                                               *)
(***************************************************************************)
EXTENDS SystemCnf

CONSTANTS
  CnfFiles,    \* the files of SYSTEM.CNF there may be, of a sector at most
  DefaultCnf,  \* g_defaultConfiguration, and the path of the default program
  Leftovers    \* what may lie where the argument is kept, at 0x180

ASSUME BootAssumption ==
  /\ \A file \in CnfFiles :
       /\ file \in [lines : Seq([name : ItemNames \cup {"other"}, value : Seq(Shown), pad : Seq(Shown),
                                 tail : Seq(Shown)]),
                    end : Seq(LineEnds), ended : BOOLEAN]
       /\ AsWritten(file)
  /\ {DefaultCnf.tasks, DefaultCnf.events, DefaultCnf.stack} \subseteq 0 .. WordSize - 1

VARIABLES
  cnf,      \* SYSTEM.CNF: a file
  step,     \* the call that boot has come to
  code,     \* the code of the latest SETJMPFATAL
  conf,     \* s_configuration, s_binaryPath and the argument
  kernel,   \* the configuration the kernel's tables were made for
  cnfSize,  \* sysCnfSize: "unread", "some", "none", or "failed"
  descriptors, \* those that are open
  ended     \* the code boot has ended with, or "not"

bootVars == <<cnf, step, code, conf, kernel, cnfSize, descriptors, ended>>

(* A configuration and what lies at 0x180.                                 *)
Conf(tasks, events, stack, path, arg) ==
  [tasks |-> tasks, events |-> events, stack |-> stack, boot |-> [path |-> path, arg |-> arg]]
DefaultWith(arg) ==
  Conf(DefaultCnf.tasks, DefaultCnf.events, DefaultCnf.stack, DefaultCnf.boot.path, arg)

BootInit ==
  /\ cnf \in CnfFiles /\ step = "startShell" /\ code = "385"
  /\ \E arg \in Leftovers : conf = DefaultWith(arg)
  /\ kernel = conf
  /\ cnfSize = "unread" /\ descriptors = {} /\ ended = "not"

(* Going on to a call, under the code set just before it.                  *)
Goto(s, c) == step' = s /\ code' = c

(* The shell comes back, the drive is reset, an expansion's hook is run.   *)
ShellReturns ==
  /\ step = "startShell" /\ Goto("runExp1PostHook", "399")
  /\ UNCHANGED <<cnf, conf, kernel, cnfSize, descriptors, ended>>
HookReturns ==
  /\ step = "runExp1PostHook" /\ Goto("openCnf", "387")
  /\ UNCHANGED <<cnf, conf, kernel, cnfSize, descriptors, ended>>

OpenCnf ==
  /\ step = "openCnf"
  /\ \/ /\ descriptors' = descriptors \cup {"cnf"} /\ Goto("readCnf", "38f")
        /\ UNCHANGED conf
     \/ /\ conf' = DefaultWith(<<>>) /\ Goto("kernelSetup", "388")
        /\ UNCHANGED descriptors
  /\ UNCHANGED <<cnf, kernel, cnfSize, ended>>

(* An empty file leaves the default and what lies at 0x180, and is not     *)
(* closed.  After a failed read the buffer is parsed as it was, empty.     *)
Empty == {"none"}
ReadCnf ==
  /\ step = "readCnf"
  /\ cnfSize' \in {"failed", IF Text(cnf) = <<>> THEN "none" ELSE "some"}
  /\ IF cnfSize' \in Empty
     THEN conf' = DefaultWith(conf.boot.arg) /\ Goto("kernelSetup", "388") /\ UNCHANGED descriptors
     ELSE descriptors' = descriptors \ {"cnf"} /\ Goto("loadSystemCnf", "390") /\ UNCHANGED conf
  /\ UNCHANGED <<cnf, kernel, ended>>

ParseCnf ==
  /\ step = "loadSystemCnf"
  /\ conf' = loadSystemCnf(IF cnfSize = "some" THEN Text(cnf) ELSE <<>>)
  /\ Goto("kernelSetup", "388")
  /\ UNCHANGED <<cnf, kernel, cnfSize, descriptors, ended>>

kernelSetup ==
  /\ step = "kernelSetup" /\ kernel' = conf /\ Goto("openProgram", "389")
  /\ UNCHANGED <<cnf, conf, cnfSize, descriptors, ended>>

(* loadExe: fatal(0x38a) if there is no such file or its header is short;  *)
(* what the read of the text returns is not looked at.                     *)
OpenProgram ==
  /\ step = "openProgram"
  /\ \/ /\ conf.boot.path # <<>>
        /\ descriptors' = descriptors \cup {"program"} /\ step' = "readHeader" /\ UNCHANGED ended
     \/ ended' = "38a" /\ UNCHANGED <<step, descriptors>>
  /\ UNCHANGED <<cnf, code, conf, kernel, cnfSize>>
ReadHeader ==
  /\ step = "readHeader"
  /\ \/ step' = "readText" /\ UNCHANGED <<descriptors, ended>>
     \/ descriptors' = descriptors \ {"program"} /\ ended' = "38a" /\ UNCHANGED step
  /\ UNCHANGED <<cnf, code, conf, kernel, cnfSize>>

Enter(s) == Goto(s, "38b")
ReadText ==
  /\ step = "readText"
  /\ descriptors' = descriptors \ {"program"} /\ Enter("exec")
  /\ UNCHANGED <<cnf, conf, kernel, cnfSize, ended>>

Returns ==
  /\ step = "exec" /\ ended' = "38c"
  /\ UNCHANGED <<cnf, step, code, conf, kernel, cnfSize, descriptors>>

(* A device error, or no descriptor left, in the call or in the program.   *)
ioabort ==
  /\ step \notin {"loadSystemCnf", "kernelSetup"} /\ ended' = code
  /\ UNCHANGED <<cnf, step, code, conf, kernel, cnfSize, descriptors>>

BootNext ==
  /\ ended = "not"
  /\ \/ ShellReturns \/ HookReturns \/ OpenCnf \/ ReadCnf \/ ParseCnf \/ kernelSetup
     \/ OpenProgram \/ ReadHeader \/ ReadText \/ Returns \/ ioabort

BootSpec == BootInit /\ [][BootNext]_bootVars

-----------------------------------------------------------------------------
BootTypeOK ==
  /\ cnf \in CnfFiles /\ descriptors \subseteq {"cnf", "program"}
  /\ cnfSize \in {"unread", "some", "none", "failed"}
  /\ {conf.tasks, conf.events, conf.stack} \subseteq 0 .. WordSize - 1
  /\ conf.boot.arg \in Leftovers \/ Len(conf.boot.arg) =< ArgSize

(* A program runs as the disc's author wrote it (the comment on the parser *)
(* promises files that do not end their lines in CR LF too), whatever the  *)
(* order of the lines: its path, argument and stack, and a kernel with as  *)
(* many tasks and events as SYSTEM.CNF asks for.  Without that file, or    *)
(* with an empty one, they are the default, and with an empty one the      *)
(* argument is what was there.                                             *)
RunsAsConfigured ==
  step = "exec" =>
    /\ kernel = conf
    /\ conf = CASE cnfSize = "some" -> MeantCnf(cnf)
                [] cnfSize = "none" -> DefaultWith(conf.boot.arg)
                [] OTHER -> DefaultWith(<<>>)

(* The program starts with all descriptors free, unless SYSTEM.CNF was     *)
(* empty.                                                                  *)
StartsWithoutFiles == step = "exec" /\ cnfSize # "none" => descriptors = {}

(* The code boot ends with tells where it ended: no two calls that can     *)
(* abort share one, but those of the program's load.                       *)
Codes(s) ==
  CASE s = "startShell" -> {"385"} [] s = "runExp1PostHook" -> {"399"}
    [] s = "openCnf" -> {"387"} [] s = "readCnf" -> {"38f"}
    [] s \in {"openProgram", "readHeader"} -> {"389", "38a"} [] s = "readText" -> {"389"}
    [] s = "exec" -> {"38b", "38c"} [] OTHER -> {}
CodeTellsStep == ended # "not" => ended \in Codes(step)

(* The disc's program runs as the disc says, or the code tells why not     *)
(* (main/main.c, kernel/psxexe.c).                                         *)
DiscBoots == BootTypeOK /\ RunsAsConfigured /\ StartsWithoutFiles /\ CodeTellsStep
=============================================================================
