------------------------------ MODULE SysInfo ------------------------------
(***************************************************************************)
(* Collecting the system information on Linux (collector/sysinfo and its   *)
(* packages platform, hardware and software, and internal/cmdutils).  One  *)
(* goroutine asks one source after the other: files, environment           *)
(* variables, D-Bus, and commands, which run with a timeout.               *)
(*                                                                         *)
(* What a source says is abstracted to whether the part of the report that *)
(* it fills is full, partly filled or zero.  A source may fail: it cannot  *)
(* be read or run, says something malformed, or a command hangs.           *)
(* Wayland, asked before xrandr, has a module of its own.                  *)
(***************************************************************************)
EXTENDS Naturals, Sequences, FiniteSets, Functions

CONSTANTS Stuck,      \* what may hold up a collection: "pipe", "bus"
          MaxFaults   \* bound: sources that fail in a collection

VARIABLES env,      \* the system: its WSL version, its wsl.conf, confined or not
          step,     \* the source being asked
          child,    \* the command: "none", "running", "hung", "ok", "failed"
          held,     \* a descendant of the command keeps its output open
          wsl,      \* info.WSL; "unset" is the empty string
          info,     \* the parts of the report
          blamed    \* history: the sources that failed

sys == <<env, step, child, held, wsl, info, blamed>>

\* The parts of the hardware and software reports, in the order they are asked
\* for, after those of the platform; "lsb" is the first source of "os".
Collected == <<"product", "cpu", "gpus", "accelerators", "memory", "disks",
               "screens", "lsb", "os", "lang", "bios">>
\* The parts that are left out on WSL.
HostOnly == {"desktop", "product", "gpus", "screens", "bios"}
Reported == {"desktop", "attached"} \cup (Range(Collected) \ {"lsb"})
Commands == {"virt", "systemd", "virtAgain", "wslExe", "pro", "cpu", "disks", "screens"}
AllSources == Commands \cup Range(Collected)
             \cup {"version", "kernel", "conf", "desktop", "dbus"}

SysTypeOK ==
    /\ env \in [wsl : 0 .. 2, conf : {"missing", "broken", "on", "off"}, snap : BOOLEAN]
    /\ step \in AllSources \cup {"done"}
    /\ child \in {"none", "running", "hung", "ok", "failed"}
    /\ held \in BOOLEAN
    /\ wsl \in [version : 0 .. 2, systemd : {"unset", "used", "unused"},
                interop : {"unset", "enabled", "disabled"}, kernel : BOOLEAN, release : BOOLEAN]
    /\ info \in [Reported -> {"zero", "part", "full"}]
    /\ blamed \in SUBSET AllSources
    \* a command belongs to a source that runs one
    /\ child # "none" => step \in Commands
    /\ held => child \in {"ok", "failed"}

SysInit ==
    /\ env \in [wsl : 0 .. 2, conf : {"missing", "broken", "on", "off"}, snap : BOOLEAN]
    /\ step = "virt"
    /\ child = "none"
    /\ held = FALSE
    /\ wsl = [version |-> 0, systemd |-> "unset", interop |-> "unset", kernel |-> FALSE,
              release |-> FALSE]
    /\ info = [p \in Reported |-> "zero"]
    /\ blamed = {}

-----------------------------------------------------------------------------
(* cmdutils.Run, with exec.Cmd.                                            *)

\* One more source may fail.
CanFail == Cardinality(blamed) < MaxFaults
Blame(s) == CanFail /\ blamed' = blamed \cup {s}

\* The command is started, or cannot be.
Start ==
    /\ step \in Commands
    /\ child = "none"
    /\ \/ child' = "running" /\ UNCHANGED blamed
       \/ child' = "failed" /\ Blame(step)
    /\ UNCHANGED <<env, step, held, wsl, info>>

\* The command ends; a process it started may live on with its output.
Exit ==
    /\ child = "running"
    /\ \/ child' = "ok" /\ UNCHANGED blamed
       \/ child' = "failed" /\ Blame(step)
    /\ held' \in IF "pipe" \in Stuck THEN BOOLEAN ELSE {FALSE}
    /\ UNCHANGED <<env, step, wsl, info>>

\* The command does not end by itself.
Hang ==
    /\ child = "running"
    /\ child' = "hung"
    /\ Blame(step)
    /\ UNCHANGED <<env, step, held, wsl, info>>

\* Mutant of Timeout: the context has no deadline.
TimeoutNever == FALSE /\ UNCHANGED sys

\* The context expires: the command is killed, what it started is not.
Timeout ==
    /\ child = "hung"
    /\ child' = "failed"
    /\ held' \in IF "pipe" \in Stuck THEN BOOLEAN ELSE {FALSE}
    /\ UNCHANGED <<env, step, wsl, info, blamed>>

\* The last process that holds the output ends.
PipeCloses ==
    /\ held
    /\ held' = FALSE
    /\ UNCHANGED <<env, step, child, wsl, info, blamed>>

\* Mutant of Returns: Run returns while the command is still there.
ReturnsLeft(ok) ==
    /\ child = IF ok THEN "ok" ELSE "failed"
    /\ ~held
    /\ UNCHANGED <<env, child, held, blamed>>

\* Run returns when the command has ended and its output is closed.
Returns(ok) ==
    /\ child = IF ok THEN "ok" ELSE "failed"
    /\ ~held
    /\ child' = "none"
    /\ UNCHANGED <<env, held, blamed>>

-----------------------------------------------------------------------------
(* platform_linux.go                                                       *)

\* A file or variable is read: it says what it should, or fails.
ReadSource(s, ok) ==
    /\ step = s
    /\ IF ok THEN UNCHANGED blamed ELSE Blame(s)
    /\ UNCHANGED <<env, child, held>>

\* isWSL, for getWSLSubsystemVersion in collectWSL.
Detect ==
    /\ step = "virt"
    /\ \E ok \in BOOLEAN :
         /\ Returns(ok)
         /\ step' = IF ok /\ env.wsl # 0 THEN "version" ELSE "desktop"
    /\ UNCHANGED <<wsl, info>>

\* The rest of getWSLSubsystemVersion: an unreadable kernel version is WSL 2.
Version ==
    \E ok \in BOOLEAN :
        /\ ReadSource("version", ok)
        /\ wsl' = [wsl EXCEPT !.version = IF ok THEN env.wsl ELSE 2]
        /\ step' = "kernel"
        /\ UNCHANGED info

\* getKernelVersion
KernelVersion ==
    \E ok \in BOOLEAN :
        /\ ReadSource("kernel", ok)
        /\ wsl' = [wsl EXCEPT !.kernel = ok]
        /\ step' = "systemd"
        /\ UNCHANGED info

\* wasSystemdUsed
Systemd ==
    /\ step = "systemd"
    /\ \E ok \in BOOLEAN, used \in {"used", "unused"} :
         /\ Returns(ok)
         /\ wsl' = [wsl EXCEPT !.systemd = IF ok THEN used ELSE "unused"]
    /\ step' = "virtAgain"
    /\ UNCHANGED info

\* interopEnabled detects WSL once more, and does not look further without it.
DetectAgain ==
    /\ step = "virtAgain"
    /\ \E ok \in BOOLEAN :
         /\ Returns(ok)
         /\ step' = IF ok THEN "conf" ELSE "dbus"
         /\ wsl' = IF ok THEN wsl ELSE [wsl EXCEPT !.interop = "disabled"]
    /\ UNCHANGED info

\* What interopEnabled makes of wsl.conf; "on" is also a file that does not say.
Interop(conf) == conf \in {"on", "missing"}

ReadConf ==
    \E ok \in BOOLEAN :
        LET enabled == ok /\ Interop(env.conf) IN
        /\ ReadSource("conf", ok)
        /\ wsl' = [wsl EXCEPT !.interop = IF enabled THEN "enabled" ELSE "disabled"]
        /\ step' = IF enabled THEN "wslExe" ELSE "dbus"
        /\ UNCHANGED info

\* wsl.exe -v, the last thing collectWSL asks for.
WslRelease ==
    /\ step = "wslExe"
    /\ \E ok \in BOOLEAN :
         /\ Returns(ok)
         /\ wsl' = [wsl EXCEPT !.release = ok]
    /\ step' = "dbus"
    /\ UNCHANGED info

\* getDesktop, called outside WSL only.
Desktop ==
    \E ok \in BOOLEAN :
        /\ ReadSource("desktop", ok)
        /\ info' = [info EXCEPT !["desktop"] = IF ok THEN "full" ELSE "part"]
        /\ step' = "dbus"
        /\ UNCHANGED wsl

\* Mutant of ProOverDBus: a failure is taken for "not attached".
ProOverDBusOnly ==
    \E ok \in BOOLEAN :
        /\ ReadSource("dbus", ok)
        /\ info' = [info EXCEPT !["attached"] = IF ok THEN "full" ELSE "zero"]
        /\ step' = Collected[1]
        /\ UNCHANGED wsl

\* isProAttached: D-Bus first, then the command when that fails.
ProOverDBus ==
    \E ok \in BOOLEAN :
        /\ ReadSource("dbus", ok)
        /\ info' = IF ok THEN [info EXCEPT !["attached"] = "full"] ELSE info
        /\ step' = IF ok THEN Collected[1] ELSE "pro"
        /\ UNCHANGED wsl

ProOverCLI ==
    /\ step = "pro"
    /\ \E ok \in BOOLEAN :
         /\ Returns(ok)
         /\ info' = [info EXCEPT !["attached"] = IF ok THEN "full" ELSE "zero"]
    /\ step' = Collected[1]
    /\ UNCHANGED wsl

-----------------------------------------------------------------------------
(* hardware.go and software.go, and what they call on Linux.               *)

After(p) ==
    LET i == CHOOSE i \in DOMAIN Collected : Collected[i] = p
    IN  IF i = Len(Collected) THEN "done" ELSE Collected[i + 1]

\* Mutant of SkippedOnWSL: the BIOS of the virtual machine is reported.
SkippedOnWSLButBios(p) == p \in HostOnly \ {"bios"} /\ wsl.version # 0

\* collectProduct, collectGPUs, collectScreens and collectBios skip WSL.
SkippedOnWSL(p) == p \in HostOnly /\ wsl.version # 0

\* Mutant of Fill: a part that fails takes the parts before it along.
FillOrDrop(p, value) ==
    info' = IF value = "zero" THEN [q \in Reported |-> "zero"]
            ELSE [info EXCEPT ![p] = value]

\* Collect of the hardware and the software go on with the next part.
Fill(p, value) == info' = [info EXCEPT ![p] = value]

\* The part is skipped.
Skip(p) ==
    /\ step = p
    /\ child = "none"
    /\ SkippedOnWSL(p)
    /\ step' = After(p)
    /\ UNCHANGED <<env, child, held, wsl, info, blamed>>

\* The part is read from files or variables; `remains` is what may be left of
\* it when they fail.
FromFiles(p, remains) ==
    /\ step = p
    /\ ~SkippedOnWSL(p)
    /\ \/ Fill(p, "full") /\ UNCHANGED blamed
       \/ Blame(p) /\ \E value \in remains : Fill(p, value)
    /\ step' = After(p)
    /\ UNCHANGED <<env, child, held, wsl>>

\* The part is what a command prints.
FromCommand(p, remains) ==
    /\ step = p
    /\ \E ok \in BOOLEAN :
         /\ Returns(ok)
         /\ \E value \in IF ok THEN {"full"} ELSE remains : Fill(p, value)
    /\ step' = After(p)
    /\ UNCHANGED wsl

\* Each of the files may be missing, the others are kept.
CollectProduct == Skip("product") \/ FromFiles("product", {"part"})

\* A number that cannot be parsed is zero; without lscpu only Arch is left.
CollectCPU == FromCommand("cpu", {"part", "zero"})

\* A card that cannot be read is left out, and none at all is an error.
CollectGPUs == Skip("gpus") \/ FromFiles("gpus", {"part", "zero"})

CollectAccelerators == FromFiles("accelerators", {"part", "zero"})

CollectMemory == FromFiles("memory", {"zero"})

\* A size that cannot be parsed is zero.
CollectDisks == FromCommand("disks", {"part", "zero"})

\* Wayland first, and xrandr when that finds nothing.
ScreensFromWayland ==
    /\ step = "screens"
    /\ child = "none"
    /\ ~SkippedOnWSL("screens")
    /\ Fill("screens", "full")
    /\ step' = After("screens")
    /\ UNCHANGED <<env, child, held, wsl, blamed>>

CollectScreens ==
    \/ Skip("screens")
    \/ ScreensFromWayland
    \/ FromCommand("screens", {"part", "zero"})

\* A confined snap asks lsb-release first.  A file that says half of it is
\* taken as it is; one that says nothing is not.
OSFromLSBRelease ==
    /\ step = "lsb"
    /\ \/ ~env.snap /\ step' = "os" /\ UNCHANGED <<info, blamed>>
       \/ env.snap /\ Fill("os", "full") /\ step' = After("os") /\ UNCHANGED blamed
       \/ env.snap /\ Blame("lsb")
          /\ \/ Fill("os", "part") /\ step' = After("os")
             \/ UNCHANGED info /\ step' = "os"
    /\ UNCHANGED <<env, child, held, wsl>>

OSFromFile == FromFiles("os", {"part", "zero"})

CollectOS == OSFromLSBRelease \/ OSFromFile

CollectLang == FromFiles("lang", {"zero"})

CollectBios == Skip("bios") \/ FromFiles("bios", {"part"})

\* The commands are run unless the part is skipped.
StartCommand == ~SkippedOnWSL(step) /\ Start

\* The bus may not answer: GetProperty has no deadline.
BusAnswers == "bus" \notin Stuck

Collection ==
    \/ StartCommand \/ Timeout
    \/ Detect \/ Version \/ KernelVersion \/ Systemd \/ DetectAgain \/ ReadConf
    \/ WslRelease \/ Desktop \/ ProOverCLI
    \/ CollectProduct \/ CollectCPU \/ CollectGPUs \/ CollectAccelerators
    \/ CollectMemory \/ CollectDisks \/ CollectScreens
    \/ CollectOS \/ CollectLang \/ CollectBios

Environment == Exit \/ Hang \/ PipeCloses

SysNext == Collection \/ ProOverDBus \/ Environment

\* The goroutine goes on, the deadline comes, and a command ends or hangs; what
\* it started need not end.
SysSpec ==
    /\ SysInit
    /\ [][SysNext]_sys
    /\ WF_sys(Collection)
    /\ WF_sys(Exit \/ Hang)
    /\ WF_sys(BusAnswers /\ ProOverDBus)

-----------------------------------------------------------------------------
\* A failing source costs its own part of the report and no other
\* (hardware.go:116-164, software.go:70-94, sysinfo.go:72-103), and the state
\* of Ubuntu Pro, or the name of the system in a snap, is lost only when both
\* ways to it fail (platform_linux.go:330-343, software_linux.go:72-109).
PartsIndependent ==
    step = "done" =>
        /\ \A p \in Reported \ {"attached", "os"} :
             info[p] # "full" => p \in blamed \/ SkippedOnWSL(p)
        /\ info["os"] = "part" => blamed \cap {"lsb", "os"} # {}
        /\ info["os"] = "zero" => "os" \in blamed /\ (env.snap => "lsb" \in blamed)
        /\ info["attached"] # "full" => {"dbus", "pro"} \subseteq blamed

\* A report is that of a WSL or that of a host and never mixes the two, whatever
\* the two detections said (platform_linux.go:121-124, 184-241): WSL has no
\* product, GPU, screen, BIOS or desktop, a host no kernel, systemd or interop.
OneKindOfSystem ==
    step = "done" =>
        IF wsl.version # 0
        THEN /\ \A p \in HostOnly : info[p] = "zero"
             /\ wsl.systemd # "unset" /\ wsl.interop # "unset"
             /\ wsl.release => wsl.interop = "enabled"
        ELSE wsl.systemd = "unset" /\ wsl.interop = "unset" /\ ~wsl.kernel /\ ~wsl.release

\* A collection ends, although commands hang, are missing or fail
\* (cmd.go:17-37), unless a process that a command left behind keeps its output
\* open for ever or the bus never answers.
CollectionEnds == <>(step = "done") \/ <>[](held \/ step = "dbus")

\* "It executes the systemd-analyze command with a timeout of 15 seconds"
\* (platform_linux.go:285): asking systemd-analyze comes to an end.
SystemdBounded == (step = "systemd") ~> (step # "systemd")

\* "It does this by reading /etc/wsl.conf" (platform_linux.go:153): on a system
\* reported as WSL, interop is what a readable wsl.conf makes it.
InteropFollowsConf ==
    step = "done" /\ wsl.version # 0 /\ "conf" \notin blamed =>
        (wsl.interop = "enabled") = (env.conf \in {"on", "missing"})

=============================================================================
