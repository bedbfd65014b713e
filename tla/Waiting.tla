------------------------------ MODULE Waiting ------------------------------
(***************************************************************************)
(* The parts of the client that wait for something: the upload of all the  *)
(* sources for its pauses and goroutines, the Wayland screens for a mutex  *)
(* and a compositor, the system information for commands and the bus.      *)
(* They have no variable in common: a behaviour is a behaviour of one of   *)
(* them, while the others stay in an initial state.                        *)
(***************************************************************************)
EXTENDS Uploads

CONSTANTS Callers, MaxOutputs, Failures,   \* Wayland
          Stuck, MaxFaults                 \* SysInfo

VARIABLES part,
          \* Wayland
          present, holder, wAt, got, outputs, displays, room, count, capacity,
          memoryError, seen, broken,
          \* SysInfo
          env, step, child, held, wsl, info, blamed

\* Callers that ask for the screens, one at a time.
Y == INSTANCE Wayland WITH at <- wAt

\* Sources that fail, commands that hang, and what they leave behind.
S == INSTANCE SysInfo

\* maxConcurrentSources and the periods are positive constants of the program
\* (upload.go:151), and the maximum is a duration itself.  The largest shift
\* reaches it: 30 seconds are more than one nanosecond (uploader.go:70-71).
ASSUME WaitingAssumption ==
    /\ IsFiniteSet(Sources) /\ MaxConcurrent \in Nat \ {0}
    /\ Width \in Nat /\ Width >= 2
    /\ Base \in Nat \ {0} /\ MaxRetry \in 1 .. MaxInt /\ MaxAttempts \in Nat
    /\ Base > 1 \/ MaxRetry <= Shl[Width - 2]
    /\ "nobody" \notin Callers
    /\ MaxOutputs \in Nat /\ MaxFaults \in Nat

wayland == <<present, holder, wAt, got, outputs, displays, room, count, capacity,
             memoryError, seen, broken>>
sys == <<env, step, child, held, wsl, info, blamed>>
vars == <<part, uploads, wayland, sys>>

Init ==
    /\ part \in {"uploads", "wayland", "sys"}
    /\ UploadsInit /\ Y!WaylandInit /\ S!SysInit
    /\ part # "uploads" => ~retry
    /\ part # "wayland" => present = 1
    /\ part # "sys" => env = [wsl |-> 0, conf |-> "missing", snap |-> FALSE]

\* A step of one of the parts.
OfUploads(N) == part = "uploads" /\ N /\ UNCHANGED <<part, wayland, sys>>
OfWayland(N) == part = "wayland" /\ N /\ UNCHANGED <<part, uploads, sys>>
OfSysInfo(N) == part = "sys" /\ N /\ UNCHANGED <<part, uploads, wayland>>

Next ==
    \/ OfUploads(UploadsNext)
    \/ OfWayland(Y!WaylandNext)
    \/ OfSysInfo(S!SysNext)

\* Goroutines make progress, pauses and deadlines come to their end, a caller
\* that waits for the mutex gets it, and a command ends or hangs.
Fairness ==
    /\ WF_vars(OfUploads(StartedAll \/ Return \/ \E s \in Sources : StartSource(s)))
    /\ \A s \in Sources : WF_vars(OfUploads(Source(s)))
    /\ \A c \in Callers :
         WF_vars(OfWayland(Y!Caller(c))) /\ SF_vars(OfWayland(Y!Lock(c)))
    /\ WF_vars(OfSysInfo(S!Collection))
    /\ WF_vars(OfSysInfo(S!Exit \/ S!Hang))

Spec == Init /\ [][Next]_vars /\ Fairness

-----------------------------------------------------------------------------
\* The variables of every part keep their types.
WaitingTypeOK == UploadsTypeOK /\ Y!WaylandTypeOK /\ S!SysTypeOK

\* A caller gets the screens of all the outputs or turns to xrandr, although the
\* arrays grow, calls fail half way and other callers wait
\* (hardware_linux.go:536-566), and no memory is used that was freed or never
\* allocated (wayland_displays_linux.c:57-88).
AllScreens == Y!AllScreens

\* A failing source costs its own part of the report and no other
\* (hardware.go:116-164, software.go:70-94, sysinfo.go:72-103); the state of
\* Ubuntu Pro, or the name of the system in a snap, is lost only when both ways
\* to it fail (platform_linux.go:330-343, software_linux.go:72-109).  And a
\* report is that of a WSL or that of a host, never a mixture, whatever the two
\* detections said (platform_linux.go:121-124, 184-241): WSL has no product,
\* GPU, screen, BIOS or desktop, a host no kernel, systemd or interop.
PartsOfOneSystem == S!PartsIndependent /\ S!OneKindOfSystem

\* Everything that waits comes to an end: UploadAll although the server never
\* accepts anything (upload.go:156-158); every caller that asks for screens, as
\* long as there is an output and memory, although connections fail
\* (hardware_linux.go:482-488); and a collection although commands hang, are
\* missing or fail (cmd.go:17-37), unless a process that a command left behind
\* keeps its output open for ever or the bus never answers.
WaitsEnd ==
    /\ part = "uploads" => UploadAllReturns
    /\ part = "wayland" => Y!ScreensCollected
    /\ part = "sys" => S!CollectionEnds

=============================================================================
