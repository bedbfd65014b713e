------------------------------ MODULE Wayland ------------------------------
(***************************************************************************)
(* Asking a Wayland compositor for the screens                             *)
(* (sysinfo/hardware/hardware_linux.go, wayland_displays_linux.c).  The C  *)
(* side keeps what it finds in global arrays that grow, and a mutex on the *)
(* Go side keeps the callers apart.  When nothing is found the caller      *)
(* falls back to xrandr.                                                   *)
(*                                                                         *)
(* libwayland is external: a roundtrip delivers the outputs there are,     *)
(* and a dispatch blocks until an event comes.  Events come for the        *)
(* outputs that were bound, and for nothing else.                          *)
(***************************************************************************)
EXTENDS Naturals, FiniteSets

CONSTANTS Callers,
          MaxOutputs,  \* bound: outputs of the compositor
          Failures     \* what may fail: "connection", "memory", "growth"

VARIABLES present,     \* outputs of the compositor
          holder,      \* who holds waylandMutex
          at,          \* where each caller is
          got,         \* the screens a caller returns
          outputs, displays,   \* the arrays: "null", "valid", "freed"
          room,        \* entries the arrays really have
          count, capacity,     \* the globals of these names
          memoryError, \* the global of this name
          seen,        \* outputs announced to the holder so far
          broken       \* history: freed or foreign memory was used

arrays == <<outputs, displays, room, count, capacity>>
wayland == <<present, holder, at, got, arrays, memoryError, seen, broken>>

Nobody == "nobody"
Inside == {"alloc", "connect", "globals", "dispatch", "read"}

WaylandTypeOK ==
    /\ present \in 0 .. MaxOutputs
    /\ holder \in Callers \cup {Nobody}
    /\ at \in [Callers -> Inside \cup {"idle", "xrandr", "done"}]
    /\ got \in [Callers -> 0 .. MaxOutputs]
    /\ {outputs, displays} \subseteq {"null", "valid", "freed"}
    /\ memoryError \in BOOLEAN
    /\ seen \in 0 .. MaxOutputs
    \* one caller at a time is inside, and leaves nothing behind
    /\ \A c \in Callers : at[c] \in Inside <=> holder = c
    /\ holder = Nobody =>
         outputs = "null" /\ displays = "null" /\ count = 0 /\ capacity = 4

WaylandInit ==
    /\ present \in 0 .. MaxOutputs
    /\ holder = Nobody
    /\ at = [c \in Callers |-> "idle"]
    /\ got = [c \in Callers |-> 0]
    /\ outputs = "null" /\ displays = "null"
    /\ room = 0 /\ count = 0 /\ capacity = 4
    /\ memoryError = FALSE
    /\ seen = 0
    /\ broken = FALSE

-----------------------------------------------------------------------------
Goto(c, l) == at' = [at EXCEPT ![c] = l]
Fails(f) == f \in Failures

\* Mutant of Cleanup: the capacity is left as it was.
CleanupGrown ==
    /\ broken' = (broken \/ outputs = "freed" \/ displays = "freed")
    /\ outputs' = "null" /\ displays' = "null"
    /\ room' = 0 /\ count' = 0
    /\ memoryError' = FALSE
    /\ UNCHANGED capacity

\* cleanup: both arrays are walked and freed, and everything is reset.
Cleanup ==
    /\ broken' = (broken \/ outputs = "freed" \/ displays = "freed")
    /\ outputs' = "null" /\ displays' = "null"
    /\ room' = 0 /\ count' = 0 /\ capacity' = 4
    /\ memoryError' = FALSE

\* The caller leaves the library, with n screens, and the mutex is unlocked; with
\* none it turns to xrandr.
Unlock(c, n) ==
    /\ holder' = Nobody
    /\ got' = [got EXCEPT ![c] = n]
    /\ Goto(c, IF n = 0 THEN "xrandr" ELSE "done")

\* Mutant of Lock: nobody waits for the mutex.
LockFree(c) ==
    /\ at[c] = "idle"
    /\ holder' = c
    /\ seen' = 0
    /\ Goto(c, "alloc")
    /\ UNCHANGED <<present, got, arrays, memoryError, broken>>

Lock(c) ==
    /\ at[c] = "idle"
    /\ holder = Nobody
    /\ holder' = c
    /\ seen' = 0
    /\ Goto(c, "alloc")
    /\ UNCHANGED <<present, got, arrays, memoryError, broken>>

\* init_wayland, the two malloc calls.  When they fail the flag stays set and
\* the Go side does not clean up.
Alloc(c) ==
    /\ at[c] = "alloc"
    /\ \/ /\ outputs' = "valid" /\ displays' = "valid" /\ room' = capacity
          /\ Goto(c, "connect")
          /\ UNCHANGED <<holder, got, memoryError>>
       \/ /\ Fails("memory")
          /\ outputs' = "null" /\ displays' = "null" /\ memoryError' = TRUE
          /\ Unlock(c, 0)
          /\ UNCHANGED room
    /\ UNCHANGED <<present, count, capacity, seen, broken>>

\* Mutant of Attempt: a failing step keeps the mutex.
AttemptLocked(c, from, to) ==
    /\ at[c] = from
    /\ \/ /\ Goto(c, to)
          /\ UNCHANGED <<holder, got, arrays, memoryError, broken>>
       \/ /\ Fails("connection")
          /\ Cleanup
          /\ Goto(c, "xrandr")
          /\ UNCHANGED <<holder, got>>
    /\ UNCHANGED <<present, seen>>

\* A step of init_wayland that goes well, or fails and cleans up.
Attempt(c, from, to) ==
    /\ at[c] = from
    /\ \/ /\ Goto(c, to)
          /\ UNCHANGED <<holder, got, arrays, memoryError, broken>>
       \/ /\ Fails("connection")
          /\ Cleanup
          /\ Unlock(c, 0)
    /\ UNCHANGED <<present, seen>>

\* wl_display_connect
Connect(c) == Attempt(c, "connect", "globals")

\* Mutant of Grown: the capacity is doubled and the arrays are not.
GrownUnallocated ==
    /\ capacity' = 2 * capacity
    /\ UNCHANGED <<outputs, displays, room>>

\* The arrays are reallocated with twice the room.
Grown ==
    /\ capacity' = 2 * capacity
    /\ room' = 2 * capacity
    /\ UNCHANGED <<outputs, displays>>

\* One or both reallocations fail: the one that succeeded is freed, and the
\* globals keep pointing to what was reallocated.
GrowthFails ==
    /\ Fails("growth")
    /\ capacity' = 2 * capacity
    /\ memoryError' = TRUE
    /\ outputs' \in {outputs, "freed"}
    /\ displays' \in {displays, "freed"}
    /\ outputs' = outputs \/ displays' = displays
    /\ UNCHANGED <<room, count, broken>>

\* global_handler: an output is announced during the roundtrip.
GlobalHandler(c) ==
    /\ at[c] = "globals"
    /\ seen < present
    /\ seen' = seen + 1
    /\ \/ count >= capacity /\ GrowthFails
       \/ /\ IF count >= capacity THEN Grown
             ELSE UNCHANGED <<outputs, displays, room, capacity>>
          /\ \/ Fails("memory") /\ memoryError' = TRUE /\ UNCHANGED <<count, broken>>
             \/ /\ count' = count + 1
                /\ broken' = (broken \/ count >= room'
                              \/ outputs = "freed" \/ displays = "freed")
                /\ UNCHANGED memoryError
    /\ UNCHANGED <<present, holder, at, got>>

\* wl_display_roundtrip returns, when all the outputs have been announced; or it
\* fails, after any number of them.
Roundtrip(c) ==
    /\ Attempt(c, "globals", "dispatch")
    /\ at'[c] = "dispatch" => seen = present

\* wl_display_dispatch returns once events of an output have come; which of the
\* outputs they describe is left open.
Dispatch(c) ==
    /\ count > 0
    /\ Attempt(c, "dispatch", "read")

\* The rest of cScreensWayland, and the deferred calls.
Read(c) ==
    /\ at[c] = "read"
    /\ Unlock(c, IF memoryError THEN 0 ELSE count)
    /\ Cleanup
    /\ UNCHANGED <<present, seen>>

\* The fallback to xrandr.
Xrandr(c) ==
    /\ at[c] = "xrandr"
    /\ Goto(c, "done")
    /\ UNCHANGED <<present, holder, got, arrays, memoryError, seen, broken>>

Caller(c) ==
    \/ Alloc(c) \/ Connect(c) \/ GlobalHandler(c) \/ Roundtrip(c)
    \/ Dispatch(c) \/ Read(c) \/ Xrandr(c)

WaylandNext == \E c \in Callers : Lock(c) \/ Caller(c)

\* A caller that is inside goes on, and one that waits for the mutex gets it.
WaylandSpec ==
    /\ WaylandInit
    /\ [][WaylandNext]_wayland
    /\ \A c \in Callers : WF_wayland(Caller(c)) /\ SF_wayland(Lock(c))

-----------------------------------------------------------------------------
\* A caller gets the screens of all the outputs or turns to xrandr, although the
\* arrays grow, calls fail half way and other callers wait
\* (hardware_linux.go:536-566), and no memory is used that was freed or never
\* allocated (wayland_displays_linux.c:57-88).
AllScreens ==
    /\ ~broken
    /\ \A c \in Callers : at[c] = "done" => got[c] \in {0, present}

\* With an output to report about, and as long as there is memory, every caller
\* is served, by the compositor or by xrandr, although connections fail
\* (hardware_linux.go:482-488).
ScreensCollected ==
    \A c \in Callers :
       present > 0 => <>(at[c] = "done") \/ <>memoryError

\* "Wayland NoDisplay falls back" (hardware_linux_test.go:365): without an
\* output the callers turn to xrandr.
NoDisplayFallsBack ==
    \A c \in Callers : present = 0 => <>(at[c] = "done")

\* "Wayland MemoryError warns and falls back" (hardware_linux_test.go:353):
\* falling back after a memory error leaves the arrays alone that are gone.
MemoryErrorFallsBack == ~broken

=============================================================================
