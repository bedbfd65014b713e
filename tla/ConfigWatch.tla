---------------------------- MODULE ConfigWatch ----------------------------
(***************************************************************************)
(* The allow list of the two services and the goroutine that reloads it    *)
(* (server/internal/common/config).  Watch registers the directory with    *)
(* fsnotify, loads the file, and starts a goroutine that reloads it on     *)
(* every event and tells the owner through a channel with one slot.        *)
(*                                                                         *)
(* A list of names is abstracted to the set of its names.  An editor that  *)
(* truncates and then writes, or removes and then renames, leaves the file *)
(* Broken in between: a Load that reads it then fails.                     *)
(***************************************************************************)
EXTENDS Naturals, FiniteSets

CONSTANTS Apps,        \* application names
          Reserved,    \* names that may not be used as applications
          MaxEdits,    \* bound: edits of the file in a behaviour
          MaxEvents,   \* bound: events fsnotify holds
          CanOverflow, \* fsnotify may lose what it holds and report an error
          CanDie       \* fsnotify may not start, or close its channels on its own

ASSUME WatchAssumption == MaxEdits \in Nat /\ MaxEvents \in Nat

VARIABLES file,        \* the content of the allow list file
          loaded,      \* cm.config.AllowedList and cm.allowSet
          events,      \* events the watcher has not read yet
          watcher,     \* "off", "added", "on", "closing", "closed"
          changes,     \* changesCh: 0 or 1 message
          errs,        \* errorsCh: 0 or 1 message
          lost,        \* history: events were lost since the last reload
          edits        \* bound on the edits of the environment

watch == <<file, loaded, events, watcher, changes, errs, lost, edits>>

\* A content that cannot be opened or decoded; not a list of names.
Broken == {"broken"}
Names == Apps \cup Reserved
Files == (SUBSET Names) \cup {Broken}

WatchTypeOK ==
    /\ file \in Files
    /\ loaded \in SUBSET (Names \ Reserved)
    /\ events \in 0 .. MaxEvents
    /\ watcher \in {"off", "added", "on", "closing", "closed"}
    /\ changes \in 0 .. 1
    /\ errs \in 0 .. 1
    /\ lost \in BOOLEAN
    /\ edits \in 0 .. MaxEdits

WatchInit ==
    /\ file \in Files
    /\ loaded = {}
    /\ events = 0
    /\ watcher = "off"
    /\ changes = 0
    /\ errs = 0
    /\ lost = FALSE
    /\ edits = 0

-----------------------------------------------------------------------------
\* Mutant of FilterAllowList: reserved names are kept.
FilterNothing(names) == names

\* filterAllowList drops the reserved names.
FilterAllowList(names) == names \ Reserved

\* What Load leaves in the manager: the filtered list, or the previous one
\* when the file cannot be opened or decoded.
Load == IF file = Broken THEN loaded ELSE FilterAllowList(file)

IsAllowed(name) == name \in loaded

\* Somebody changes the file; an event is queued once the directory is watched.
Edit ==
    /\ edits < MaxEdits
    /\ events < MaxEvents
    /\ edits' = edits + 1
    /\ file' \in Files \ {file}
    /\ events' = IF watcher \in {"added", "on"} THEN events + 1 ELSE events
    /\ UNCHANGED <<loaded, watcher, changes, errs, lost>>

\* Watch, first part: the directory is handed to fsnotify.
AddWatch ==
    /\ watcher = "off"
    /\ watcher' = "added"
    /\ UNCHANGED <<file, loaded, events, changes, errs, lost, edits>>

\* The watcher cannot be created or the directory not be added: Watch returns
\* an error and starts nothing.
AddWatchFails ==
    /\ CanDie
    /\ watcher = "off"
    /\ UNCHANGED watch

\* Mutant of StartWatch: the initial load is left out.
StartWatchUnloaded ==
    /\ watcher = "added"
    /\ watcher' = "on"
    /\ UNCHANGED <<file, loaded, events, changes, errs, lost, edits>>

\* Watch, second part: the initial load, whose failure is only logged, and
\* the start of the goroutine.
StartWatch ==
    /\ watcher = "added"
    /\ watcher' = "on"
    /\ loaded' = Load
    /\ UNCHANGED <<file, events, changes, errs, lost, edits>>

\* The goroutine takes an event and reloads.  Only a successful load is
\* announced, and the announcement is dropped when one is already waiting.
HandleEvent ==
    /\ watcher = "on"
    /\ events > 0
    /\ events' = events - 1
    /\ loaded' = Load
    /\ changes' = IF file = Broken THEN changes ELSE 1
    /\ lost' = (lost /\ file = Broken)
    /\ UNCHANGED <<file, watcher, errs, edits>>

\* The queue of fsnotify overflows: what it held is gone and the error it
\* reports instead is only logged.
Overflow ==
    /\ CanOverflow
    /\ watcher = "on"
    /\ events > 0
    /\ events' = 0
    /\ lost' = TRUE
    /\ UNCHANGED <<file, loaded, watcher, changes, errs, edits>>

\* fsnotify closes a channel: the goroutine reports it and leaves.
WatcherDies ==
    /\ CanDie
    /\ watcher = "on"
    /\ watcher' = "closing"
    /\ errs' = 1
    /\ UNCHANGED <<file, loaded, events, changes, lost, edits>>

\* The context of Watch is done: the goroutine leaves.
WatcherStops(done) ==
    /\ done
    /\ watcher = "on"
    /\ watcher' = "closing"
    /\ UNCHANGED <<file, loaded, events, changes, errs, lost, edits>>

\* The deferred calls close errorsCh first and changesCh after it.
WatcherCloses ==
    /\ watcher = "closing"
    /\ watcher' = "closed"
    /\ UNCHANGED <<file, loaded, events, changes, errs, lost, edits>>

\* A closed channel delivers what it still holds, then reports the end.
ErrsClosed == watcher \in {"closing", "closed"} /\ errs = 0
ChangesClosed == watcher = "closed" /\ changes = 0

\* The owner receives from one of the channels.
TakeChange ==
    /\ changes = 1
    /\ changes' = 0
    /\ UNCHANGED <<file, loaded, events, watcher, errs, lost, edits>>

TakeErr ==
    /\ errs = 1
    /\ errs' = 0
    /\ UNCHANGED <<file, loaded, events, watcher, changes, lost, edits>>

WatchEnv == Edit \/ Overflow \/ WatcherDies

-----------------------------------------------------------------------------
\* Once nobody edits the file any more and it is readable, the manager comes
\* to hold its names without the reserved ones: no edit between registering
\* the directory, the initial load and the start of the goroutine is missed
\* (config.go:89-110), although announcements are dropped (config.go:141).
\* Only an overflow of fsnotify can leave the list stale (config.go:145).
LoadedFollowsFile ==
    (edits = MaxEdits /\ file # Broken /\ watcher \in {"added", "on"})
        ~> (loaded = file \ Reserved \/ lost \/ watcher \notin {"added", "on"})

=============================================================================
