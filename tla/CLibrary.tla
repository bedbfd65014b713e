------------------------------ MODULE CLibrary ------------------------------
(***************************************************************************)
(* The C side of the library (insights/C/libinsights.go, internal.go): the *)
(* strings it hands to its caller, and the log callback, a global that any *)
(* thread may set while others are inside a call.  The calls themselves    *)
(* are in Frontend.tla; here a call logs some messages and returns a       *)
(* report or an error.                                                     *)
(*                                                                         *)
(* The callback is read and written without synchronisation: whether       *)
(* call_log_callback reads it once or once more for the call itself is the *)
(* compiler's choice.                                                      *)
(***************************************************************************)
EXTENDS Naturals

CONSTANTS Threads,
          Callbacks,   \* functions the application registers
          MaxSets,     \* bound: times the callback is set
          MaxLogs      \* bound: messages of a call

\* The null pointer; no callback.
Null == "NULL"

VARIABLES callback,    \* global_log_callback
          sets,        \* bound, and the number of changes of the callback
          at,          \* where the call of a thread is
          logger,      \* the logger toGoInsightsConfig chose for the call
          read,        \* what call_log_callback has read
          logs,        \* bound: messages the call has logged
          want,        \* the call was given an out_report
          out, err,    \* the caller's report pointer, the string returned
          \* history
          since,       \* value of sets when the call began
          missed,      \* threads whose call logged a message nobody got
          nullCalls,   \* the null pointer was called
          twiceFreed   \* a string was freed that was no longer allocated

call == <<at, logger, read, logs, want, since>>
clib == <<callback, sets, call, out, err, missed, nullCalls, twiceFreed>>

CTypeOK ==
    /\ callback \in Callbacks \cup {Null}
    /\ sets \in 0 .. MaxSets
    /\ at \in [Threads -> {"idle", "run", "check", "call", "back"}]
    /\ logger \in [Threads -> {"text", "callback"}]
    /\ read \in [Threads -> Callbacks \cup {Null}]
    /\ logs \in [Threads -> 0 .. MaxLogs]
    /\ want \in [Threads -> BOOLEAN]
    /\ out \in [Threads -> {"nil", "live", "dangling"}]
    /\ err \in [Threads -> {"nil", "live"}]
    /\ since \in [Threads -> 0 .. MaxSets]
    /\ missed \in SUBSET Threads
    \* a report that is alive is the result of a call that is not over
    /\ \A t \in Threads :
         out[t] = "live" => at[t] = "back" /\ want[t] /\ err[t] = "nil"

CInit ==
    /\ callback = Null /\ sets = 0
    /\ at = [t \in Threads |-> "idle"]
    /\ logger = [t \in Threads |-> "text"]
    /\ read = [t \in Threads |-> Null]
    /\ logs = [t \in Threads |-> 0]
    /\ want = [t \in Threads |-> FALSE]
    /\ out = [t \in Threads |-> "nil"]
    /\ err = [t \in Threads |-> "nil"]
    /\ since = [t \in Threads |-> 0]
    /\ missed = {} /\ nullCalls = FALSE /\ twiceFreed = FALSE

-----------------------------------------------------------------------------
Goto(t, l) == at' = [at EXCEPT ![t] = l]

\* insights_set_log_callback, from any thread.
SetLogCallback(cb) ==
    /\ sets < MaxSets
    /\ callback' = cb
    /\ sets' = sets + 1
    /\ UNCHANGED <<call, out, err, missed, nullCalls, twiceFreed>>

\* Mutant of ChosenLogger: the callback is looked at the wrong way round.
ChosenLoggerText == "text"

\* toGoInsightsConfig asks has_log_callback once.
ChosenLogger == IF callback = Null THEN "text" ELSE "callback"

\* A thread enters the library, with or without an out_report.
Enter(t) ==
    /\ at[t] = "idle"
    /\ Goto(t, "run")
    /\ logger' = [logger EXCEPT ![t] = ChosenLogger]
    /\ logs' = [logs EXCEPT ![t] = 0]
    /\ want' \in {[want EXCEPT ![t] = w] : w \in BOOLEAN}
    /\ since' = [since EXCEPT ![t] = sets]
    /\ missed' = missed \ {t}
    /\ UNCHANGED <<callback, sets, read, out, err, nullCalls, twiceFreed>>

\* The call logs a message, to the text handler or through the callback.
Log(t) ==
    /\ at[t] = "run"
    /\ logs[t] < MaxLogs
    /\ logs' = [logs EXCEPT ![t] = @ + 1]
    /\ Goto(t, IF logger[t] = "callback" THEN "check" ELSE "run")
    /\ missed' = IF logger[t] = "text" /\ since[t] = sets /\ callback # Null
                 THEN missed \cup {t} ELSE missed
    /\ UNCHANGED <<callback, sets, logger, read, want, since, out, err,
                   nullCalls, twiceFreed>>

\* call_log_callback: the message is dropped if there is no callback ...
Check(t) ==
    /\ at[t] = "check"
    /\ read' = [read EXCEPT ![t] = callback]
    /\ Goto(t, IF callback = Null THEN "run" ELSE "call")
    /\ missed' = IF callback = Null /\ since[t] = sets
                 THEN missed \cup {t} ELSE missed
    /\ UNCHANGED <<callback, sets, logger, logs, want, since, out, err,
                   nullCalls, twiceFreed>>

\* ... and the call goes to what was read, or to what is there now.
Invoke(t) ==
    /\ at[t] = "call"
    /\ \E target \in {read[t], callback} : nullCalls' = (nullCalls \/ target = Null)
    /\ Goto(t, "run")
    /\ UNCHANGED <<callback, sets, logger, read, logs, want, since, out, err,
                   missed, twiceFreed>>

\* Mutant of OutAfterError: the pointer of the caller is left as it was.
OutAfterErrorKept(t) == out[t]

\* Mutant of OutAfterError: the report is handed out beside the error.
OutAfterErrorReport(t) == IF want[t] THEN "live" ELSE out[t]

\* An error leaves no report behind in out_report.
OutAfterError(t) == IF want[t] THEN "nil" ELSE out[t]

\* collectCustomInsights and compileCustomInsights return; the other calls do
\* what they do without an out_report.
Leave(t) ==
    /\ at[t] = "run"
    /\ Goto(t, "back")
    /\ \/ /\ err' = [err EXCEPT ![t] = "live"]
          /\ out' = [out EXCEPT ![t] = OutAfterError(t)]
       \/ /\ err' = [err EXCEPT ![t] = "nil"]
          /\ out' = [out EXCEPT ![t] = IF want[t] THEN "live" ELSE @]
    /\ UNCHANGED <<callback, sets, logger, read, logs, want, since, missed,
                   nullCalls, twiceFreed>>

\* The application frees the strings it was given, and keeps the pointer.
Free(t) ==
    /\ at[t] = "back"
    /\ Goto(t, "idle")
    /\ err' = [err EXCEPT ![t] = "nil"]
    /\ out' = [out EXCEPT ![t] = IF want[t] /\ @ # "nil" THEN "dangling" ELSE @]
    /\ twiceFreed' = (twiceFreed \/ (want[t] /\ out[t] = "dangling"))
    /\ UNCHANGED <<callback, sets, logger, read, logs, want, since, missed,
                   nullCalls>>

Thread(t) == Enter(t) \/ Log(t) \/ Check(t) \/ Invoke(t) \/ Leave(t) \/ Free(t)

CNext ==
    \/ \E cb \in Callbacks \cup {Null} : SetLogCallback(cb)
    \/ \E t \in Threads : Thread(t)

CSpec == CInit /\ [][CNext]_clib

-----------------------------------------------------------------------------
\* A caller that frees the report whenever its pointer is set after a call,
\* and uses the same pointer for the next call, frees every report once, in
\* whatever order calls fail, succeed or are given no pointer
\* (libinsights.go:71-90, 128-147).
FreedOnce == ~twiceFreed

\* As long as the callback is not changed after a call began, the messages of
\* the call reach it (libinsights.go:379-401).
MessagesReachCallback == missed = {}

\* "Pass NULL to reset to default behavior" (libinsights.go:334), while "The
\* callback may be called concurrently from multiple threads": a reset during
\* a call never makes it call the null pointer (internal.go:23-27).
ResetIsSafe == ~nullCalls

=============================================================================
