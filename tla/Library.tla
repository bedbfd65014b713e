------------------------------ MODULE Library ------------------------------
(***************************************************************************)
(* The client as its callers see it: Frontend.tla, and beside it the parts *)
(* it has no variable in common with, the arithmetic of the reports'       *)
(* periods and the C side of the library.  A behaviour is a behaviour of   *)
(* one of them, while the others stay in an initial state.                 *)
(***************************************************************************)
EXTENDS Frontend, Integers

CONSTANTS Half, Periods, MaxKeep, MaxReports,  \* Retention
          Threads, Callbacks, MaxSets, MaxLogs  \* CLibrary

ASSUME LibraryAssumption ==
    /\ Half \in Nat \ {0} /\ Periods \subseteq 0 .. Half - 1
    /\ MaxKeep \in Nat /\ MaxReports \in Nat
    /\ MaxSets \in Nat /\ MaxLogs \in Nat

VARIABLES part,
          \* Retention
          dir, before, last,
          \* CLibrary
          callback, sets, at, logger, read, logs, want, out, err, since,
          missed, nullCalls, twiceFreed

R == INSTANCE Retention
C == INSTANCE CLibrary

retention == <<dir, before, last>>
clib == <<callback, sets, at, logger, read, logs, want, out, err, since,
          missed, nullCalls, twiceFreed>>
libraryVars == <<part, frontend, retention, clib>>

LibraryInit ==
    /\ part \in {"frontend", "retention", "clib"}
    /\ FrontendInit /\ R!RetentionInit /\ C!CInit
    /\ part # "frontend" =>
         /\ consent = [s \in Sources |-> "missing"] /\ sysConfig = "missing"
         /\ dirs = {}

LibraryNext ==
    \/ part = "frontend" /\ FrontendNext /\ UNCHANGED <<part, retention, clib>>
    \/ part = "retention" /\ R!RetentionNext /\ UNCHANGED <<part, frontend, clib>>
    \/ part = "clib" /\ C!CNext /\ UNCHANGED <<part, frontend, retention>>

LibrarySpec == LibraryInit /\ [][LibraryNext]_libraryVars

-----------------------------------------------------------------------------
\* The variables of every part keep their types.
LibraryTypeOK == FrontendTypeOK /\ R!RetentionTypeOK /\ C!CTypeOK

\* What a caller is told is so.  An upload that reports success has left no
\* report that was due (uploader/upload.go:31-64, commands/upload.go:43-58); a
\* collection that does has filed a report, with the metrics exactly if it has
\* consent (api.go:134-138, commands/collect.go:101-107); and the consent a
\* caller hears of is that of the files (commands/consent.go:62-115,
\* libinsights.go:257-283).  Each holds through every way in.
CallersTold == UploadTold /\ CollectTold /\ ConsentTold

\* Metrics of a source are filed or sent only if the consent file of that very
\* source says so and the system is not opted out, whatever name it was called
\* by (consent.go:67-115); a dry run changes no file, and no call but an upload
\* touches the uploaded reports (collector.go:193, commands/upload.go:36).
FilesChangeAsAllowed == PerSourceConsent /\ DryRunKeeps

\* DuplicateExists finds a report exactly when one lies in the window, also
\* where the window begins before the smallest timestamp (report.go:132-156);
\* ClearPeriod removes the reports of the window, all of them although it stops
\* early, but for those whose removal failed, and no others (report.go:165-193);
\* Cleanup spares as many as it is told to, or as there were, tries to remove the
\* rest, and, if the reports are less than half the range of timestamps apart,
\* spares none that is older than one of the rest (report.go:195-228).
RetentionRight == R!ExistsRight /\ R!ClearRight /\ R!CleanupKeepsNewest

\* A caller of the C library that frees the report whenever its pointer is set
\* after a call, and uses the pointer again, frees every report once, in whatever
\* order calls fail, succeed or are given no pointer (libinsights.go:71-90,
\* 128-147).  As long as the callback is not changed after a call began, the
\* messages of the call reach it (libinsights.go:379-401).
CLibraryRight == C!FreedOnce /\ C!MessagesReachCallback

=============================================================================
