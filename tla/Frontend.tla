------------------------------ MODULE Frontend ------------------------------
(***************************************************************************)
(* The three ways into the client: the command line                        *)
(* (insights/cmd/insights), the Go package (insights/api.go) and the C     *)
(* library (insights/C/libinsights.go), over the files of several sources. *)
(* How calls interleave is the subject of Client.tla and Uploads.tla; here *)
(* a call is one step, and what matters is which files it changes and what *)
(* it tells its caller.                                                    *)
(*                                                                         *)
(* A report is in the current collection period and too young to be        *)
(* uploaded, or neither; a source has at most one of each age in a         *)
(* directory.  Periods, ages and retention are in ReportStore.tla.         *)
(***************************************************************************)
EXTENDS Naturals, Sequences, FiniteSets

CONSTANTS Platform,    \* the source that stands for no source
          Sources,     \* sources, the platform among them
          Fronts,      \* the ways in that are used
          InitConsent, \* contents the consent files may start with
          MaxCalls     \* bound: calls in a behaviour

ASSUME FrontendAssumption ==
    /\ Platform \in Sources /\ "" \notin Sources
    /\ Fronts \subseteq {"cli", "go", "c"}
    /\ InitConsent \subseteq {"missing", "granted", "denied", "malformed"}
    /\ MaxCalls \in Nat

VARIABLES consent,     \* the consent file of each source
          sysConfig,   \* the system configuration file
          cacheDir,    \* the reports directory exists
          dirs,        \* the sources with a directory in it
          local, uploaded,   \* their reports
          answer,      \* a call that returned, until its caller goes on
          calls        \* bound

files == <<consent, sysConfig, cacheDir, dirs, local, uploaded>>
frontend == <<files, answer, calls>>

Contents == {"missing", "granted", "denied", "malformed"}
Configs == {"missing", "optedOut", "optedIn", "malformed"}
Ages == {"new", "old"}
Reports == [Ages -> {"none", "full", "optout"}]
NoReports == [a \in Ages |-> "none"]
Names == Sources \cup {""}
Flags == SUBSET {"force", "dry"}
NoAnswer == [by |-> "none", op |-> "none", names |-> {}, flags |-> {},
             err |-> "none", value |-> "none", usage |-> FALSE]

FrontendTypeOK ==
    /\ consent \in [Sources -> Contents]
    /\ sysConfig \in Configs
    /\ cacheDir \in BOOLEAN
    /\ dirs \in SUBSET Sources /\ (dirs # {} => cacheDir)
    /\ local \in [Sources -> Reports] /\ uploaded \in [Sources -> Reports]
    /\ \A s \in Sources \ dirs : local[s] = NoReports /\ uploaded[s] = NoReports
    /\ calls \in 0 .. MaxCalls

\* A report that was there before, or none.  One of the same name may be found
\* in both directories after a forced upload and a forced collection.
EarlierReports(content) == {NoReports, [NoReports EXCEPT !["old"] = content]}

FrontendInit ==
    /\ consent \in [Sources -> InitConsent]
    /\ sysConfig \in {"missing", "malformed"}
    /\ dirs \in SUBSET (Sources \ {Platform})
    /\ cacheDir = (dirs # {})
    /\ local \in [Sources -> EarlierReports("full")]
    /\ uploaded \in [Sources -> EarlierReports("optout")]
    /\ \A s \in Sources \ dirs : local[s] = NoReports /\ uploaded[s] = NoReports
    /\ answer = NoAnswer
    /\ calls = 0

-----------------------------------------------------------------------------
(***************************************************************************)
(* The files.                                                              *)
(***************************************************************************)
\* Mutant of FileOf: every source shares the file of the platform.
FileOfPlatform(n) == Platform

\* getFile and collector.Sanitize: no name stands for the platform.
FileOf(n) == IF n = "" THEN Platform ELSE n

\* GetState of a manager made by New, which reads the file of the source only.
SourceState(n) ==
    CASE consent[FileOf(n)] = "granted" -> "true"
      [] consent[FileOf(n)] = "denied" -> "false"
      [] consent[FileOf(n)] = "missing" -> "notFound"
      [] OTHER -> "error"

IsOptedOut ==
    CASE sysConfig = "malformed" -> "error"
      [] sysConfig = "optedOut" -> "true"
      [] OTHER -> "false"

\* GetState of a manager made by NewWithSystemConfig.
HonouredState(n) ==
    CASE IsOptedOut = "error" -> "error"
      [] IsOptedOut = "true" -> "false"
      [] OTHER -> SourceState(n)

\* The error of a GetState: none when there is a state.
ErrorOf(state) ==
    CASE state = "notFound" -> "notFound"
      [] state = "error" -> "other"
      [] OTHER -> "none"

Payload(n) == IF HonouredState(n) = "true" THEN "full" ELSE "optout"

-----------------------------------------------------------------------------
(***************************************************************************)
(* What the packages below do, as the sets of their possible outcomes: the *)
(* error, and the reports and directories they leave.                      *)
(***************************************************************************)
\* Source metrics: an object or none, a JSON value that is no object, text that
\* is no JSON, a file that does not exist, or both a file and JSON.
Metrics == {"object", "array", "garbage", "absent", "both"}

\* collector.New refuses a configuration; compile refuses the metrics.  Text
\* that is no JSON is found by the first when passed, by the second in a file.
NewError(m, inFile) ==
    IF m = "both" \/ (m = "garbage" /\ ~inFile) THEN "sanitize" ELSE "none"

CompileError(m) ==
    IF m \in {"array", "garbage", "absent"} THEN "metrics" ELSE "none"

\* Mutant of Cleared: the reports are removed in a dry run as well.
ClearedAlways(s, f, a) ==
    IF "force" \in f THEN [local[s] EXCEPT ![a] = "none"] ELSE local[s]

\* handleDuplicates, forced: the reports of the period are removed.
Cleared(s, f, a) ==
    IF "force" \in f /\ "dry" \notin f
    THEN [local[s] EXCEPT ![a] = "none"] ELSE local[s]

\* Mutant of MakeDirs: the directories of the source are not recorded.
MakeDirsNot(s) == dirs

MakeDirs(s) == dirs \cup {s}

\* A report of the period is there, uploaded or not.
DuplicateExists(s, a) == local[s][a] # "none" \/ uploaded[s][a] # "none"

\* collector.Write of a report of age a: consent, duplicates, and the write,
\* which may fail before or after a forced one has cleared the period, and
\* even when the report is there and the old ones are to be removed.
WriteOutcomes(n, f, a) ==
    LET s == FileOf(n)
        state == HonouredState(n)
        same == [err |-> "none", dirs |-> dirs, reports |-> local[s]]
        cleared == [same EXCEPT !.reports = Cleared(s, f, a)]
        made == [cleared EXCEPT !.dirs = MakeDirs(s)]
        written == [made EXCEPT !.reports[a] = Payload(n)]
    IN  IF ErrorOf(state) # "none" THEN {[same EXCEPT !.err = ErrorOf(state)]}
        ELSE IF "force" \notin f /\ DuplicateExists(s, a)
          THEN {[same EXCEPT !.err = "duplicate"]}
        ELSE IF "dry" \in f THEN {cleared}
        ELSE {written} \cup {[o EXCEPT !.err = "other"] :
                                o \in {same, cleared, made, written}}

\* The reports of a source that Upload tries to send.
Eligible(s, f) ==
    {a \in Ages : local[s][a] # "none" /\ ("force" \in f \/ a = "old")}

\* Mutant of UploadError: a report that cannot be sent is not an error.
UploadErrorLax(n, f, lost) ==
    CASE n = "" -> "other"
      [] n # "" /\ HonouredState(n) = "error" -> "other"
      [] OTHER -> "none"

\* One source of an UploadAll, `lost` being the reports that cannot be sent.  A
\* report found among the uploaded ones is an error unless forced.
UploadError(n, f, lost) ==
    CASE n = "" -> "other"
      [] n # "" /\ HonouredState(n) = "notFound" -> "none"
      [] n # "" /\ HonouredState(n) = "error" -> "other"
      [] OTHER -> IF lost # {}
                     \/ \E a \in Eligible(n, f) :
                            "force" \notin f /\ uploaded[n][a] # "none"
                  THEN "other" ELSE "none"

\* The reports an Upload of the source sends or fails to send.
Attempted(n, f) ==
    IF n = "" \/ "dry" \in f \/ ErrorOf(HonouredState(n)) # "none" THEN {}
    ELSE {a \in Eligible(n, f) : "force" \in f \/ uploaded[n][a] = "none"}

\* UploadAll: every source is handled, and makes its directories.
UploadAll(ns, f, err) ==
    \E lost \in SUBSET UNION {{n} \X Attempted(n, f) : n \in ns} :
        LET lostOf(n) == {a \in Ages : <<n, a>> \in lost}
            sent(s) == IF s \in ns THEN Attempted(s, f) \ lostOf(s) ELSE {}
        IN  /\ dirs' = dirs \cup (ns \ {""})
            /\ cacheDir' = (cacheDir \/ ns \ {""} # {})
            /\ local' = [s \in Sources |-> [a \in Ages |->
                           IF a \in sent(s) THEN "none" ELSE local[s][a]]]
            /\ uploaded' = [s \in Sources |-> [a \in Ages |->
                           IF a \in sent(s) THEN
                              (IF HonouredState(s) = "true" THEN local[s][a]
                               ELSE "optout")
                           ELSE uploaded[s][a]]]
            /\ err = IF \E n \in ns : UploadError(n, f, lostOf(n)) # "none"
                     THEN "other" ELSE "none"
    /\ UNCHANGED <<consent, sysConfig>>

Answer(by, op, names, flags, err, value, usage) ==
    /\ answer' = [by |-> by, op |-> op, names |-> names, flags |-> flags,
                  err |-> err, value |-> value, usage |-> usage]
    /\ calls' = calls + 1

-----------------------------------------------------------------------------
(***************************************************************************)
(* The Go package, and the C library on top of it, which turns a NULL      *)
(* source into no name, an error into a string, and the error of a getter  *)
(* into a value.                                                           *)
(***************************************************************************)
\* A report is filed as collector.Write decides; `err` is what it returns.
FileReport(n, f, a, err) ==
    \E o \in WriteOutcomes(n, f, a) :
        /\ err = o.err
        /\ local' = [local EXCEPT ![FileOf(n)] = o.reports]
        /\ dirs' = o.dirs
        /\ UNCHANGED <<consent, sysConfig, uploaded>>

\* Mutant of Tolerated: a missing consent file is never an error.
ToleratedAlways(f, err) == err \in {"none", "notFound"}

\* In a dry run a missing consent file is not an error.
Tolerated(f, err) == err = "none" \/ ("dry" \in f /\ err = "notFound")

\* Config.Collect
Collect(by, n, m, f) ==
    /\ IF NewError(m, FALSE) # "none"
       THEN /\ Answer(by, "collect", {n}, f, NewError(m, FALSE), "none", FALSE)
            /\ UNCHANGED files
       ELSE /\ cacheDir' = TRUE
            /\ IF CompileError(m) # "none"
               THEN /\ Answer(by, "collect", {n}, f, CompileError(m), "none", FALSE)
                    /\ UNCHANGED <<consent, sysConfig, dirs, local, uploaded>>
               ELSE \E err \in {"none", "notFound", "duplicate", "other"} :
                      /\ FileReport(n, f, "new", err)
                      /\ IF Tolerated(f, err)
                         THEN Answer(by, "collect", {n}, f, "none", "report", FALSE)
                         ELSE Answer(by, "collect", {n}, f, err, "none", FALSE)

\* Config.Compile: consent is not asked for, and nothing is filed.
Compile(by, m) ==
    LET err == IF NewError(m, FALSE) # "none" THEN NewError(m, FALSE)
               ELSE CompileError(m)
    IN  /\ cacheDir' = (cacheDir \/ NewError(m, FALSE) = "none")
        /\ Answer(by, "compile", {}, {}, err,
                  IF err = "none" THEN "report" ELSE "none", FALSE)
        /\ UNCHANGED <<consent, sysConfig, dirs, local, uploaded>>

\* Config.Write of a report that can or cannot be decoded, and that was collected
\* in this period or in an earlier one.
Write(by, n, a, valid, f) ==
    /\ cacheDir' = TRUE
    /\ IF ~valid
       THEN /\ Answer(by, "write", {n}, f, "other", a, FALSE)
            /\ UNCHANGED <<consent, sysConfig, dirs, local, uploaded>>
       ELSE \E err \in {"none", "notFound", "duplicate", "other"} :
              /\ FileReport(n, f, a, err)
              /\ Answer(by, "write", {n}, f, err, a, FALSE)

\* The directory Config.Upload looks for sources in when it is given none: the
\* consent directory, which holds files only and exists once there is one.
ListConsentDir ==
    IF \E s \in Sources : consent[s] # "missing"
    THEN [err |-> "none", found |-> {}] ELSE [err |-> "other", found |-> {}]

\* GetAllSources of the reports directory.
GetAllSources ==
    IF cacheDir THEN [err |-> "none", found |-> dirs]
    ELSE [err |-> "other", found |-> {}]

\* Sanitize and UploadAll, given where Sanitize looks for sources.
UploadFrom(listing, by, ns, f) ==
    \/ /\ ns = {} /\ listing.err # "none"
       /\ Answer(by, "upload", ns, f, listing.err, "none", FALSE)
       /\ UNCHANGED files
    \/ /\ ns # {} \/ listing.err = "none"
       /\ \E err \in {"none", "other"} :
            /\ UploadAll(IF ns = {} THEN listing.found ELSE ns, f, err)
            /\ Answer(by, "upload", ns, f, err, "none", FALSE)

\* Config.Upload
Upload(by, ns, f) == UploadFrom(ListConsentDir, by, ns, f)

\* Mutant of StateValue: the C library cannot tell an error from a refusal.
StateValueFalse(by, state) == IF state = "true" THEN "true" ELSE "false"

\* The value of a state: false beside an error in Go, unknown in C.
StateValue(by, state) ==
    IF state \in {"true", "false"} THEN state
    ELSE IF by = "c" THEN "unknown" ELSE "false"

\* Config.GetConsentState: the error is formatted into another one with %v, so
\* that its kind is lost.  In C there is the value only.
GetConsentState(by, n) ==
    LET state == SourceState(n)
        err == IF ErrorOf(state) = "none" \/ by = "c" THEN "none" ELSE "other"
    IN  /\ Answer(by, "getConsent", {n}, {}, err, StateValue(by, state), FALSE)
        /\ UNCHANGED files

\* Config.SetConsentState, which may fail before the file is in its place, or
\* after, when its permissions are set.
SetConsentState(by, n, state) ==
    LET kept == [consent EXCEPT ![FileOf(n)] =
                    IF state = "true" THEN "granted" ELSE "denied"]
    IN  /\ UNCHANGED <<sysConfig, cacheDir, dirs, local, uploaded>>
        /\ \/ /\ consent' = kept
              /\ Answer(by, "setConsent", {n}, {}, "none", state, FALSE)
           \/ /\ consent' \in {consent, kept}
              /\ Answer(by, "setConsent", {n}, {}, "other", "none", FALSE)

\* Config.IsSystemOptOut: in C an error is reported as not opted out.
IsSystemOptOut(by) ==
    /\ Answer(by, "getOptOut", {}, {},
              IF IsOptedOut = "error" /\ by = "go" THEN "other" ELSE "none",
              IF IsOptedOut = "error" THEN "false" ELSE IsOptedOut, FALSE)
    /\ UNCHANGED files

SetOptOut(state) ==
    sysConfig' = IF state = "true" THEN "optedOut" ELSE "optedIn"

\* Config.SetSystemOptOut, which may fail in the same two ways.
SetSystemOptOut(by, state) ==
    /\ UNCHANGED <<consent, cacheDir, dirs, local, uploaded>>
    /\ \/ SetOptOut(state) /\ Answer(by, "setOptOut", {}, {}, "none", state, FALSE)
       \/ /\ SetOptOut(state) \/ UNCHANGED sysConfig
          /\ Answer(by, "setOptOut", {}, {}, "other", "none", FALSE)

-----------------------------------------------------------------------------
(***************************************************************************)
(* The C functions: a NULL source, also in the array of an upload, is no   *)
(* name, NULL flags are none, and a report that is NULL cannot be decoded. *)
(***************************************************************************)
CollectCustomInsights(n, m, f) == Collect("c", n, m, f)
CompileCustomInsights(m) == Compile("c", m)
WriteCustomInsights(n, a, valid, f) == Write("c", n, a, valid, f)
UploadCustomInsights(ns, f) == Upload("c", ns, f)
GetCustomConsentState(n) == GetConsentState("c", n)
SetCustomConsentState(n, state) == SetConsentState("c", n, state)
GetCustomSystemOptOut == IsSystemOptOut("c")
SetCustomSystemOptOutState(state) == SetSystemOptOut("c", state)

-----------------------------------------------------------------------------
(***************************************************************************)
(* The command line.  run turns an error into the exit code 1, or 2 when   *)
(* the usage is to be shown.                                               *)
(***************************************************************************)
\* The command is refused before it runs: wrong arguments or flags that exclude
\* each other, or a configuration file that cannot be read.
Refused(op) ==
    /\ \E usage \in BOOLEAN : Answer("cli", op, {}, {}, "other", "none", usage)
    /\ UNCHANGED files

\* Mutant of RunError: whatever Write returns is only warned about.
RunErrorLax(err) == "none"

\* collectRun only warns when there is no consent file.
RunError(err) == IF err = "notFound" THEN "none" ELSE err

\* collectRun, with the metrics in a file; cobra has looked for the file.
CollectRun(n, m, f) ==
    IF m = "absent"
    THEN /\ Answer("cli", "collect", {n}, f, "other", "none", TRUE)
         /\ UNCHANGED files
    ELSE /\ cacheDir' = TRUE
         /\ IF CompileError(m) # "none"
            THEN /\ Answer("cli", "collect", {n}, f, CompileError(m), "none", FALSE)
                 /\ UNCHANGED <<consent, sysConfig, dirs, local, uploaded>>
            ELSE \E err \in {"none", "notFound", "duplicate", "other"} :
                   /\ FileReport(n, f, "new", err)
                   /\ Answer("cli", "collect", {n}, f, RunError(err), "report",
                             FALSE)

\* uploadRun
UploadRun(ns, f) == UploadFrom(GetAllSources, "cli", ns, f)

\* The spellings of a state: not given, the ones ParseBool knows, one that it
\* would know in lower case, and nonsense.
Spellings == {"", "true", "false", "tRUE", "junk"}

\* PreRunE parses the state as it was spelt.
StateRefused(state) == state \in {"tRUE", "junk"}

\* Mutant of Unset: a state that cannot be set is skipped.
UnsetSkipped(state, done, names) == FALSE

\* Setting the states stopped before the last source.
Unset(state, done, names) == state # "" /\ done < Len(names)

\* consentRun sets the state of one source after the other and stops at the
\* first that fails, whose file may be written all the same; then it reads them
\* all, and fails if it cannot read one.
ConsentRun(ns, state) ==
    LET names == IF ns = <<>> THEN <<"">> ELSE ns
        asked == {names[i] : i \in 1 .. Len(names)}
        kept == IF state = "true" THEN "granted" ELSE "denied"
    IN  IF StateRefused(state)
        THEN Answer("cli", "consent", asked, {}, "other", state, TRUE)
             /\ UNCHANGED files
        ELSE \E done, written \in 0 .. Len(names) :
               /\ written \in {done, done + 1}
               /\ state = "" => written = 0
               /\ consent' = [s \in Sources |->
                     IF \E i \in 1 .. written : FileOf(names[i]) = s THEN kept
                     ELSE consent[s]]
               /\ Answer("cli", "consent", asked, {},
                     IF \/ Unset(state, done, names)
                        \/ \E n \in asked :
                            consent'[FileOf(n)] \in {"missing", "malformed"}
                     THEN "other" ELSE "none", state, FALSE)
               /\ UNCHANGED <<sysConfig, cacheDir, dirs, local, uploaded>>

\* The system-opt-out command: sets the state if there is one, which may fail,
\* and reads it.
SystemOptOutRun(state) ==
    /\ UNCHANGED <<consent, cacheDir, dirs, local, uploaded>>
    /\ \/ /\ StateRefused(state)
          /\ Answer("cli", "optOut", {}, {}, "other", "none", TRUE)
          /\ UNCHANGED sysConfig
       \/ /\ state \in {"true", "false"}
          /\ \/ SetOptOut(state) /\ Answer("cli", "optOut", {}, {}, "none", state, FALSE)
             \/ /\ Answer("cli", "optOut", {}, {}, "other", "none", FALSE)
                /\ SetOptOut(state) \/ UNCHANGED sysConfig
       \/ /\ state = ""
          /\ Answer("cli", "optOut", {}, {},
                    IF IsOptedOut = "error" THEN "other" ELSE "none",
                    IF IsOptedOut = "error" THEN "none" ELSE IsOptedOut, FALSE)
          /\ UNCHANGED sysConfig

ExitCode == IF answer.err = "none" THEN 0 ELSE IF answer.usage THEN 2 ELSE 1

-----------------------------------------------------------------------------
\* A new collection period begins for a source, and its report becomes old
\* enough to be uploaded.
Age(s) ==
    /\ local[s]["old"] = "none" /\ uploaded[s]["old"] = "none"
    /\ local[s]["new"] # "none" \/ uploaded[s]["new"] # "none"
    /\ local' = [local EXCEPT ![s] = [old |-> @["new"], new |-> "none"]]
    /\ uploaded' = [uploaded EXCEPT ![s] = [old |-> @["new"], new |-> "none"]]
    /\ UNCHANGED <<consent, sysConfig, cacheDir, dirs, answer, calls>>

\* The caller has seen the answer.
Seen ==
    /\ answer # NoAnswer
    /\ answer' = NoAnswer
    /\ UNCHANGED <<files, calls>>

GoPackage ==
    \/ \E n \in Names, m \in Metrics, f \in Flags : Collect("go", n, m, f)
    \/ \E m \in Metrics : Compile("go", m)
    \/ \E n \in Names, a \in Ages, valid \in BOOLEAN, f \in Flags :
          Write("go", n, a, valid, f)
    \/ \E ns \in SUBSET Names, f \in Flags : Upload("go", ns, f)
    \/ \E n \in Names : GetConsentState("go", n)
    \/ \E n \in Names, state \in {"true", "false"} :
          SetConsentState("go", n, state)
    \/ IsSystemOptOut("go")
    \/ \E state \in {"true", "false"} : SetSystemOptOut("go", state)

CFunctions ==
    \/ \E n \in Names, m \in Metrics, f \in Flags : CollectCustomInsights(n, m, f)
    \/ \E m \in Metrics : CompileCustomInsights(m)
    \/ \E n \in Names, a \in Ages, valid \in BOOLEAN, f \in Flags :
          WriteCustomInsights(n, a, valid, f)
    \/ \E ns \in SUBSET Names, f \in Flags : UploadCustomInsights(ns, f)
    \/ \E n \in Names : GetCustomConsentState(n)
    \/ \E n \in Names, state \in {"true", "false"} : SetCustomConsentState(n, state)
    \/ GetCustomSystemOptOut
    \/ \E state \in {"true", "false"} : SetCustomSystemOptOutState(state)

CommandLine ==
    \/ \E op \in {"collect", "upload", "consent", "optOut"} : Refused(op)
    \/ \E f \in Flags : CollectRun("", "object", f)
    \/ \E n \in Names, m \in Metrics \ {"both"}, f \in Flags :
          CollectRun(n, m, f)
    \/ \E ns \in SUBSET Names, f \in Flags : UploadRun(ns, f)
    \/ \E k \in 0 .. 2 : \E ns \in [1 .. k -> Names], state \in Spellings :
          ConsentRun(ns, state)
    \/ \E state \in Spellings : SystemOptOutRun(state)

FrontendNext ==
    \/ Seen
    \/ answer = NoAnswer /\ \E s \in Sources : Age(s)
    \/ /\ answer = NoAnswer
       /\ calls < MaxCalls
       /\ \/ "cli" \in Fronts /\ CommandLine
          \/ "go" \in Fronts /\ GoPackage
          \/ "c" \in Fronts /\ CFunctions

FrontendSpec == FrontendInit /\ [][FrontendNext]_frontend

-----------------------------------------------------------------------------
\* Metrics of a source are filed or sent only if the consent file of that very
\* source says so and the system is not opted out, whatever the name it was
\* called by and whatever the other sources allow (consent.go:67-115).
PerSourceConsent ==
    [][answer'.op # "none" =>
         \A s \in Sources, a \in Ages :
            \/ local'[s][a] = "full" /\ local[s][a] # "full"
            \/ uploaded'[s][a] = "full" /\ uploaded[s][a] # "full"
            => consent[s] = "granted" /\ sysConfig \in {"missing", "optedIn"}]_frontend

\* The sources an upload was asked to handle: all that have a directory when it
\* was given none.
Asked == IF answer.names = {} THEN dirs ELSE answer.names \ {""}

\* An upload that reports success has left no report that was due in the
\* sources it handled, unless it was a dry run or there is no consent file.
UploadDone ==
    answer.op = "upload" /\ answer.err = "none" /\ "dry" \notin answer.flags =>
        \A s \in Asked :
            \/ HonouredState(s) = "notFound"
            \/ Eligible(s, answer.flags) = {}

\* ... whoever names the sources, and the command line when nobody does
\* (uploader/upload.go:31-64, commands/upload.go:43-58).
UploadTold == answer.names # {} \/ answer.by = "cli" => UploadDone

\* "If sources is empty, all reports found are handled" (api.go:202),
\* "sources may be NULL or empty to handle all reports" (libinsights.go:200).
AllHandled == answer.names = {} => UploadDone

\* A collection that reports success has filed a report of the source, with the
\* metrics exactly if it has consent; the command line and a dry run also
\* succeed without a consent file (api.go:134-138, commands/collect.go:101-107).
CollectTold ==
    answer.op \in {"collect", "write"} /\ answer.err = "none" =>
        \A n \in answer.names :
            \/ "dry" \in answer.flags
            \/ answer.by = "cli" /\ HonouredState(n) = "notFound"
            \/ local[FileOf(n)][IF answer.op = "write" THEN answer.value
                                ELSE "new"] = Payload(n)

\* A dry run changes no file, and no call but an upload touches the uploaded
\* reports (collector.go:193, commands/upload.go:36).
DryRunKeeps ==
    [][answer'.op # "none" =>
         /\ "dry" \in answer'.flags =>
               UNCHANGED <<consent, sysConfig, local, uploaded>>
         /\ answer'.op # "upload" => UNCHANGED uploaded]_frontend

\* What a caller is told about consent is what the files say afterwards, for
\* every source it asked about; the C library says unknown when they say
\* nothing (commands/consent.go:62-115, libinsights.go:257-283).
ConsentTold ==
    answer.op \in {"consent", "getConsent", "setConsent"} /\ answer.err = "none" =>
        \A n \in answer.names :
            CASE answer.value = "unknown" ->
                   SourceState(n) \in {"notFound", "error"}
              [] answer.value = "" -> SourceState(n) \in {"true", "false"}
              [] OTHER -> SourceState(n) = answer.value

\* "ErrConsentFileNotFound is returned by Consent when the consent file is not
\* found" (api.go:68).
NotFoundTold ==
    answer.op = "getConsent" /\ answer.by = "go" =>
        \A n \in answer.names :
            SourceState(n) = "notFound" => answer.err = "notFound"

\* "Ensure consent state is case insensitive" (commands/consent.go:37).
AnyCase ==
    answer.op = "consent" /\ answer.usage => answer.value # "tRUE"

=============================================================================
