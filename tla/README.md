# Verification of Ubuntu Insights

TLA+ specifications of the Ubuntu Insights client and server, model-checked with
TLC and, where it matters most, proved with TLAPS. `PROJECT.json` lists the
components, the runs, which lines each definition models, the hazards and the
theorems.

## The system

The **client** runs on a user's machine. A *collector* compiles a report for a
source and files it under `<cache>/<source>/local/<time>.json`; an *uploader*
sends the reports of a source that are old enough and moves them to
`<cache>/<source>/uploaded/`. Both ask the *consent manager*, which reads a file
per source and is overridden by a system-wide *configuration*. Without consent
an opt-out payload takes the place of the metrics. The parts are started by
timers, by users on the command line, and by programs through the Go and C
libraries. They share nothing but files and take no locks.

The **server** has two processes. The *web service* checks a request against an
allow list and writes its body to a spool directory. The *ingest service* runs
one worker for each allowed application; a worker inserts each spooled file into
a PostgreSQL table and removes it. Both follow changes of the allow list through
a *configuration watcher*. A *migrate* command brings the schema up to date.

## Modules

### Client

| Module | Models | State and actions |
|---|---|---|
| `ReportStore` | `report`, `consent`, `sysconfig`: the shared files | `local` and `uploaded` (from timestamps to nothing, metrics or opt-out payload), `consentFile`, `sysConfig`, the clock; an atomic write is one step (`fileutils.AtomicWrite`); histories of what was collected and removed on purpose |
| `Uploader` | Upload, BackoffUpload and the goroutine of a report | `call`, `mode`, `snap`, `attempts`, `errs`, `victims` per call; `pc`, `data`, `stash` per report. Every file operation and every exchange with the server is an action: ReadOptOut and ReadConsent, the two reads of GetState; Check, Read, Stash, Mark, Claim, Deliver, Accepted, or UndoWrite and UndoRemove after a failure |
| `Collector` | New, Compile, Write | the two reads of GetState, the two of the duplicate check or the listing and removals of a forced collection, the write, the Cleanup |
| `Client` | both on the same files | the steps of any number of collectors and uploaders, users who change consent and opt-out |
| `Retention` | the arithmetic of `report.go` | GetPeriodStart, DuplicateExists, ClearPeriod and Cleanup with its comparator, on words with `Half` negative and `Half` other values in place of 2^63; listings and removals that fail; `MaxKeep` in place of MaxInt32 |
| `Uploads` | UploadAll | the goroutine per source, the slots, the joined errors, the bit-exact backoff at a small width |
| `Frontend` | `api.go`, the commands, the C exports | one call after another on the files of several sources; what each way in checks, calls, returns and writes |
| `CLibrary`, `LogHandler` | `libinsights.go`, `internal.go`, `log_handler.go` | the report pointer and its owner, the log callback of several threads; handlers derived from one another, as slices of shared arrays |
| `SysInfo` | the collection on Linux | the order of the sources, commands with a timeout, the fallbacks, WSL or host |
| `Wayland` | the C code that counts screens, and its Go caller | a mutex, a connection, two arrays that grow, callers that share them |

### Server

| Module | Models | State and actions |
|---|---|---|
| `Intake` | the upload handlers | a request from its route to the rename into the spool; the time limit that answers while the handler goes on |
| `Processor` | Process, processFile, the database manager | the spool, the tables, a program counter per worker; reads, inserts, answers and removals that fail or are lost |
| `Pipeline` | `Intake` and `Processor` on one spool | either process killed at any step |
| `Delivery` | the promise of the server (abstract) | a report is taken, acknowledged, recorded, released |
| `ConfigWatch` | the configuration manager | the file, what is loaded, the start of the watch and its failure, the events of fsnotify, the one-slot channels |
| `WorkerPool` | Run, syncWorkers, appWorker | extends `ConfigWatch` and `Processor`: the registered workers, the debounce timer, cancellation, restarts |
| `HttpServer` | `net/http` as the services use it (external) | listeners, requests in progress, Shutdown, Close |
| `IngestService`, `WebService` | Run and Quit of both services | contexts, sub-services and their results, callers of Quit, the teardown limit |
| `Daemon` | `main`, the signal handler, the commands | the signal channel, `ready`, the handler that waits for it |
| `Migration` | the migrate command | the two version tables, the tables, of which the first `Expected` are looked for before `Last` migrations are run; processes that race, fail and are killed |

`Server` (`Daemon`, both services, `Migration`, `Processor`), `Waiting` (`Uploads`,
`Wayland`, `SysInfo`) and `Library` (`Frontend`, `Retention`, `CLibrary`) put parts
side by side that have no variable in common: `part` chooses one of them in the
initial state, the others stay where they are, and each property is a conjunction of
those of the parts. `MCLibrary` adds `LogHandler` to the last. `MCUploader`,
`MCClient`, `MCIngest`, `MCPipeline` and `MCServer` give a module small values.

Definitions marked *Mutant* are faulty variants of the definition they precede.
None of them is part of a specification; each shows that a property notices it.

### Abstractions

- A report is its timestamp and one of two payloads on the client; on the server
  it is a model value with what decoding and validation find in it (`Content`).
- A name, a message and an error are members of small sets. Errors keep what a
  caller can find in them with `errors.Is`.
- The order in which waiting goroutines start is left open, which allows more
  than the loops do.
- `http.NewRequest` does not fail: its URL was parsed before. A listing that fails
  in Cleanup is the case in which all its removals fail.
- A comparator that contradicts itself leaves the result of a sort open: Cleanup then
  removes any reports, as many as it should.
- A write of a consent or opt-out file that fails may have replaced the file
  already: its mode is set after the rename (fileutils.go:55-63).
- A crash is the end of a process; what it wrote stays.
- PostgreSQL is an insert that fails, takes effect, or takes effect and is reported
  as failed; and, for the migration, transactions that wait for one lock.

## Runs

| Run | Instance | Properties |
|---|---|---|
| UploaderRace | two uploaders, forced, dry or retrying, one report, every fault, consent and opt-out that change between any two reads | AcceptedOnce, DuplicateOnlyAfterLostAck, ConsentAtBothPoints, LocalIsOriginal |
| UploaderLive | two uploaders started again and again, failing sends | QuiescentStore (nobody is left with a report between the directories), EventuallyAccepted |
| ClientConsent | a collector, an uploader that retries, every fault, users who change consent and opt-out at any step | EndToEndConsent, NoReportLost, SentIsMarked, RecordIsWhatWasSent |
| ClientPeriod | a collector, plain or forced, and two uploaders killed or failing at any step, two timestamps | OncePerPeriod, ForceReplaces |
| LibraryParts | `Frontend`, three calls after one another on two sources; `Retention`, all directories of up to three reports with timestamps of three bits; `CLibrary`, two threads; `LogHandler` | CallersTold, FilesChangeAsAllowed, RetentionRight, CLibraryRight, HandlersRight |
| WaitingParts | `Uploads`, three sources, four-bit durations and pauses until they overflow; `Wayland`, three callers and six outputs; `SysInfo`, two failures | EverySourceTold, PausesGrow, AllScreens, PartsOfOneSystem, WaitsEnd |
| PipelineRun | a request of any kind, three kinds of reports, two workers of one application, every fault, kills | RefusedNotStored, NothingDropped, RowsExplained, ImplementsDelivery |
| PoolRun | an application that comes and goes, two goroutines of it, two edits at any step, overflow, a watcher that does not start or dies, cancellation, a restart | OneLiveWorker, WorkersFollowList, StopsWhenCanceled |
| ServerParts | `Daemon`, three signals; both services, two callers of Quit, requests that hang; `Migration`, two processes and every database they may find; `Processor`, one worker | ServersEnd, ReturnsComplete, MigrationSure, EventuallyDone (migrations end, and what is spooled is recorded) |

Every run but UploaderLive and ClientPeriod also checks the types of its
variables; the modules of these two are those of UploaderRace and ClientConsent.

Three runs show where the code and what is said of it differ:

| Run | Statement | What happens |
|---|---|---|
| UploaderUnmarked | upload.go:201, a report is never sent unmarked | with two uploaders, the undo of one removes the mark of the other |
| PoolReturn | workers.go:61, Run blocks until all workers are done | the cancellation closes the watcher's channels too, and Run may take that branch |
| FrontendAll | api.go:202, without sources all reports are handled | Upload lists the consent directory, where there are no reports |

### Bounds

- `MaxTime` bounds the clock and with it the number of reports. One report is
  enough for the races on a report, because goroutines of different reports share
  only the slots and the joined errors; ClientPeriod has two timestamps, which is
  where periods, retention (`MaxReports` is 1) and the clock matter. With one
  timestamp `TimePasses` and `Evict` cannot happen, and UploaderRace and
  UploaderLive leave them out (`RaceNext`).
- Two uploaders show every race found between any two. `MaxAttempts` 1 has one
  retry, with a fresh consent read. `MaxCopies` bounds the deliveries that are
  followed: 2 where duplicates are in question. In UploaderLive no answer is lost,
  so that the bound cannot hold back a delivery.
- ClientConsent has one timestamp: a forced collection replaces the report at the
  same time, which is the case that could mix up two consents. ClientPeriod has one
  collector, because two unforced ones pass the check before either writes; the
  collector is not killed there, which only takes reports away.
- PipelineRun has one request at a time: reports do not share rows or files, and
  the two workers are what makes a file contended. `MaxRows` 2 tells one row from
  two. The proofs below have no such bound.
- PoolRun has one application, whose old and new goroutine overlap, two edits and
  two events; a report of an application that is not listed must stay.
- Retention is exact at three bits. Any three timestamps may lie in the directory:
  windows that reach below the smallest one, differences that wrap, and comparators
  that are no order (0, 3 and -3) all occur, and so do a dry run, removals that fail
  and a number to keep beyond `MaxKeep`. `int` is taken to be as wide as the
  timestamps, as it is on 64-bit platforms.
- The backoff is exact at four bits. With base 3 and maximum 7 the three pauses are
  bounded by 3, by 6, and by 7 where the product overflows.
- In ServerParts three signals fill the channel, two callers are a graceful and a
  forced Quit, two migrators are a race, and two faults hit one migration twice. `Last` is
  greater than `Expected`: the old tool may have recorded a version for which
  `expectedTables` has no name.

### Fairness

Weak fairness says that goroutines, main and the handlers go on and that timers
fire, because the runtime schedules them. Beyond it:

- UploaderLive: uploads are started again and again, because a timer does; strong
  fairness of Deliver and Accepted says that a server which is asked for ever
  answers in the end. This is an assumption about the network.
- PoolRun: the watcher, Run, the timer and the workers go on; edits, overflow,
  cancellation and crashes need not happen.
- ServerParts: a service that was asked to stop does so (for `Daemon`; that it does
  is what the services' own properties say), requests have no fairness and may
  hang, a migration that failed is run again (`Up` strongly fair, because another
  process may fail it again and again), neither the listing of the spool nor the
  database fails for ever (strong fairness of List, Commit and Uploaded).
- WaitingParts: `sync.Mutex` does not starve a waiter (strong fairness of Lock).

**Deadlock** is checked where something can always be done again, in the runs of
`Uploader` and `Client`. The other systems end: services return, calls are bounded,
a worker that was told to stop stops. That they end rightly is ServersEnd,
StopsWhenCanceled and WaitsEnd.

## Refinement

`Delivery` says what a sender may rely on: a report is acknowledged only when it
was stored, and what was stored is let go only when it has its row, is not a sound
report, or could not be read. `Pipeline` implements it, with the spool as `held`,
the reports with a row as `recorded` and the uploads answered with success as `acked`.
PipelineRun checks this on its instance and `ServerDelivers` proves it for all.
The promise itself, `Delivery!Promise`, is proved of the server through it.

## Proofs

TLC checks the instances above; the theorems hold for every value of the
constants: any number of uploaders, collectors, requests, workers, applications,
edits, processes, faults and crashes. The constants are only assumed to be what the
named `ASSUME`s of the modules say: bounds are natural numbers, sets are subsets of
their types, `Requests = Reports`, a duration has at least two bits, the two retry
periods are positive (upload.go:151), the first times the largest shift reaches the
second (only a base of one nanosecond could prevent it), a collection period fits a timestamp
(it is a `uint32`), and the empty name is not that of a source. What more a theorem needs is a
hypothesis of it, and each of these leaves out a situation in which the property is
false (see *Known differences*) or of which it says nothing:

| Hypothesis | Says | Needed because |
|---|---|---|
| `SingleUploader` | uploads of a source do not overlap | UploaderUnmarked, `RecordIsWhatWasSent` |
| `Undisturbed` | nobody is killed, no file operation fails | a report half-way between the directories stays there |
| `PeriodSetting` | one collector, whose file operations succeed and whose reports carry the current time; no send is undone; retention keeps a report | the two rows of `OncePerPeriod`, `ForceReplaces`, `NamedByCurrentTime` |
| `"growth" \notin Failures` | realloc succeeds | `MemoryErrorFallsBack` |

**The claim on a report** (`UploaderProofs`): `TypeCorrect`, `AcceptedAtMostOnce`,
`DuplicatesNeedLostAcks`. AcceptedOnce is not inductive: it has to be known who may
still send. `ClaimInv` says that the claim is in one place: the local directory, one
goroutine, or nowhere once it was accepted. Claim takes it, Accepted ends it,
UndoWrite gives it back. `CopiesInv` adds that while a report can still be sent
every delivery so far was answered by nothing.

**Consent of an upload** (`UploaderProofs`): `MetricsNeedConsent`,
`LocalStaysOriginal`. `ConsentInv` follows the metrics from the file to memory and
back: metrics in memory belong to an attempt that read consent as given and to a
report collected with it, and the stash is what was collected. GetState reads the
opt-out and then the file of the source, and both may change at any moment.
The history therefore says, for an attempt, whether the system was without an opt-out
at some time of it (`systemDuring`) and whether the source's consent was granted at
that time or later (`grantedDuring`), as every change and every start of an attempt
leaves them. `SeenInv` relates this to the place of the call: one
that is between the two reads has had such a time, and one that read consent as given
has had both. The theorem promises no more, because no more is true: see *Known
differences*.

**After the races** (`UploaderProofs`, `Undisturbed`): `RacesSettle`. QuiescentStore
speaks of the moment when all have returned; `SettledInv` says why it will hold: a
report that is in both directories has a goroutine about to take it out of one, and
one that is in neither, or only marked, was accepted or is held by a goroutine that
kept its content for the undo.

**One uploader** (`UploaderProofs`, `SingleUploader`): `ReportsAreKept`,
`SentReportsAreMarked`, `RecordsAreFaithful`. `SoloInv` says where the two files of
a report are at each step of its goroutine. The assumption is needed: see
UploaderUnmarked, and `RecordIsWhatWasSent` below.

**Consent from end to end** (`ClientProofs`): `ConsentEndToEnd`. With collectors in
the system a report may be collected again under the same timestamp while an
earlier one is in memory, so `ConsentInv` no longer holds. `AttemptInv` traces
metrics, in memory, in a stash or on disk, to *some* Write that had consent;
`WriteInv` is `SeenInv` for a Write: one that read consent as given had a time
without an opt-out and, then or later, a granted consent.

**Once per period** (`ClientProofs`, `PeriodSetting`): `CollectsOncePerPeriod`,
`ForcedWriteReplaces`, and `ClientTypes` without the hypothesis. The argument is about
the newest report: timestamps only grow (`OrderInv`), no retention pass, of either
directory, takes the newest (`VictimsInv`), so it is visible in one of the
directories (`NewestInv`), and it is marked before it leaves the one that
duplicateExists reads first; therefore what a Write found out stays true until it
writes (`FoundInv`), any number of uploaders notwithstanding.

**The processor** (`ProcessorProofs`): `RecordsEverything`, `RowsHaveReasons`,
`ProcessorTypes`. A
file is removed several steps after it was read, while other workers insert, remove
and are killed. `KnowsInv` says what a worker knows by its place in processFile (its
row is there, the file is invalid or unread, the file is gone or fully kept), and
the lemma `KnowsFrame` that the steps of others do not undo it, because tables only
grow and a removed file does not come back (`Growth`). `RowInv` says that, without a
fault that excuses it, the row of a file that still exists belongs to a worker past
the insert, and no two workers are about to insert the same file.

**The server** (`PipelineProofs`): `PipelineRunsProcessor` (its steps are steps of
the processor, which then keeps its invariant), `RefusedLeavesNothing`,
`ServerDelivers`, `AcknowledgedIsKept`, `PipelineTypes`. `HandlerInv` relates the place of each
handler, its answer and the spool. The refinement has one lemma for each kind of
step: an answer acknowledges, an insert records, a failed read gives up, a removal
releases, and every other step leaves the abstract state alone.

**The pool** (`PoolProofs`): `OneWorkerPerApplication`, `PoolRunsProcessor` (the
pool's steps are steps of the workers), `PoolRecordsEverything`, `PoolTypes`.
`RegisteredInv` says that a goroutine that was not told to stop is the registered
one of its application, at every step of syncWorkers.

**The services** (`ServerProofs`): `IngestReturnsWithAllResults`, `WebReturnsClosed`,
of each service alone, and `ServerReturnsComplete` of the composition. `RunInv` says
which results the ingest service has received at each line of its Run. For the web
service `ListenInv` says that a server whose goroutine has left its select no longer
listens, `ClosedInv` that Run returns after both goroutines, and `CauseInv` that
nothing of it ends without an error or a Quit.

**The migration** (`ServerProofs`): `VersionIsTold`, `UnsureIsLeft`, which are the two
conjuncts of MigrationSure, and `ServerMigrationSure`. `OldInv` and `ReadInv` say that
the old version table stays as it was until a commit, that what a process read is
therefore still what it said, and that a process that goes on to goose without a
version table of either kind started from an empty database. `ServerTypes` adds who
holds the lock (`LockInv`) and what schemas can exist (`SchemaInv`).

**Uploading all sources** (`WaitingProofs`): `EverySourceIsTold`, `PausesDouble`.
`JoinedInv` says what was joined at each place of a source's goroutine, `SlotsInv`
bounds the running ones. `PausesInv` says that the period of a source is the one
BackoffUpload computes for its attempts; that this is the exact, unwrapped product
whenever it is below the maximum is `PeriodExact`, for every width. `PeriodDoubles`
concludes that the bound of the next pause is twice the last or the maximum, also
where the shift has reached its cap (`LargestShift`, which is what the assumption on
the base is for). PausesGrow says this of every pause, those at the maximum included. The shift is a
recursive function; that it doubles (`ShlDoubles`) rests on the existence and
uniqueness of such functions, for which `LeastElement` takes the place of induction:
a set of natural numbers that is not empty has a least one.

**The screens** (`WaitingProofs`): `ScreensAreComplete`. `MutexInv`: who is inside
holds the mutex. `ArraysInv`: what the globals are at each step inside, in particular
that the counter never passes the capacity, that it counts every output seen unless
there was a memory error, and that whoever leaves has freed and reset them.

**The report** (`WaitingProofs`): `ReportIsOfOneSystem`, and `WaitingTypes` for the
three parts together. `Place` orders the sources. `PartsInv` says that a part is zero
until its turn and afterwards full, blamed or skipped; `TwiceInv` the same of the two
parts with a second source; `WslInv` what is known of WSL at each step, so that the
second detection cannot mix the two kinds of report; `ChildInv` that a failed command
was counted as a failure of its source.

**The ways in** (`LibraryProofs`): `CallersAreTold`, `FilesChangeOnlyAsAllowed`. Between
two calls nobody has been told anything, so the types are all the invariant there is;
what has to be shown is what a call does, from whatever files it finds. The calls are
of five kinds, with a lemma each: `QuietCall` changes no file that matters and tells
nothing, `FilingCall` files a report (`WriteOutcome` says what a Write may leave),
`UploadCall` sends (`NothingLost`: without an error all that was due was attempted),
`ConsentCall` and `OptOutCall` change a setting. Every function of the Go package, of
the C library and of the command line is one of these, which is where the errors that
a way in hides or turns into a value are looked at.

**Retention** (`LibraryProofs`): `RetentionIsRight`. `WrapFits` says when arithmetic on
words is exact and `StartOfWindow` that GetPeriodStart is where it is not;
`WindowSize` that the early stop of ClearPeriod misses no report, since a window has
as many timestamps as it has seconds. Nothing is assumed of the timestamps. That Cleanup
spares as many reports as it is told to holds whatever the sort makes of them
(`SurplusRight`); that they are the most recent ones holds where no two are half the
range apart (`Near`), because there the comparator is the order of the timestamps
(`BeforeIsLess`, `NearIsOrdered`). A report whose removal fails stays, and changes
nothing for the others.

**The C library** (`LibraryProofs`): `CLibraryIsRight`. `CallInv` says that the pointer of
a call that has returned was set by that call, and that a call whose callback is
still the one it found has the logger for it. `LibraryTypes` adds the types of the
three parts.

The composed modules are proved through their parts: a step of the whole is a step
of one part and leaves the others (`PartSteps`), so the invariant of a part is kept.

Only model-checked:

- liveness under fairness, which is out of the prover's reach: EventuallyAccepted,
  StopsWhenCanceled, ServersEnd, EventuallyDone, WaitsEnd, and WorkersFollowList;
- HandlersRight: `LogHandler` is written with recursive operators over nested
  attribute groups, which the provers cannot follow.

## Known differences

Beside the three runs, the following statements about the program do not hold of
the models. Their properties are defined in the modules, and TLC finds a
counterexample with the instance named. The passing runs exclude the situation in
their instance, as ClientConsent and ClientPeriod do, or excuse it in the property.

| Property | Statement | What happens | Instance |
|---|---|---|---|
| `RecordIsWhatWasSent` | insights/README.md:12, "the data that was sent is written to the `uploaded` folder" | MarkAsProcessed writes before the claim is decided (report.go:89): an upload that read another consent and loses the claim overwrites the record | UploaderRace |
| `OncePerPeriod` | insights/README.md:14, "will only collect once per collection period" | a failed send moves a report back between the two reads of duplicateExists (collector.go:298) | ClientPeriod with one plain uploader and fault `net` |
| `OncePerPeriod` | the same | two unforced collectors pass the check before either writes (collector.go:235) | ClientPeriod with two collectors |
| `ForceReplaces` | collector.go:192, force overwrites the reports of the period | a report an upload holds is not listed, and is put back when its send fails | ClientPeriod with fault `net` |
| `NamedByCurrentTime` | collector.go:195, names are "based on the current time" | Write uses the collection time it is given (collector.go:217) | ClientPeriod with `Given` |
| `CleanupKeepsNewest` without `Near` | report.go:195, "keeping the most recent maxReports reports" | the comparator subtracts and wraps when timestamps are 2^63 seconds apart (report.go:217); Write takes the collection time from its caller | `Retention`, two reports |
| `SendFailureFound` | api.go:74, ErrSendFailure is returned when a send fails | UploadAll formats the errors with `%v` (upload.go:55) | `Uploads`, one source |
| `NotFoundTold` | api.go:68, ErrConsentFileNotFound is returned | GetConsentState formats the error with `%v` (api.go:244) | `Frontend`, `go` only |
| `AnyCase` | consent.go:37, "Ensure consent state is case insensitive" | PreRunE parses the state before RunE lowers it (consent.go:24) | `Frontend`, `cli` only |
| `ResetIsSafe` | libinsights.go:334-336, NULL resets the callback, which may be in use by several threads | the global is read twice, for the check and for the call (internal.go:23) | `CLibrary`, three settings |
| `NoDisplayFallsBack` | hardware_linux_test.go:365, "Wayland NoDisplay falls back" | without an output there is no event to wait for (wayland_displays_linux.c:124) | `Wayland`, no failures |
| `MemoryErrorFallsBack` | hardware_linux_test.go:353, "Wayland MemoryError warns and falls back" | the doubled capacity and the old pointers are kept (wayland_displays_linux.c:63) | `Wayland`, failure `growth` |
| `SystemdBounded` | platform_linux.go:285, "a timeout of 15 seconds" | the command is killed, but Run waits for its output (cmd.go:26) | `SysInfo`, stuck `pipe` |
| `InteropFollowsConf` | platform_linux.go:153, interop is read from wsl.conf | WSL is detected a second time; when that fails interop is off (platform_linux.go:158) | `SysInfo`, one failure |
| `LoadedFollowsFile` without `lost` | server/README.md:77, changes "will be applied without requiring the service to restart" | an overflow of fsnotify is logged and the file is not loaded (config.go:151) | PoolRun |
| `ReceivedTermExits` without `cmd = "serve"` | main_test.go:101, "Expect to exit on SIGINT and SIGTERM" | migrate never marks the daemon as ready, for which the handler waits (daemon.go:152) | `Daemon`, command `migrate` |
| `SentTermExits` | the same | the channel has one slot; SIGTERM is dropped while SIGHUP is in it (main.go:46) | `Daemon`, two signals |
| `QuitWaits` | ingest.go:169, "Blocks until the service has finished running" | Quit may read the closed channel New made (ingest.go:99) | `IngestService`, one graceful Quit |
| `GracefulQuit` | webservice.go:275, "shuts down the HTTP server gracefully" | Quit cancels the context that bounds Shutdown (webservice.go:277) | `WebService`, one graceful Quit |

Consent need not have been in force at any one moment for metrics to be filed or sent.
insights/README.md:16 says of the opt-out that "when active, all collection and upload
operations behave as if consent is denied"; GetState reads the opt-out before the file
of the source (consent.go:77 and 87), so an administrator who opts out between the two
reads, and a user who consents after that and before the second, are taken together
for a consent that never was. ConsentAtBothPoints and EndToEndConsent say what is left: the system was not
opted out at some time of the attempt, and consent was granted then or later.

## Not modelled

- What the sources of the system information say: the parsing of files and the
  output of commands. It has no state, and a failure to parse is a failing source.
- Collection on Windows and macOS, and Windows files, whose writes are not atomic.
- Completion, documentation, verbosity and configuration files of the commands.
- The Prometheus registry, connecting to the database and closing it.
- Test helpers, generators and packaging.
- Loss of power: files are not synced.
- Report files that are not named after a timestamp, and those of the client that
  are not valid JSON.
