----------------------------- MODULE Processor -----------------------------
(***************************************************************************)
(* The report processor and the database manager of the ingest service     *)
(* (server/internal/ingest/processor, .../database): each worker takes the *)
(* report files of its application from the spool directory one by one,    *)
(* decodes and validates a file, inserts a row, and removes the file.      *)
(*                                                                         *)
(* The tables have no key on report_id, so an insert that is repeated      *)
(* adds a row.  An insert may take effect and still be reported as failed, *)
(* because the ten seconds of database.upload or the caller's context end  *)
(* before the answer arrives.                                              *)
(***************************************************************************)
EXTENDS Integers, FiniteSets

CONSTANTS Reports,     \* identities of report files
          Workers,     \* goroutines
          AppOf,       \* the application a report was sent for
          WorkerApp,   \* the application a worker serves
          Content,     \* what each report file holds
          LegacyApps,  \* applications below ubuntu-report/
          MaxRows,     \* bound: copies of a report in the table of its application
          Faults       \* what may go wrong, a subset of FaultKinds

FaultKinds == {"list", "read", "exec", "answer", "execInvalid",
               "answerInvalid", "remove"}

\* What a file holds, as far as decoding and validation tell apart: its form
\* (blank, not JSON, JSON that does not fit the model, an object without keys,
\* or an object), and for an object which fields are present.
Contents == [form : {"blank", "malformed", "mismatch", "noKeys", "object"},
             optOut : BOOLEAN,       \* OptOut is true
             data : BOOLEAN,         \* a field of the model is set
             extras : BOOLEAN,       \* fields the model does not know
             sysExtras : BOOLEAN]    \* the same inside systemInfo

ASSUME ProcessorAssumption ==
    /\ IsFiniteSet(Reports)
    /\ DOMAIN AppOf = Reports
    /\ DOMAIN WorkerApp = Workers
    /\ Content \in [Reports -> Contents]
    /\ MaxRows \in Nat
    /\ Faults \subseteq FaultKinds

VARIABLES spool,       \* the report files on disk
          rows,        \* rows of a report in the table of its application
          invalid,     \* reports with a row in invalid_reports
          pc,          \* where each worker is
          todo,        \* files the call of Process has not handled yet
          cur,         \* the file in processFile
          attempts, failures,  \* attemptCount and failureCount of Process
          ctxDone,     \* the workers whose context is canceled
          stored,      \* history: every report that was written to the spool
          unread,      \* history: reports a read of which failed
          unsaved,     \* history: invalid reports whose insert failed
          excuse       \* history: why a report may have been inserted twice

proc == <<spool, rows, invalid, pc, todo, cur, attempts, failures, ctxDone,
          stored, unread, unsaved, excuse>>
disk == <<spool, stored>>
histories == <<unread, unsaved, excuse>>

PCs == {"idle", "loop", "files", "read", "insert", "inserted",
        "reread", "invalid", "insertedInvalid", "remove", "sleep"}
NoFile == "none"

ProcTypeOK ==
    /\ spool \in SUBSET Reports
    /\ stored \in SUBSET Reports
    /\ rows \in [Reports -> 0 .. MaxRows]
    /\ invalid \in SUBSET Reports
    /\ pc \in [Workers -> PCs]
    /\ todo \in [Workers -> SUBSET Reports]
    /\ cur \in [Workers -> Reports \cup {NoFile}]
    /\ attempts \in [Workers -> 0 .. 2 * Cardinality(Reports)]
    /\ \A w \in Workers : failures[w] \in 0 .. attempts[w]
    /\ ctxDone \in SUBSET Workers
    /\ unread \in SUBSET Reports
    /\ unsaved \in SUBSET Reports
    /\ excuse \in SUBSET Reports

ProcInit ==
    /\ spool = {}
    /\ stored = {}
    /\ rows = [r \in Reports |-> 0]
    /\ invalid = {}
    /\ pc = [w \in Workers |-> "idle"]
    /\ todo = [w \in Workers |-> {}]
    /\ cur = [w \in Workers |-> NoFile]
    /\ attempts = [w \in Workers |-> 0]
    /\ failures = [w \in Workers |-> 0]
    /\ ctxDone = {}
    /\ unread = {}
    /\ unsaved = {}
    /\ excuse = {}

-----------------------------------------------------------------------------
\* isLegacy
IsLegacy(app) == app \in LegacyApps

\* decodeFile and getDecoderConfig: the file is no JSON object, or one that does
\* not fit the model of the application.
Undecodable(c) == c.form \in {"blank", "malformed", "mismatch"}

\* validateReport: an opt-out is valid whatever comes with it.
ValidateReport(c) ==
    IF c.optOut THEN "ok"
    ELSE IF ~c.data /\ ~c.sysExtras THEN "noValidData"
    ELSE IF c.extras \/ c.sysExtras THEN "unexpectedFields"
    ELSE "ok"

\* validateLegacyReport: every other field of a legacy report is data.
ValidateLegacyReport(c) ==
    IF c.optOut \/ c.data \/ c.extras \/ c.sysExtras THEN "ok" ELSE "noValidData"

\* The error processAndUpload has before it tries to upload.
Verdict(r) ==
    IF Undecodable(Content[r]) THEN "undecodable"
    ELSE IF IsLegacy(AppOf[r]) THEN ValidateLegacyReport(Content[r])
    ELSE ValidateReport(Content[r])

Uploadable(r) == Verdict(r) \in {"ok", "unexpectedFields"}

\* uploadInvalid skips files that are blank or have no keys.
Blank(r) == Content[r].form \in {"blank", "noKeys"}

\* The share of failures is above 1 - minimumSuccessRate, that is 3/20.
TooManyFailures(a, f) == a > 0 /\ 20 * f > 3 * a

-----------------------------------------------------------------------------
\* Workers whose goroutine exists.
Active == {w \in Workers : pc[w] # "idle"}

\* The states in which a worker has read its file and not removed it.
Holding == {"insert", "inserted", "reread", "invalid", "insertedInvalid",
            "remove"}

Goto(w, l) == pc' = [pc EXCEPT ![w] = l]

\* Mutant of Count: a failure is not counted as an attempt.
CountFailureOnly(w, a, f) ==
    /\ attempts' = [attempts EXCEPT ![w] = @ + a - f]
    /\ failures' = [failures EXCEPT ![w] = @ + f]

\* The counters of the deferred function of Process.
Count(w, a, f) ==
    /\ attempts' = [attempts EXCEPT ![w] = @ + a]
    /\ failures' = [failures EXCEPT ![w] = @ + f]

\* Process returns: nil sends the worker round its loop, an error to sleep.
\* The deferred function adds ErrDatabaseErrors to whatever Process returns.
ReturnOf(w, err) ==
    IF err \/ TooManyFailures(attempts[w], failures[w]) THEN "sleep" ELSE "loop"

\* getJSONFiles of the directory of the application.
GetJSONFiles(app) == {r \in spool : AppOf[r] = app}

\* Process lists the files of its application, or fails to.
List(w) ==
    /\ pc[w] = "loop"
    /\ w \notin ctxDone
    /\ attempts' = [attempts EXCEPT ![w] = 0]
    /\ failures' = [failures EXCEPT ![w] = 0]
    /\ \/ /\ todo' = [todo EXCEPT ![w] = GetJSONFiles(WorkerApp[w])]
          /\ Goto(w, "files")
       \/ /\ "list" \in Faults
          /\ Goto(w, "sleep")
          /\ UNCHANGED todo
    /\ UNCHANGED <<disk, rows, invalid, cur, ctxDone, histories>>

\* The loop over the files: the context is looked at before each of them.
NextFile(w) ==
    /\ pc[w] = "files"
    /\ IF w \in ctxDone \/ todo[w] = {}
          THEN /\ Goto(w, ReturnOf(w, todo[w] # {}))
               /\ todo' = [todo EXCEPT ![w] = {}]
               /\ UNCHANGED cur
          ELSE \E r \in todo[w] :
                 /\ cur' = [cur EXCEPT ![w] = r]
                 /\ todo' = [todo EXCEPT ![w] = @ \ {r}]
                 /\ Goto(w, "read")
    /\ UNCHANGED <<disk, rows, invalid, attempts, failures, ctxDone, histories>>

\* decodeFile and validate.  A file that cannot be read takes the way of an
\* invalid one.  Another worker that holds the file may insert it as well.
Read(w) ==
    /\ pc[w] = "read"
    /\ LET r == cur[w]
           twice == \E v \in Workers \ {w} : cur[v] = r /\ pc[v] \in Holding
       IN  \/ /\ r \in spool
              /\ Goto(w, IF Uploadable(r) THEN "insert" ELSE "reread")
              /\ excuse' = IF twice THEN excuse \cup {r} ELSE excuse
              /\ UNCHANGED unread
           \/ /\ r \notin spool \/ "read" \in Faults
              /\ Goto(w, "reread")
              /\ unread' = unread \cup ({r} \cap spool)
              /\ UNCHANGED excuse
    /\ UNCHANGED <<disk, rows, invalid, todo, cur, attempts, failures, ctxDone,
                   unsaved>>

\* The INSERT of Upload or UploadLegacy is committed by the database.
Commit(w) ==
    /\ pc[w] = "insert"
    /\ w \notin ctxDone
    /\ rows[cur[w]] < MaxRows
    /\ rows' = [rows EXCEPT ![cur[w]] = @ + 1]
    /\ Goto(w, "inserted")
    /\ UNCHANGED <<disk, invalid, todo, cur, attempts, failures, ctxDone,
                   histories>>

\* upload: the statement fails, or the context or its timeout ends it.
ExecFails(w, fault) == w \in ctxDone \/ fault \in Faults

\* Mutant of UploadFails: the file is removed as after any other error.
UploadFailsRemoves(w) ==
    /\ \/ pc[w] = "insert" /\ ExecFails(w, "exec")
       \/ pc[w] = "inserted" /\ ExecFails(w, "answer")
    /\ excuse' = IF pc[w] = "inserted" THEN excuse \cup {cur[w]} ELSE excuse
    /\ Count(w, 1, 1)
    /\ Goto(w, "remove")
    /\ UNCHANGED <<disk, rows, invalid, todo, cur, ctxDone, unread, unsaved>>

\* The insert fails without effect, or its answer does not arrive before the
\* context is done: errUploadFailed, and the file is kept for the next pass.
UploadFails(w) ==
    /\ \/ pc[w] = "insert" /\ ExecFails(w, "exec")
       \/ pc[w] = "inserted" /\ ExecFails(w, "answer")
    /\ excuse' = IF pc[w] = "inserted" THEN excuse \cup {cur[w]} ELSE excuse
    /\ Count(w, 1, 1)
    /\ Goto(w, "files")
    /\ UNCHANGED <<disk, rows, invalid, todo, cur, ctxDone, unread, unsaved>>

\* Mutant of Uploaded: a report is removed only after it was kept twice.
UploadedAsInvalid(w) ==
    /\ pc[w] = "inserted"
    /\ Count(w, 1, 0)
    /\ Goto(w, "reread")
    /\ UNCHANGED <<disk, rows, invalid, todo, cur, ctxDone, histories>>

\* The insert succeeded: a report with unexpected fields is stored a second
\* time, as it is, with the invalid ones.
Uploaded(w) ==
    /\ pc[w] = "inserted"
    /\ Count(w, 1, 0)
    /\ Goto(w, IF Verdict(cur[w]) = "ok" THEN "remove" ELSE "reread")
    /\ UNCHANGED <<disk, rows, invalid, todo, cur, ctxDone, histories>>

\* uploadInvalid reads the file again; without it there is nothing to upload.
Reread(w) ==
    /\ pc[w] = "reread"
    /\ LET r == cur[w]
       IN  \/ /\ r \in spool
              /\ Goto(w, IF Blank(r) THEN "remove" ELSE "invalid")
              /\ UNCHANGED unread
           \/ /\ r \notin spool \/ "read" \in Faults
              /\ Goto(w, "remove")
              /\ unread' = unread \cup ({r} \cap spool)
    /\ UNCHANGED <<disk, rows, invalid, todo, cur, attempts, failures, ctxDone,
                   unsaved, excuse>>

\* The INSERT of UploadInvalid is committed.
CommitInvalid(w) ==
    /\ pc[w] = "invalid"
    /\ w \notin ctxDone
    /\ invalid' = invalid \cup {cur[w]}
    /\ Goto(w, "insertedInvalid")
    /\ UNCHANGED <<disk, rows, todo, cur, attempts, failures, ctxDone, histories>>

\* It fails, or its answer is lost: the file is removed all the same.
InvalidFails(w) ==
    /\ \/ pc[w] = "invalid" /\ ExecFails(w, "execInvalid")
       \/ pc[w] = "insertedInvalid" /\ ExecFails(w, "answerInvalid")
    /\ unsaved' = IF pc[w] = "invalid" THEN unsaved \cup {cur[w]} ELSE unsaved
    /\ Count(w, 1, 1)
    /\ Goto(w, "remove")
    /\ UNCHANGED <<disk, rows, invalid, todo, cur, ctxDone, unread, excuse>>

InvalidUploaded(w) ==
    /\ pc[w] = "insertedInvalid"
    /\ Count(w, 1, 0)
    /\ Goto(w, "remove")
    /\ UNCHANGED <<disk, rows, invalid, todo, cur, ctxDone, histories>>

\* Mutant of RemoveFile: the file is left where it is.
RemoveNothing(w) ==
    /\ pc[w] = "remove"
    /\ Goto(w, "files")
    /\ UNCHANGED <<disk, rows, invalid, todo, cur, attempts, failures, ctxDone,
                   histories>>

\* os.Remove at the end of processFile; its failure is only logged.
RemoveFile(w) ==
    /\ pc[w] = "remove"
    /\ \/ /\ spool' = spool \ {cur[w]}
          /\ UNCHANGED excuse
       \/ /\ "remove" \in Faults
          /\ cur[w] \in spool
          /\ excuse' = excuse \cup {cur[w]}
          /\ UNCHANGED spool
    /\ Goto(w, "files")
    /\ UNCHANGED <<stored, rows, invalid, todo, cur, attempts, failures, ctxDone,
                   unread, unsaved>>

\* The sleep of appWorker ends, by its timer or by the context.
Wake(w) ==
    /\ pc[w] = "sleep"
    /\ Goto(w, "loop")
    /\ UNCHANGED <<disk, rows, invalid, todo, cur, attempts, failures, ctxDone,
                   histories>>

\* appWorker finds its context done: the goroutine ends.
Stop(w) ==
    /\ pc[w] \in {"loop", "sleep"}
    /\ w \in ctxDone
    /\ Goto(w, "idle")
    /\ ctxDone' = ctxDone \ {w}
    /\ cur' = [cur EXCEPT ![w] = NoFile]
    /\ UNCHANGED <<disk, rows, invalid, todo, attempts, failures, histories>>

\* One step of the goroutine of a worker.
Step(w) ==
    \/ List(w) \/ NextFile(w) \/ Read(w) \/ Commit(w) \/ UploadFails(w)
    \/ Uploaded(w) \/ Reread(w) \/ CommitInvalid(w) \/ InvalidFails(w)
    \/ InvalidUploaded(w) \/ RemoveFile(w) \/ Wake(w) \/ Stop(w)

-----------------------------------------------------------------------------
\* What surrounds the workers: the web service stores a file, and whoever owns
\* the workers starts them, cancels their contexts, or is killed.
StoreFile(r) ==
    /\ r \notin stored
    /\ spool' = spool \cup {r}
    /\ stored' = stored \cup {r}
    /\ UNCHANGED <<rows, invalid, pc, todo, cur, attempts, failures, ctxDone,
                   histories>>

Launch(w) ==
    /\ pc[w] = "idle"
    /\ Goto(w, "loop")
    /\ UNCHANGED <<disk, rows, invalid, todo, cur, attempts, failures, ctxDone,
                   histories>>

Interrupt(ws) ==
    /\ ctxDone' = ctxDone \cup (ws \cap Active)
    /\ UNCHANGED <<disk, rows, invalid, pc, todo, cur, attempts, failures,
                   histories>>

\* The process is killed: the files and the tables stay.
Killed ==
    /\ excuse' = excuse \cup {cur[w] : w \in {v \in Workers : pc[v] \in Holding}}
    /\ pc' = [w \in Workers |-> "idle"]
    /\ todo' = [w \in Workers |-> {}]
    /\ cur' = [w \in Workers |-> NoFile]
    /\ attempts' = [w \in Workers |-> 0]
    /\ failures' = [w \in Workers |-> 0]
    /\ ctxDone' = {}
    /\ UNCHANGED <<disk, rows, invalid, unread, unsaved>>

\* The processor under any owner: workers are started and interrupted at will.
ProcNext ==
    \/ \E r \in Reports : StoreFile(r)
    \/ \E w \in Workers : Step(w) \/ Launch(w)
    \/ \E ws \in SUBSET Workers : Interrupt(ws)
    \/ Killed

ProcSpec == ProcInit /\ [][ProcNext]_proc

\* Under an owner that keeps the workers running.
ProcServe ==
    \/ \E r \in Reports : StoreFile(r)
    \/ \E w \in Workers : Step(w) \/ Launch(w)

-----------------------------------------------------------------------------
\* Nothing the spool took in leaves it unrecorded: a report that decodes and
\* validates has a row, one with unexpected fields is also kept as it came,
\* and any other that is not blank is in invalid_reports.  The exceptions are
\* the ones processFile accepts: a failed insert of an invalid report
\* (processor.go:251) and a file that could not be read (processor.go:373).
NothingDropped ==
    \A r \in stored \ (spool \cup unread) :
       /\ Uploadable(r) => rows[r] > 0
       /\ Verdict(r) # "ok" => Blank(r) \/ r \in invalid \cup unsaved

\* Every row has its reason.  A second row for a report has a cause: an answer
\* of the database that was lost, a file that could not be removed, a crash
\* between the insert and the removal, or two workers of one application that
\* read the file at the same time (processor.go:220-252, workers.go:126).  And a
\* report without anything wrong is filed as invalid only when the first read of
\* it failed and the second did not (processor.go:237, 423).
RowsExplained ==
    /\ \A r \in Reports : rows[r] > 1 => r \in excuse
    /\ \A r \in invalid : Verdict(r) # "ok" \/ r \in unread

\* A sound report gets its row in the end as long as a worker of its application
\* runs, although inserts fail, answers are lost, directories cannot be listed
\* and files cannot be removed; one that cannot be read need not
\* (processor.go:139-152, workers.go:175-197).
EventuallyRecorded ==
    \A r \in Reports :
       (r \in stored /\ Uploadable(r)) ~> (rows[r] > 0 \/ r \in unread)

=============================================================================
