------------------------------ MODULE Uploader ------------------------------
(***************************************************************************)
(* Uploading the reports of one source.  A member of Uploaders is a caller *)
(* that may run Upload (or BackoffUpload) on the source: a process started *)
(* by the timer, a process started by a user, a program that uses the      *)
(* library, or one of the goroutines UploadAll starts when a source is     *)
(* named twice.  Nothing in the code excludes two of them from running at  *)
(* the same time.  Each starts one goroutine per report it finds; pc[u][t] *)
(* is where u's goroutine for report t stands, and every file-system call  *)
(* and every network exchange is a step of its own.                        *)
(***************************************************************************)
EXTENDS ReportStore

CONSTANTS Uploaders,
          Modes,          \* the sets of flags a caller may pass
          MaxConcurrent,  \* goroutines an Upload runs at once
          MaxAttempts,    \* retries of a BackoffUpload
          MaxCopies,      \* bound: deliveries of one report that are followed
          InitConsent, InitSysConfig,  \* files a run may start from
          Faults          \* what may go wrong

Flags == {"force", "retry", "dryRun"}

ASSUME UploaderAssumption ==
    /\ Modes \subseteq SUBSET Flags
    /\ MaxConcurrent \in Nat \ {0}
    /\ MaxAttempts \in Nat
    /\ MaxCopies \in Nat
    /\ InitConsent \subseteq ConsentFiles
    /\ InitSysConfig \subseteq SysConfigs
    /\ Faults \subseteq {"crash",   \* a caller is killed
                         "io",      \* a file-system call fails
                         "net",     \* a request fails or is refused
                         "ack"}     \* it is handled, but 202 never arrives

VARIABLES call,      \* where the Upload of a caller stands
          mode,      \* its flags
          snap,      \* the callers whose attempt read consent as given
          attempts,  \* retries made so far
          errs,      \* kinds of error its goroutines joined
          victims,   \* reports its Cleanup still has to remove
          pc, data, stash,
          \* history
          accepted,      \* 202 answers seen for a report
          ackedData,     \* what the last of them was for
          copies,        \* times the server handled the report
          lostAcks,      \* of these, the ones reported as failed
          systemDuring,  \* the callers in whose attempt the system was, at some
                         \* time, not opted out
          grantedDuring  \* of these, the ones in whose attempt the source's
                         \* consent was granted at that time or later

callVars == <<call, mode, snap, attempts, victims>>
jobVars == <<pc, data, stash>>
consentHistory == <<systemDuring, grantedDuring>>
history == <<accepted, ackedData, copies, lostAcks, consentHistory>>
vars == <<store, callVars, errs, jobVars, history>>

CallPC == {"idle", "consent", "source", "list", "jobs", "cleanup", "sleep"}
JobPC == {"none", "queued", "read", "stash", "mark", "claim", "send", "got",
          "undoWrite", "undoRemove", "done"}

TypeOK ==
    /\ StoreTypeOK
    /\ call \in [Uploaders -> CallPC]
    /\ mode \in [Uploaders -> SUBSET Flags]
    /\ snap \in SUBSET Uploaders
    /\ attempts \in [Uploaders -> 0 .. MaxAttempts]
    /\ errs \in [Uploaders -> SUBSET {"send", "other"}]
    /\ victims \in [Uploaders -> SUBSET Times]
    /\ pc \in [Uploaders -> [Times -> JobPC]]
    /\ data \in [Uploaders -> Dir]
    /\ stash \in [Uploaders -> Dir]
    /\ accepted \in [Times -> Nat]
    /\ ackedData \in Dir
    /\ copies \in [Times -> 0 .. MaxCopies]
    /\ lostAcks \in [Times -> Nat]
    /\ systemDuring \in SUBSET Uploaders
    /\ grantedDuring \in SUBSET Uploaders

NoFile == [t \in Times |-> None]
NoJob == [t \in Times |-> "none"]

Init ==
    /\ local = NoFile /\ uploaded = NoFile
    /\ now = 0
    /\ consentFile \in InitConsent
    /\ sysConfig \in InitSysConfig
    /\ collected = NoFile /\ evicted = {}
    /\ call = [u \in Uploaders |-> "idle"]
    /\ mode = [u \in Uploaders |-> {}]
    /\ snap = {}
    /\ attempts = [u \in Uploaders |-> 0]
    /\ errs = [u \in Uploaders |-> {}]
    /\ victims = [u \in Uploaders |-> {}]
    /\ pc = [u \in Uploaders |-> NoJob]
    /\ data = [u \in Uploaders |-> NoFile]
    /\ stash = [u \in Uploaders |-> NoFile]
    /\ accepted = [t \in Times |-> 0]
    /\ ackedData = NoFile
    /\ copies = [t \in Times |-> 0]
    /\ lostAcks = [t \in Times |-> 0]
    /\ systemDuring = {}
    /\ grantedDuring = {}

-----------------------------------------------------------------------------
(***************************************************************************)
(* The call: Upload, and BackoffUpload around it.                          *)
(***************************************************************************)
\* What the history holds of an attempt when it begins.
Observe(u) ==
    /\ systemDuring' = IF IsOptedOut = "false" THEN systemDuring \cup {u}
                                             ELSE systemDuring \ {u}
    /\ grantedDuring' = IF IsOptedOut = "false" /\ SourceConsent = "true"
                        THEN grantedDuring \cup {u} ELSE grantedDuring \ {u}

\* An attempt begins: directories are made, nothing has been read.
Attempt(u) ==
    /\ call' = [call EXCEPT ![u] = "consent"]
    /\ snap' = snap \ {u}
    /\ errs' = [errs EXCEPT ![u] = {}]
    /\ Observe(u)

Start(u) ==
    /\ call[u] = "idle"
    /\ \E m \in Modes : mode' = [mode EXCEPT ![u] = m]
    /\ attempts' = [attempts EXCEPT ![u] = 0]
    /\ Attempt(u)
    /\ UNCHANGED <<store, victims, jobVars,
                   accepted, ackedData, copies, lostAcks>>

\* The call is over, one way or another, and its local state with it.
Leave(u) ==
    /\ call' = [call EXCEPT ![u] = "idle"]
    /\ mode' = [mode EXCEPT ![u] = {}]
    /\ snap' = snap \ {u}
    /\ attempts' = [attempts EXCEPT ![u] = 0]
    /\ errs' = [errs EXCEPT ![u] = {}]
    /\ victims' = [victims EXCEPT ![u] = {}]
    /\ pc' = [pc EXCEPT ![u] = NoJob]
    /\ data' = [data EXCEPT ![u] = NoFile]
    /\ stash' = [stash EXCEPT ![u] = NoFile]
    /\ systemDuring' = systemDuring \ {u}
    /\ grantedDuring' = grantedDuring \ {u}
    /\ UNCHANGED <<store, accepted, ackedData, copies, lostAcks>>

\* um.consent.GetState reads the system configuration; an opted-out system is
\* a state of false and the source's file is not looked at ...
ReadOptOut(u) ==
    /\ call[u] = "consent"
    /\ \/ /\ IsOptedOut \in {"true", "false"}
          /\ call' = [call EXCEPT ![u] =
                         IF IsOptedOut = "true" THEN "list" ELSE "source"]
          /\ UNCHANGED <<store, mode, snap, attempts, victims, errs, jobVars,
                         history>>
       \/ /\ IsOptedOut = "error"
          /\ Leave(u)

\* ... and otherwise, in a read of its own, the source's file.  The state is
\* used for every report of the attempt.
ReadConsent(u) ==
    /\ call[u] = "source"
    /\ \/ /\ SourceConsent \in {"true", "false"}
          /\ call' = [call EXCEPT ![u] = "list"]
          /\ snap' = IF SourceConsent = "true" THEN snap \cup {u} ELSE snap
          /\ UNCHANGED <<store, mode, attempts, victims, errs, jobVars,
                         history>>
       \/ /\ SourceConsent \in {"notFound", "error"}
          /\ Leave(u)

\* report.GetAll: a goroutine for every report found.
List(u) ==
    /\ call[u] = "list"
    /\ call' = [call EXCEPT ![u] = "jobs"]
    /\ pc' = [pc EXCEPT ![u] = [t \in Times |->
                  IF local[t] # None THEN "queued" ELSE "none"]]
    /\ UNCHANGED <<store, mode, snap, attempts, victims, errs, data, stash,
                   history>>

\* wg.Wait returns: Cleanup of the uploaded directory, unless in a dry run.
JobsDone(u) ==
    /\ call[u] = "jobs"
    /\ \A t \in Times : pc[u][t] \in {"none", "done"}
    /\ call' = [call EXCEPT ![u] = "cleanup"]
    /\ victims' = [victims EXCEPT ![u] =
                      IF "dryRun" \in mode[u] THEN {} ELSE Oldest(uploaded)]
    /\ pc' = [pc EXCEPT ![u] = NoJob]
    /\ data' = [data EXCEPT ![u] = NoFile]
    /\ stash' = [stash EXCEPT ![u] = NoFile]
    /\ UNCHANGED <<store, mode, snap, attempts, errs, history>>

\* Cleanup removes one report; a failed removal is only logged.
Evict(u) ==
    /\ call[u] = "cleanup"
    /\ \E t \in victims[u] :
        /\ \A s \in victims[u] : t <= s
        /\ victims' = [victims EXCEPT ![u] = @ \ {t}]
        /\ \/ /\ uploaded[t] # None
              /\ uploaded' = Remove(uploaded, t)
              /\ evicted' = evicted \cup {t}
           \/ /\ uploaded[t] = None \/ "io" \in Faults
              /\ UNCHANGED <<uploaded, evicted>>
    /\ UNCHANGED <<local, now, consentFile, sysConfig, collected,
                   call, mode, snap, attempts, errs, jobVars, history>>

\* Mutant of Return: the bound is off by one.
ReturnOneMore(u) ==
    /\ call[u] = "cleanup"
    /\ victims[u] = {}
    /\ IF /\ "retry" \in mode[u]
          /\ "send" \in errs[u]
          /\ attempts[u] <= MaxAttempts
       THEN /\ call' = [call EXCEPT ![u] = "sleep"]
            /\ attempts' = [attempts EXCEPT ![u] = @ + 1]
            /\ UNCHANGED <<store, mode, snap, victims, errs, jobVars, history>>
       ELSE Leave(u)

\* The end of an attempt: only a send failure is retried, MaxAttempts times.
Return(u) ==
    /\ call[u] = "cleanup"
    /\ victims[u] = {}
    /\ IF /\ "retry" \in mode[u]
          /\ "send" \in errs[u]
          /\ attempts[u] + 1 <= MaxAttempts
       THEN /\ call' = [call EXCEPT ![u] = "sleep"]
            /\ attempts' = [attempts EXCEPT ![u] = @ + 1]
            /\ UNCHANGED <<store, mode, snap, victims, errs, jobVars, history>>
       ELSE Leave(u)

\* Mutant of Retry: the consent read by the first attempt is used again.
RetryStaleConsent(u) ==
    /\ call[u] = "sleep"
    /\ call' = [call EXCEPT ![u] = "list"]
    /\ errs' = [errs EXCEPT ![u] = {}]
    /\ Observe(u)
    /\ UNCHANGED <<store, mode, snap, attempts, victims, jobVars,
                   accepted, ackedData, copies, lostAcks>>

\* The backoff period is over: Upload from its first line again.
Retry(u) ==
    /\ call[u] = "sleep"
    /\ Attempt(u)
    /\ UNCHANGED <<store, mode, attempts, victims, jobVars,
                   accepted, ackedData, copies, lostAcks>>

\* Making the directories or listing the reports fails.
CallFails(u) ==
    /\ "io" \in Faults
    /\ call[u] \in {"consent", "list"}
    /\ Leave(u)

-----------------------------------------------------------------------------
(***************************************************************************)
(* The goroutine of one report: Uploader.upload.                           *)
(***************************************************************************)
Running(u) == {t \in Times : pc[u][t] \notin {"none", "queued", "done"}}

Mature(t) == t <= now - MinAge

Goto(u, t, p) == pc' = [pc EXCEPT ![u][t] = p]

\* The goroutine returns; kinds is empty or what it adds to the joined error.
Finish(u, t, kinds) ==
    /\ Goto(u, t, "done")
    /\ errs' = [errs EXCEPT ![u] = @ \cup kinds]
    /\ data' = [data EXCEPT ![u][t] = None]
    /\ stash' = [stash EXCEPT ![u][t] = None]

\* Maturity, then os.Stat of the uploaded file.  The loop takes a slot for each
\* report in turn; which of the goroutines runs first is the scheduler's choice.
Check(u, t) ==
    /\ pc[u][t] = "queued"
    /\ Cardinality(Running(u)) < MaxConcurrent
    /\ \/ /\ ~Mature(t) /\ "force" \notin mode[u]
          /\ Finish(u, t, {})
       \/ /\ Mature(t) \/ "force" \in mode[u]
          /\ \/ uploaded[t] # None /\ "force" \notin mode[u]
             \/ "io" \in Faults
          /\ Finish(u, t, {"other"})
       \/ /\ Mature(t) \/ "force" \in mode[u]
          /\ uploaded[t] = None \/ "force" \in mode[u]
          /\ Goto(u, t, "read")
          /\ UNCHANGED <<errs, data, stash>>
    /\ UNCHANGED <<store, callVars, history>>

\* ReadJSON, and the choice of what to send.
Read(u, t) ==
    /\ pc[u][t] = "read"
    /\ \/ /\ local[t] = None
          /\ Finish(u, t, {"other"})
       \/ /\ local[t] # None /\ "dryRun" \in mode[u]
          /\ Finish(u, t, {})
       \/ /\ local[t] # None /\ "dryRun" \notin mode[u]
          /\ Goto(u, t, "stash")
          /\ data' = [data EXCEPT ![u][t] = Consented(u \in snap, local[t])]
          /\ UNCHANGED <<errs, stash>>
    /\ UNCHANGED <<store, callVars, history>>

\* MarkAsProcessed reads the report again and keeps it for UndoProcessed ...
Stash(u, t) ==
    /\ pc[u][t] = "stash"
    /\ \/ /\ local[t] = None
          /\ Finish(u, t, {"other"})
       \/ /\ local[t] # None
          /\ Goto(u, t, "mark")
          /\ stash' = [stash EXCEPT ![u][t] = local[t]]
          /\ UNCHANGED <<errs, data>>
    /\ UNCHANGED <<store, callVars, history>>

\* Mutant of Mark: the report is removed before the mark is written.
MarkRemovesFirst(u, t) ==
    /\ pc[u][t] = "mark"
    /\ local' = Remove(local, t)
    /\ Goto(u, t, "claim")
    /\ UNCHANGED <<uploaded, now, consentFile, sysConfig, collected, evicted,
                   callVars, errs, data, stash, history>>

\* Mutant of Mark: the write is forgotten.
MarkNotWritten(u, t) ==
    /\ pc[u][t] = "mark"
    /\ Goto(u, t, "claim")
    /\ UNCHANGED <<store, callVars, errs, data, stash, history>>

\* Mutant of Mark: the collected report is written, not what is sent.
MarkWithOriginal(u, t) ==
    /\ pc[u][t] = "mark"
    /\ uploaded' = AtomicWrite(uploaded, t, stash[u][t])
    /\ Goto(u, t, "claim")
    /\ UNCHANGED <<local, now, consentFile, sysConfig, collected, evicted,
                   callVars, errs, data, stash, history>>

\* ... writes what will be sent to the uploaded directory ...
Mark(u, t) ==
    /\ pc[u][t] = "mark"
    /\ uploaded' = AtomicWrite(uploaded, t, data[u][t])
    /\ Goto(u, t, "claim")
    /\ UNCHANGED <<local, now, consentFile, sysConfig, collected, evicted,
                   callVars, errs, data, stash, history>>

\* Mutant of Claim: a file that is already gone is not an error.
ClaimMissing(u, t) ==
    /\ pc[u][t] = "claim"
    /\ local' = Remove(local, t)
    /\ Goto(u, t, "send")
    /\ UNCHANGED <<uploaded, now, consentFile, sysConfig, collected, evicted,
                   callVars, errs, data, stash, history>>

\* ... and removes the collected file, which fails when it is gone.
Claim(u, t) ==
    /\ pc[u][t] = "claim"
    /\ \/ /\ local[t] = None
          /\ Finish(u, t, {"other"})
          /\ UNCHANGED local
       \/ /\ local[t] # None
          /\ local' = Remove(local, t)
          /\ Goto(u, t, "send")
          /\ UNCHANGED <<errs, data, stash>>
    /\ UNCHANGED <<uploaded, now, consentFile, sysConfig, collected, evicted,
                   callVars, history>>

\* send: the server handles the request and answers ...
Deliver(u, t) ==
    /\ pc[u][t] = "send"
    /\ copies[t] < MaxCopies
    /\ copies' = [copies EXCEPT ![t] = @ + 1]
    /\ Goto(u, t, "got")
    /\ UNCHANGED <<store, callVars, errs, data, stash, accepted, ackedData,
                   lostAcks, consentHistory>>

\* ... 202, and the goroutine is done;
Accepted(u, t) ==
    /\ pc[u][t] = "got"
    /\ accepted' = [accepted EXCEPT ![t] = @ + 1]
    /\ ackedData' = [ackedData EXCEPT ![t] = data[u][t]]
    /\ Finish(u, t, {})
    /\ UNCHANGED <<store, callVars, copies, lostAcks, consentHistory>>

\* or the answer is lost, late, or another status, after the report was stored;
AckLost(u, t) ==
    /\ pc[u][t] = "got"
    /\ "ack" \in Faults
    /\ lostAcks' = [lostAcks EXCEPT ![t] = @ + 1]
    /\ Goto(u, t, "undoWrite")
    /\ errs' = [errs EXCEPT ![u] = @ \cup {"send"}]
    /\ UNCHANGED <<store, callVars, data, stash, accepted, ackedData, copies,
                   consentHistory>>

\* or the request itself fails or is refused.
SendFails(u, t) ==
    /\ pc[u][t] = "send"
    /\ "net" \in Faults
    /\ Goto(u, t, "undoWrite")
    /\ errs' = [errs EXCEPT ![u] = @ \cup {"send"}]
    /\ UNCHANGED <<store, callVars, data, stash, history>>

\* Mutant of UndoWrite: what was sent is restored, not what was collected.
UndoWriteSent(u, t) ==
    /\ pc[u][t] = "undoWrite"
    /\ local' = AtomicWrite(local, t, data[u][t])
    /\ Goto(u, t, "undoRemove")
    /\ UNCHANGED <<uploaded, now, consentFile, sysConfig, collected, evicted,
                   callVars, errs, data, stash, history>>

\* UndoProcessed puts the stashed report back ...
UndoWrite(u, t) ==
    /\ pc[u][t] = "undoWrite"
    /\ local' = AtomicWrite(local, t, stash[u][t])
    /\ Goto(u, t, "undoRemove")
    /\ UNCHANGED <<uploaded, now, consentFile, sysConfig, collected, evicted,
                   callVars, errs, data, stash, history>>

\* Mutant of UndoRemove: the mark is left behind.
UndoKeepsMark(u, t) ==
    /\ pc[u][t] = "undoRemove"
    /\ Finish(u, t, {})
    /\ UNCHANGED <<store, callVars, history>>

\* ... and removes the mark; failing to is joined to the send error.
UndoRemove(u, t) ==
    /\ pc[u][t] = "undoRemove"
    /\ uploaded' = Remove(uploaded, t)
    /\ Finish(u, t, IF uploaded[t] = None THEN {"other"} ELSE {})
    /\ UNCHANGED <<local, now, consentFile, sysConfig, collected, evicted,
                   callVars, history>>

\* The file-system call of the current step fails and upload returns.
JobFails(u, t) ==
    /\ "io" \in Faults
    /\ pc[u][t] \in {"read", "stash", "mark", "claim", "undoWrite",
                     "undoRemove"}
    /\ Finish(u, t, {"other"})
    /\ UNCHANGED <<store, callVars, history>>

\* The caller is killed: its goroutines vanish, the files stay as they are.
Crash(u) ==
    /\ "crash" \in Faults
    /\ call[u] # "idle"
    /\ Leave(u)

-----------------------------------------------------------------------------
(***************************************************************************)
(* What happens around the callers.                                        *)
(***************************************************************************)
\* A report is collected, once per timestamp, with the metrics or the opt-out
\* payload; which of them, and when, is the matter of Collector.
Collect ==
    /\ collected[now] = None
    /\ \E payload \in Payload :
           /\ local' = AtomicWrite(local, now, payload)
           /\ collected' = AtomicWrite(collected, now, payload)
    /\ UNCHANGED <<uploaded, now, consentFile, sysConfig, evicted,
                   callVars, errs, jobVars, history>>

\* A change of the consent files counts for the attempts in progress.
ConsentChanges ==
    /\ \E state \in BOOLEAN : SetState(state) \/ SetOptOut(state)
    /\ systemDuring' = IF IsOptedOut' = "false"
                       THEN {u \in Uploaders : call[u] # "idle"}
                       ELSE systemDuring
    /\ grantedDuring' = IF SourceConsent' = "true" THEN systemDuring'
                                                  ELSE grantedDuring
    /\ UNCHANGED <<callVars, errs, jobVars, accepted, ackedData, copies,
                   lostAcks>>

TimePasses == Tick /\ UNCHANGED <<callVars, errs, jobVars, history>>

Environment == Collect \/ ConsentChanges \/ TimePasses

CallStep(u) ==
    \/ ReadOptOut(u) \/ ReadConsent(u) \/ List(u) \/ JobsDone(u) \/ Evict(u)
    \/ Return(u) \/ Retry(u)

JobStep(u, t) ==
    \/ Check(u, t) \/ Read(u, t) \/ Stash(u, t) \/ Mark(u, t) \/ Claim(u, t)
    \/ Deliver(u, t) \/ Accepted(u, t) \/ UndoWrite(u, t) \/ UndoRemove(u, t)

JobFault(u, t) == SendFails(u, t) \/ AckLost(u, t) \/ JobFails(u, t)

UploaderNext ==
    \E u \in Uploaders :
        \/ Start(u) \/ CallStep(u) \/ CallFails(u) \/ Crash(u)
        \/ \E t \in Times : JobStep(u, t) \/ JobFault(u, t)

Next == UploaderNext \/ Environment

Spec == Init /\ [][Next]_vars

-----------------------------------------------------------------------------
(***************************************************************************)
(* Properties                                                              *)
(***************************************************************************)
\* However many uploads of the source run at once, crash and retry, the client
\* sees at most one 202 for a report: os.Remove in MarkAsProcessed succeeds for
\* one goroutine only, and UndoProcessed gives the report up again.
AcceptedOnce == \A t \in Times : accepted[t] <= 1

\* The server handles a report twice only if an answer to an earlier request
\* was lost: neither a crash at any point of upload nor a second uploader
\* makes the client send what it has already sent.
DuplicateOnlyAfterLostAck == \A t \in Times : copies[t] <= 1 + lostAcks[t]

\* Metrics are sent only for a report collected with metrics, and by an attempt
\* in which the system was not opted out at some time and the source's consent
\* was granted at that time or later: Upload reads the consent state anew for
\* every attempt of BackoffUpload.  GetState reads two files in turn, so the two
\* need not have held at one moment.
ConsentAtBothPoints ==
    \A u \in Uploaders, t \in Times :
        pc[u][t] \in {"send", "got"} /\ data[u][t] = "full" =>
            collected[t] = "full" /\ u \in grantedDuring

\* Whatever failed sends, changes of consent and crashes do, a file in the local
\* directory holds the bytes that were collected: UndoProcessed restores the
\* stashed report, never the opt-out payload sent in its place.
LocalIsOriginal == \A t \in Times : local[t] \in {None, collected[t]}

\* With one uploader at a time, no crash and no failing call at any point of
\* upload loses a report: it is in one of the directories until a Cleanup
\* removes it.
NoReportLost ==
    \A t \in Times :
        collected[t] # None =>
            local[t] # None \/ uploaded[t] # None \/ t \in evicted

\* A report whose sending succeeded is marked as sent: "Move report first to
\* avoid the situation where the report is sent, but not marked as sent"
\* (Uploader.upload).
SentIsMarked ==
    \A t \in Times :
        accepted[t] > 0 => uploaded[t] # None \/ t \in evicted

\* The file in the uploaded directory records the data that was sent.
RecordIsWhatWasSent ==
    \A t \in Times :
        accepted[t] > 0 /\ uploaded[t] # None => uploaded[t] = ackedData[t]

\* Once every caller has returned, and if none was killed and no file-system
\* call failed, a report is waiting in the local directory without a mark, or
\* it was accepted: races between uploaders leave no report stuck in both
\* directories, where "report has already been uploaded" would block it.
QuiescentStore ==
    (\A u \in Uploaders : call[u] = "idle") =>
        \A t \in Times :
            collected[t] # None =>
                \/ local[t] # None /\ uploaded[t] = None
                \/ local[t] = None /\ accepted[t] = 1

(***************************************************************************)
(* Fairness: a running call goes on; the timer starts uploads again and    *)
(* again; a request that is tried again and again is accepted in the end.  *)
(***************************************************************************)
Fairness ==
    /\ WF_vars(TimePasses)
    /\ \A u \in Uploaders :
        /\ WF_vars(Start(u)) /\ WF_vars(CallStep(u))
        /\ \A t \in Times :
            /\ WF_vars(JobStep(u, t))
            /\ SF_vars(Deliver(u, t))
            /\ SF_vars(Accepted(u, t))

FairSpec == Spec /\ Fairness

\* Every report that can become old enough is accepted in the end, if nobody is
\* killed and no file-system call fails: the undo after a failed send leaves
\* the report where the next Upload picks it up.
EventuallyAccepted ==
    \A t \in Times :
        t + MinAge <= MaxTime =>
            (collected[t] # None ~> accepted[t] > 0)
=============================================================================
