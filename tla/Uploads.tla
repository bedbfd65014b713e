------------------------------ MODULE Uploads ------------------------------
(***************************************************************************)
(* UploadAll and BackoffUpload (insights/internal/uploader/upload.go):     *)
(* one goroutine per source, a bounded number at a time, each of which     *)
(* calls Upload, again after a growing pause while reports could not be    *)
(* sent.  What a single Upload does to the reports is the subject of       *)
(* Uploader.tla; here it is the set of errors it returns.                  *)
(*                                                                         *)
(* Durations are signed integers of Width bits, and the jitter is left     *)
(* out: what is drawn lies below the period that is computed.              *)
(***************************************************************************)
EXTENDS Integers, FiniteSets

CONSTANTS Sources,
          MaxConcurrent,  \* maxConcurrentSources
          Width,          \* bits of a duration, at least two
          Base, MaxRetry, \* baseRetryPeriod and maxRetryPeriod, durations
          MaxAttempts     \* maxAttempts

\* int64(1) << n
Shl[n \in Nat] == IF n = 0 THEN 1 ELSE 2 * Shl[n - 1]

MaxInt == Shl[Width - 1] - 1

\* What Upload may return: no consent file is an early return, an error of
\* another kind may stand alone or beside reports that could not be sent.
Outcomes == {{}, {"noConsent"}, {"other"}, {"send"}, {"send", "other"}}

VARIABLES retry,       \* the argument of UploadAll
          all,         \* "starting", "waiting", "returned"
          at,          \* where the goroutine of a source is
          last,        \* what its last call of Upload returned
          attempts,    \* its counter
          period,      \* the bound of its last pause
          joined       \* uploadError: the sources whose error was joined

uploads == <<retry, all, at, last, attempts, period, joined>>

Running == {s \in Sources : at[s] \in {"upload", "decide", "sleep", "join"}}

UploadsTypeOK ==
    /\ retry \in BOOLEAN
    /\ all \in {"starting", "waiting", "returned"}
    /\ at \in [Sources -> {"queued", "upload", "decide", "sleep", "join", "done"}]
    /\ last \in [Sources -> Outcomes]
    /\ attempts \in [Sources -> 0 .. MaxAttempts + 1]
    /\ period \in [Sources -> 0 .. MaxRetry]
    /\ joined \in SUBSET Sources
    /\ Cardinality(Running) <= MaxConcurrent

UploadsInit ==
    /\ retry \in BOOLEAN
    /\ all = "starting"
    /\ at = [s \in Sources |-> "queued"]
    /\ last = [s \in Sources |-> {}]
    /\ attempts = [s \in Sources |-> 0]
    /\ period = [s \in Sources |-> 0]
    /\ joined = {}

-----------------------------------------------------------------------------
Smaller(a, b) == IF a < b THEN a ELSE b
Wrap(x) == ((x + Shl[Width - 1]) % Shl[Width]) - Shl[Width - 1]
Goto(s, l) == at' = [at EXCEPT ![s] = l]

\* Mutant of Period: the product is taken whether or not it fits.
PeriodUnchecked(n) ==
    Smaller(Wrap(Base * Shl[Smaller(n, Width - 2)]), MaxRetry)

\* Mutant of Period: the attempts have no part in it.
PeriodConstant(n) == Smaller(Base, MaxRetry)

\* The period after n attempts: doubled every time, unless that overflows.
Period(n) ==
    LET factor == Shl[Smaller(n, Width - 2)]
    IN  IF MaxInt \div factor >= Base
          THEN Smaller(Wrap(Base * factor), MaxRetry)
          ELSE MaxRetry

\* UploadAll starts the goroutine of a source when there is a slot.
StartSource(s) ==
    /\ all = "starting"
    /\ at[s] = "queued"
    /\ Cardinality(Running) < Smaller(Cardinality(Sources), MaxConcurrent)
    /\ Goto(s, "upload")
    /\ UNCHANGED <<retry, all, last, attempts, period, joined>>

\* The loop is over: wg.Wait.
StartedAll ==
    /\ all = "starting"
    /\ \A s \in Sources : at[s] # "queued"
    /\ all' = "waiting"
    /\ UNCHANGED <<retry, at, last, attempts, period, joined>>

UploadOnce(s) ==
    /\ at[s] = "upload"
    /\ last' \in {[last EXCEPT ![s] = o] : o \in Outcomes}
    /\ Goto(s, "decide")
    /\ UNCHANGED <<retry, all, attempts, period, joined>>

\* Mutant of Backoff: the attempts are not counted.
BackoffUncounted(s) ==
    /\ at[s] = "decide"
    /\ retry /\ "send" \in last[s]
    /\ period' = [period EXCEPT ![s] = Period(attempts[s])]
    /\ Goto(s, "sleep")
    /\ UNCHANGED <<retry, all, last, attempts, joined>>

\* BackoffUpload: after a send failure the period is computed and the attempt
\* counted; it sleeps, or gives up.
Backoff(s) ==
    /\ at[s] = "decide"
    /\ retry /\ "send" \in last[s]
    /\ period' = [period EXCEPT ![s] = Period(attempts[s])]
    /\ attempts' = [attempts EXCEPT ![s] = @ + 1]
    /\ Goto(s, IF attempts[s] + 1 > MaxAttempts THEN "join" ELSE "sleep")
    /\ UNCHANGED <<retry, all, last, joined>>

Wake(s) ==
    /\ at[s] = "sleep"
    /\ Goto(s, "upload")
    /\ UNCHANGED <<retry, all, last, attempts, period, joined>>

\* The call is over: nothing to retry, or no retry asked for.
Settle(s) ==
    /\ at[s] = "decide"
    /\ ~(retry /\ "send" \in last[s])
    /\ Goto(s, "join")
    /\ UNCHANGED <<retry, all, last, attempts, period, joined>>

\* Mutant of Join: the error replaces those of the other sources.
JoinReplaces(s) ==
    /\ at[s] = "join"
    /\ joined' = IF last[s] \in {{}, {"noConsent"}} THEN joined ELSE {s}
    /\ Goto(s, "done")
    /\ UNCHANGED <<retry, all, last, attempts, period>>

\* A missing consent file is not an error; any other one is joined, under the
\* mutex, and the slot is given back.
Join(s) ==
    /\ at[s] = "join"
    /\ joined' = IF last[s] \in {{}, {"noConsent"}} THEN joined
                 ELSE joined \cup {s}
    /\ Goto(s, "done")
    /\ UNCHANGED <<retry, all, last, attempts, period>>

Return ==
    /\ all = "waiting"
    /\ Running = {}
    /\ all' = "returned"
    /\ UNCHANGED <<retry, at, last, attempts, period, joined>>

\* What errors.Is finds in an error made with fmt.Errorf from others.
Errorf(verb, errs) == IF verb = "%w" THEN errs ELSE {}

\* What it finds in what UploadAll returns.
Found == Errorf("%v", UNION {last[s] : s \in joined})

Source(s) == UploadOnce(s) \/ Backoff(s) \/ Wake(s) \/ Settle(s) \/ Join(s)

UploadsNext ==
    \/ \E s \in Sources : StartSource(s) \/ Source(s)
    \/ StartedAll
    \/ Return

UploadsSpec ==
    /\ UploadsInit
    /\ [][UploadsNext]_uploads
    /\ WF_uploads(StartedAll \/ Return \/ \E s \in Sources : StartSource(s))
    /\ \A s \in Sources : WF_uploads(Source(s))

-----------------------------------------------------------------------------
\* UploadAll returns only when every source has been tried, and its error names
\* exactly the sources whose last try failed for another reason than a missing
\* consent file (upload.go:29-30, 49-59).
EverySourceTold ==
    all = "returned" =>
        /\ \A s \in Sources : at[s] = "done"
        /\ joined = {s \in Sources : last[s] \cap {"send", "other"} # {}}

\* The first pause of a source is drawn below the base period and every later
\* one below twice the bound of the pause before it, or below the maximum when
\* that is less, however often the goroutine retries and although the product
\* may not fit (upload.go:146-153).
PausesGrow ==
    [][\A s \in Sources :
         at[s] = "decide" /\ at'[s] = "sleep" =>
            period'[s] = Smaller(IF period[s] = 0 THEN Base ELSE 2 * period[s],
                                 MaxRetry)]_uploads

\* UploadAll comes to an end although the server never accepts anything
\* (upload.go:156-158).
UploadAllReturns == <>(all = "returned")

\* What UploadAll returns is recognised as a send failure when a report could
\* not be sent (api.go:73-75).
SendFailureFound ==
    all = "returned" /\ (\E s \in Sources : "send" \in last[s])
        => "send" \in Found

=============================================================================
