----------------------------- MODULE Retention -----------------------------
(***************************************************************************)
(* The operations on a directory of reports                                *)
(* (insights/internal/report/report.go) in the arithmetic they are written *)
(* in: timestamps are the 2 * Half integers around zero and wrap, as those *)
(* of int64 do with a Half of 2^63; periods are below Half, as those of    *)
(* uint32 are.  ReportStore.tla has the same operations over abstract      *)
(* periods.                                                                *)
(*                                                                         *)
(* A report is its timestamp, since its name is made from it.              *)
(***************************************************************************)
EXTENDS Integers, FiniteSets

CONSTANTS Half,        \* half the number of timestamps
          Periods,     \* periods that are asked for
          MaxKeep,     \* the largest number Cleanup may be told to keep (MaxInt32)
          MaxReports   \* bound: reports in the directory

MinInt == -Half
MaxInt == Half - 1
Times == MinInt .. MaxInt

VARIABLES dir,         \* the reports in the directory
          before,      \* history: what it held before the last operation
          last         \* history: the last operation, its arguments, its result and
                       \* the reports it found and did not get rid of

retention == <<dir, before, last>>

Wrap(x) == ((x + Half) % (2 * Half)) - Half

RetentionTypeOK ==
    /\ dir \in SUBSET Times /\ Cardinality(dir) <= MaxReports
    /\ last.t \in Times /\ last.n \in Nat

RetentionInit ==
    /\ dir = {} /\ before = {}
    /\ last = [op |-> "none", t |-> 0, n |-> 0, result |-> FALSE, left |-> {}]

-----------------------------------------------------------------------------
\* Mutant of GetPeriodStart: the start is not pinned.
GetPeriodStartWraps(t, period) == Wrap(t - period)

\* GetPeriodStart
GetPeriodStart(t, period) ==
    IF period = 0 THEN t
    ELSE IF t < Wrap(MinInt + period) THEN MinInt
    ELSE Wrap(t - period)

\* What walkReports may return: the reports of the window, in the order of the
\* directory, up to the point where it is told to stop.
Walk(from, to, limit) ==
    LET window == {r \in dir : from <= r /\ r <= to}
    IN  {s \in SUBSET window : \/ s = window /\ Cardinality(s) <= limit
                               \/ Cardinality(s) = limit}

Done(op, t, n, result, left) ==
    /\ before' = dir
    /\ last' = [op |-> op, t |-> t, n |-> n, result |-> result, left |-> left]

\* A report is written with the time of its collection, which may be any.
Create(t) ==
    /\ Cardinality(dir) < MaxReports
    /\ dir' = dir \cup {t}
    /\ Done("create", t, 0, TRUE, {})

\* The directory cannot be listed: each of the operations below returns the
\* error.
WalkFails ==
    /\ UNCHANGED dir
    /\ Done("unlisted", 0, 0, FALSE, {})

\* DuplicateExists stops at the first report of the window.
DuplicateExists(t, period) ==
    /\ \E s \in Walk(GetPeriodStart(t, period), t, 1) :
         Done("exists", t, period, s # {}, {})
    /\ UNCHANGED dir

\* The reports of s are removed; failures are logged, and the others go on.
RemoveAll(s, left) == dir' = dir \ (s \ left)

\* Mutant of ClearLimit: one report fewer than the window can hold.
ClearLimitShort(period) == period

\* ClearPeriod stops when it has as many reports as the window has seconds.
ClearLimit(period) == period + 1

\* A dry run leaves all of them.
ClearPeriod(t, period, dryRun) ==
    \E s \in Walk(GetPeriodStart(t, period), t, ClearLimit(period)) :
       \E left \in IF dryRun THEN {s} ELSE SUBSET s :
          /\ RemoveAll(s, left)
          /\ Done("clear", t, period, TRUE, left)

\* The comparator of Cleanup: the sign of the difference.
Before(a, b) == Wrap(a - b) < 0

\* What the sort needs to be a sort.
StrictOrder(reports) ==
    \A a, b, c \in reports : /\ ~(Before(a, b) /\ Before(b, a))
                             /\ Before(a, b) /\ Before(b, c) => Before(a, c)

\* Mutant of Surplus: the first reports are kept and the last removed.
SurplusLast(reports, n) ==
    {s \in SUBSET reports :
        /\ Cardinality(s) = Cardinality(reports) - n
        /\ StrictOrder(reports) => \A gone \in s, kept \in reports \ s : Before(kept, gone)}

\* What may be all but the n last of the sorted reports.  Where the comparator
\* contradicts itself, the order is any.
Surplus(reports, n) ==
    {s \in SUBSET reports :
        /\ Cardinality(s) = Cardinality(reports) - n
        /\ StrictOrder(reports) => \A gone \in s, kept \in reports \ s : Before(gone, kept)}

\* Cleanup refuses a number that is too large and does nothing when there are
\* few enough reports.
Cleanup(n) ==
    \/ /\ n > MaxKeep
       /\ UNCHANGED dir
       /\ Done("cleanup", 0, n, FALSE, {})
    \/ /\ n <= MaxKeep /\ Cardinality(dir) <= n
       /\ UNCHANGED dir
       /\ Done("cleanup", 0, n, TRUE, {})
    \/ /\ n <= MaxKeep /\ Cardinality(dir) > n
       /\ \E s \in Surplus(dir, n) : \E left \in SUBSET s :
             RemoveAll(s, left) /\ Done("cleanup", 0, n, TRUE, left)

RetentionNext ==
    \/ WalkFails
    \/ \E t \in Times : Create(t)
    \/ \E t \in Times, p \in Periods :
          \/ DuplicateExists(t, p)
          \/ \E dryRun \in BOOLEAN : ClearPeriod(t, p, dryRun)
    \/ \E n \in 0 .. MaxKeep + 1 : Cleanup(n)

RetentionSpec == RetentionInit /\ [][RetentionNext]_retention

-----------------------------------------------------------------------------
\* The window [t - period, t] in unbounded arithmetic.
InWindow(r, t, period) == t - period <= r /\ r <= t

\* DuplicateExists finds a report exactly when one lies in the window, also
\* where the window begins before the smallest timestamp (report.go:132-156).
ExistsRight ==
    last.op = "exists" =>
        (last.result <=> \E r \in before : InWindow(r, last.t, last.n))

\* ClearPeriod removes the reports of the window, all of them although it
\* stops early, but for those whose removal failed, and no others
\* (report.go:165-193).
ClearRight ==
    last.op = "clear" =>
        dir = {r \in before : ~InWindow(r, last.t, last.n) \/ r \in last.left}

\* Reports less than half the range apart, as those a clock has stamped are.
Near(reports) == \A a, b \in reports : a - b <= MaxInt

\* Cleanup refuses a number it cannot count to and leaves the directory alone.
\* Otherwise it spares as many reports as it is told to, or as there were, and
\* removes the rest, but for those whose removal failed; and if the reports are
\* near each other, none of the rest is more recent than one it spares
\* (report.go:195-228).
CleanupKeepsNewest ==
    last.op = "cleanup" =>
        LET rest == (before \ dir) \cup last.left
            spared == before \ rest
        IN  IF last.n > MaxKeep THEN dir = before
            ELSE /\ dir = spared \cup last.left
                 /\ Cardinality(spared) =
                      IF Cardinality(before) <= last.n THEN Cardinality(before) ELSE last.n
                 /\ Near(before) => \A gone \in rest, kept \in spared : gone < kept

=============================================================================
