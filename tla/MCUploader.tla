----------------------------- MODULE MCUploader -----------------------------
(* Small instances of Uploader. *)
EXTENDS Uploader, TLC

Timer == {"retry"}          \* insights upload --retry, as the timer runs it
Forced == {"force"}
DryRun == {"dryRun"}

AllModes == {Timer, Forced, DryRun}
TimerOrForced == {Timer, Forced}
TimerOnly == {Timer}

Symmetry == Permutations(Uploaders)

\* With one timestamp the clock stands still and Cleanup finds nothing to
\* remove: Next without TimePasses and Evict.  ClientPeriod of Client has both.
RaceNext ==
    \/ \E u \in Uploaders :
        \/ Start(u) \/ ReadOptOut(u) \/ ReadConsent(u) \/ List(u) \/ JobsDone(u)
        \/ Return(u) \/ Retry(u) \/ CallFails(u) \/ Crash(u)
        \/ \E t \in Times : JobStep(u, t) \/ JobFault(u, t)
    \/ Collect
    \/ ConsentChanges

RaceSpec == Init /\ [][RaceNext]_vars
RaceFairSpec == RaceSpec /\ Fairness
=============================================================================
