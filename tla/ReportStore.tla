---------------------------- MODULE ReportStore ----------------------------
(***************************************************************************)
(* The files on disk that the client's parts share, for one source:        *)
(*                                                                         *)
(*   local     <cache>/<source>/local/<t>.json      collected reports      *)
(*   uploaded  <cache>/<source>/uploaded/<t>.json   reports marked as sent *)
(*   consentFile, sysConfig   the per-source consent file and the          *)
(*                            system-wide configuration file               *)
(*                                                                         *)
(* A report file is named after a Unix timestamp; its content is           *)
(* abstracted to whether it carries the metrics or the opt-out payload.    *)
(* Every write is a temporary file renamed over the target, so a file is   *)
(* always absent or complete: one step of the model.                       *)
(***************************************************************************)
EXTENDS Integers, FiniteSets

CONSTANTS MaxTime,     \* the clock runs from 0 to MaxTime
          MinAge,      \* seconds before a report may be uploaded
          MaxReports   \* reports each directory keeps

ASSUME StoreAssumption ==
    /\ MaxTime \in Nat
    /\ MinAge \in Nat
    /\ MaxReports \in Nat

VARIABLES local, uploaded, now, consentFile, sysConfig,
          collected,   \* history: what was last collected under a timestamp
          evicted      \* history: reports a retention pass or a forced
                       \* collection removed on purpose

store == <<local, uploaded, now, consentFile, sysConfig, collected, evicted>>

Times == 0 .. MaxTime
None == "none"
Payload == {"full", "optout"}
Dir == [Times -> Payload \cup {None}]

ConsentFiles == {"missing", "granted", "denied", "malformed"}
SysConfigs == {"missing", "optedOut", "optedIn", "malformed"}

StoreTypeOK ==
    /\ local \in Dir
    /\ uploaded \in Dir
    /\ now \in Times
    /\ consentFile \in ConsentFiles
    /\ sysConfig \in SysConfigs
    /\ collected \in Dir
    /\ evicted \in SUBSET Times

-----------------------------------------------------------------------------
\* GetAll: the report files of a directory.
Reports(dir) == {t \in Times : dir[t] # None}

\* Mutant of InPeriod: the start of the window is left out.
InPeriodOpen(dir, t, period) == {s \in Reports(dir) : t - period < s /\ s <= t}

\* The reports of a directory in the window [t - period, t].
InPeriod(dir, t, period) == {s \in Reports(dir) : t - period <= s /\ s <= t}

\* The reports Cleanup removes: all but the MaxReports most recent.
Oldest(dir) ==
    {t \in Reports(dir) :
        Cardinality({s \in Reports(dir) : s > t}) >= MaxReports}

AtomicWrite(dir, t, payload) == [dir EXCEPT ![t] = payload]
Remove(dir, t) == [dir EXCEPT ![t] = None]

-----------------------------------------------------------------------------
\* Manager.IsOptedOut: an absent system configuration means not opted out.
IsOptedOut ==
    CASE sysConfig = "malformed" -> "error"
      [] sysConfig = "optedOut" -> "true"
      [] OTHER -> "false"

\* Reading the per-source consent file.
SourceConsent ==
    CASE consentFile = "granted" -> "true"
      [] consentFile = "denied" -> "false"
      [] consentFile = "missing" -> "notFound"
      [] OTHER -> "error"

\* The bytes written or sent for `payload` when the consent state is `consent`.
Consented(consent, payload) == IF consent THEN payload ELSE "optout"

\* Manager.SetState and Manager.SetOptOut, run by a user at any time.
SetState(state) ==
    /\ consentFile' = IF state THEN "granted" ELSE "denied"
    /\ UNCHANGED <<local, uploaded, now, sysConfig, collected, evicted>>

SetOptOut(state) ==
    /\ sysConfig' = IF state THEN "optedOut" ELSE "optedIn"
    /\ UNCHANGED <<local, uploaded, now, consentFile, collected, evicted>>

Tick ==
    /\ now < MaxTime
    /\ now' = now + 1
    /\ UNCHANGED <<local, uploaded, consentFile, sysConfig, collected, evicted>>
=============================================================================
