------------------------------- MODULE Client -------------------------------
(***************************************************************************)
(* The client: collectors and uploaders of one source, users who change    *)
(* consent, and the clock, all on the same files.  Where Uploader has a    *)
(* report appear in one step, here every step of collector.Write           *)
(* interleaves with every step of Upload.                                  *)
(***************************************************************************)
EXTENDS Uploader, Collector

CONSTANT Edits   \* the files users change: "consent", "optOut"

ASSUME ClientAssumption == Edits \subseteq {"consent", "optOut"}

uploaderVars == <<callVars, errs, jobVars, history>>
clientVars == <<vars, collectorVars>>

ClientTypeOK == TypeOK /\ CollectorTypeOK

ClientInit == Init /\ CollectorInit

\* A user changes a file; it counts for the calls in progress on both sides.
UserEdits ==
    /\ Edits # {}
    /\ ConsentChanges
    /\ "consent" \notin Edits => UNCHANGED consentFile
    /\ "optOut" \notin Edits => UNCHANGED sysConfig
    /\ csystem' = IF IsOptedOut' = "false"
                  THEN {c \in Collectors : cpc[c] # "idle"} ELSE csystem
    /\ cgranted' = IF SourceConsent' = "true" THEN csystem' ELSE cgranted
    /\ UNCHANGED <<collectorState, consented, misnamed, again, forced>>

ClientNext ==
    \/ UploaderNext /\ UNCHANGED collectorVars
    \/ CollectorNext /\ UNCHANGED uploaderVars
    \/ UserEdits
    \/ TimePasses /\ UNCHANGED collectorVars

ClientSpec == ClientInit /\ [][ClientNext]_clientVars

-----------------------------------------------------------------------------
\* "It checks for consent both at the time of collection and at the time of
\* upload": metrics are on their way to the server only if, both during a Write
\* that filed them and during the attempt that sends them, the system was not
\* opted out at some time and the source's consent was granted at that time or
\* later, whatever is collected again, undone or withdrawn in between.
EndToEndConsent ==
    \A u \in Uploaders, t \in Times :
        pc[u][t] \in {"send", "got"} /\ data[u][t] = "full" =>
            t \in consented /\ u \in grantedDuring
=============================================================================
