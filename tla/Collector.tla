----------------------------- MODULE Collector -----------------------------
(***************************************************************************)
(* Collecting a report for one source: collector.Write, from the reading   *)
(* of consent to the final Cleanup of the local directory.  A member of    *)
(* Collectors is a caller: the timer's process, a user's, or a program     *)
(* that uses the library.  What is compiled is abstracted to "full"; every *)
(* listing and every change of a directory is a step of its own.           *)
(***************************************************************************)
EXTENDS ReportStore

CONSTANTS Collectors,
          Period,         \* length of a collection period
          CollectModes,   \* the sets of flags a caller may pass
          CollectFaults   \* what may go wrong

CollectFlags == {"force", "dryRun",
                 "given"}   \* Insights compiled earlier are passed to Write

ASSUME CollectorAssumption ==
    /\ Period \in Nat
    /\ CollectModes \subseteq SUBSET CollectFlags
    /\ CollectFaults \subseteq {"crash", "io"}

VARIABLES cpc,        \* where the Write of a collector stands
          cmode,      \* its flags
          started,    \* c.time, the time the collector was created
          stamp,      \* the timestamp its report is filed under
          csnap,      \* the collectors that read consent as given
          cvictims,   \* reports ClearPeriod or Cleanup still has to remove
          \* history
          csystem,    \* the collectors during whose Write the system was, at
                      \* some time, not opted out
          cgranted,   \* of these, the ones during whose Write the source's
                      \* consent was granted at that time or later
          consented,  \* timestamps filed with metrics by such a Write
          misnamed,   \* timestamps filed by a Write created at another time
          again,      \* timestamps filed, unforced, in a period that had one
          forced      \* timestamps filed by a forced Write

collectorState == <<cpc, cmode, started, stamp, csnap, cvictims>>
collectorHistory == <<csystem, cgranted, consented, misnamed, again, forced>>
collectorVars == <<collectorState, collectorHistory>>

CollectorPC == {"idle", "consent", "source", "dupLocal", "dupUploaded",
                "listPeriod", "clear", "write", "list", "cleanup"}

CollectorTypeOK ==
    /\ cpc \in [Collectors -> CollectorPC]
    /\ cmode \in [Collectors -> SUBSET CollectFlags]
    /\ started \in [Collectors -> Times]
    /\ stamp \in [Collectors -> Times]
    /\ csnap \in SUBSET Collectors
    /\ cvictims \in [Collectors -> SUBSET Times]
    /\ csystem \in SUBSET Collectors
    /\ cgranted \in SUBSET Collectors
    /\ consented \in SUBSET Times
    /\ misnamed \in SUBSET Times
    /\ again \in SUBSET Times
    /\ forced \in SUBSET Times

CollectorInit ==
    /\ cpc = [c \in Collectors |-> "idle"]
    /\ cmode = [c \in Collectors |-> {}]
    /\ started = [c \in Collectors |-> 0]
    /\ stamp = [c \in Collectors |-> 0]
    /\ csnap = {}
    /\ cvictims = [c \in Collectors |-> {}]
    /\ csystem = {} /\ cgranted = {} /\ consented = {} /\ misnamed = {}
    /\ again = {} /\ forced = {}

-----------------------------------------------------------------------------
Step(c, p) == cpc' = [cpc EXCEPT ![c] = p]

\* Write returns, and the collector's local state is gone.
Done(c) ==
    /\ Step(c, "idle")
    /\ cmode' = [cmode EXCEPT ![c] = {}]
    /\ started' = [started EXCEPT ![c] = 0]
    /\ stamp' = [stamp EXCEPT ![c] = 0]
    /\ csnap' = csnap \ {c}
    /\ cvictims' = [cvictims EXCEPT ![c] = {}]
    /\ csystem' = csystem \ {c}
    /\ cgranted' = cgranted \ {c}
    /\ UNCHANGED <<consented, misnamed, again, forced>>

\* New and Compile: the report is stamped with the collector's own time, or
\* Write is given Insights that carry an earlier one (a CollectionTime that is
\* not set counts as not given).
Compile(c) ==
    /\ cpc[c] = "idle"
    /\ Step(c, "consent")
    /\ \E m \in CollectModes, t \in Times :
        /\ IF "given" \in m THEN t <= now ELSE t = now
        /\ cmode' = [cmode EXCEPT ![c] = m]
        /\ stamp' = [stamp EXCEPT ![c] = t]
    /\ started' = [started EXCEPT ![c] = now]
    /\ csystem' = IF IsOptedOut = "false" THEN csystem \cup {c} ELSE csystem
    /\ cgranted' = IF IsOptedOut = "false" /\ SourceConsent = "true"
                   THEN cgranted \cup {c} ELSE cgranted
    /\ UNCHANGED <<store, csnap, cvictims, consented, misnamed, again,
                   forced>>

\* The two sides of handleDuplicates.
HandleDuplicates(c) ==
    Step(c, IF "force" \in cmode[c] THEN "listPeriod" ELSE "dupLocal")

\* c.consent.GetState reads the system configuration ...
CheckOptOut(c) ==
    /\ cpc[c] = "consent"
    /\ \/ /\ \/ IsOptedOut = "true" /\ HandleDuplicates(c)
             \/ IsOptedOut = "false" /\ Step(c, "source")
          /\ UNCHANGED <<cmode, started, stamp, csnap, cvictims,
                         collectorHistory>>
       \/ IsOptedOut = "error" /\ Done(c)
    /\ UNCHANGED store

\* ... and, unless it opts out, the file of the source.
ReadState(c) ==
    /\ cpc[c] = "source"
    /\ \/ /\ SourceConsent \in {"true", "false"}
          /\ HandleDuplicates(c)
          /\ csnap' = IF SourceConsent = "true" THEN csnap \cup {c} ELSE csnap
          /\ UNCHANGED <<cmode, started, stamp, cvictims, collectorHistory>>
       \/ SourceConsent \in {"notFound", "error"} /\ Done(c)
    /\ UNCHANGED store

\* A dry run ends where the others begin to write.
Proceed(c) ==
    IF "dryRun" \in cmode[c]
    THEN Done(c)
    ELSE /\ Step(c, "write")
         /\ UNCHANGED <<cmode, started, stamp, csnap, cvictims,
                        collectorHistory>>

\* duplicateExists: the local directory is read first ...
DupLocal(c) ==
    /\ cpc[c] = "dupLocal"
    /\ IF InPeriod(local, stamp[c], Period) # {}
       THEN Done(c)
       ELSE /\ Step(c, "dupUploaded")
            /\ UNCHANGED <<cmode, started, stamp, csnap, cvictims,
                           collectorHistory>>
    /\ UNCHANGED store

\* ... and then the uploaded one.
DupUploaded(c) ==
    /\ cpc[c] = "dupUploaded"
    /\ IF InPeriod(uploaded, stamp[c], Period) # {} THEN Done(c) ELSE Proceed(c)
    /\ UNCHANGED store

\* ClearPeriod lists the reports of the period (and only logs them in a dry
\* run) ...
ListPeriod(c) ==
    /\ cpc[c] = "listPeriod"
    /\ Step(c, "clear")
    /\ cvictims' = [cvictims EXCEPT ![c] =
            IF "dryRun" \in cmode[c] THEN {}
            ELSE InPeriod(local, stamp[c], Period)]
    /\ UNCHANGED <<store, cmode, started, stamp, csnap, collectorHistory>>

\* Removing one listed report; a failure is only logged.
RemoveOne(c) ==
    \E t \in cvictims[c] :
        /\ \A s \in cvictims[c] : t <= s
        /\ cvictims' = [cvictims EXCEPT ![c] = @ \ {t}]
        /\ \/ /\ local[t] # None
              /\ local' = Remove(local, t)
              /\ evicted' = evicted \cup {t}
           \/ /\ local[t] = None \/ "io" \in CollectFaults
              /\ UNCHANGED <<local, evicted>>
        /\ UNCHANGED <<uploaded, now, consentFile, sysConfig, collected,
                       cpc, cmode, started, stamp, csnap, collectorHistory>>

\* ... and removes them one by one.
Clear(c) ==
    /\ cpc[c] = "clear"
    /\ \/ RemoveOne(c)
       \/ cvictims[c] = {} /\ Proceed(c) /\ UNCHANGED store

\* Mutant of WriteReport: the compiled data is written whatever the consent.
WriteCompiled(c) ==
    /\ cpc[c] = "write"
    /\ local' = AtomicWrite(local, stamp[c], "full")
    /\ collected' = AtomicWrite(collected, stamp[c], "full")
    /\ consented' = IF c \in cgranted
                    THEN consented \cup {stamp[c]} ELSE consented
    /\ Step(c, "list")
    /\ UNCHANGED <<uploaded, now, consentFile, sysConfig, evicted, cmode,
                   started, stamp, csnap, cvictims, csystem, cgranted, misnamed,
                   again, forced>>

\* c.write: the compiled data, or the opt-out payload in its place.
WriteReport(c) ==
    LET t == stamp[c]
        payload == Consented(c \in csnap, "full")
    IN  /\ cpc[c] = "write"
        /\ local' = AtomicWrite(local, t, payload)
        /\ collected' = AtomicWrite(collected, t, payload)
        /\ evicted' = evicted \ {t}
        /\ consented' = IF payload = "full" /\ c \in cgranted
                        THEN consented \cup {t} ELSE consented
        /\ misnamed' = IF t # started[c] THEN misnamed \cup {t} ELSE misnamed
        /\ again' = IF "force" \notin cmode[c]
                       /\ \E s \in t - Period .. t :
                              s \in Times /\ collected[s] # None
                    THEN again \cup {t} ELSE again
        /\ forced' = IF "force" \in cmode[c] THEN forced \cup {t} ELSE forced
        /\ Step(c, "list")
        /\ UNCHANGED <<uploaded, now, consentFile, sysConfig,
                       cmode, started, stamp, csnap, cvictims, csystem,
                       cgranted>>

\* report.Cleanup of the local directory: the listing and the sort ...
ListLocal(c) ==
    /\ cpc[c] = "list"
    /\ Step(c, "cleanup")
    /\ cvictims' = [cvictims EXCEPT ![c] = Oldest(local)]
    /\ UNCHANGED <<store, cmode, started, stamp, csnap, collectorHistory>>

\* ... the removals, and Write returns.
CleanupLocal(c) ==
    /\ cpc[c] = "cleanup"
    /\ \/ RemoveOne(c)
       \/ cvictims[c] = {} /\ Done(c) /\ UNCHANGED store

\* Listing a directory, making the directories or the write fails.
CollectFails(c) ==
    /\ "io" \in CollectFaults
    /\ cpc[c] \in {"dupLocal", "dupUploaded", "listPeriod", "write", "list"}
    /\ Done(c)
    /\ UNCHANGED store

\* The collecting process is killed.
CollectorCrash(c) ==
    /\ "crash" \in CollectFaults
    /\ cpc[c] # "idle"
    /\ Done(c)
    /\ UNCHANGED store

CollectorStep(c) ==
    \/ Compile(c) \/ CheckOptOut(c) \/ ReadState(c) \/ DupLocal(c)
    \/ DupUploaded(c) \/ ListPeriod(c) \/ Clear(c) \/ WriteReport(c)
    \/ ListLocal(c) \/ CleanupLocal(c) \/ CollectFails(c) \/ CollectorCrash(c)

CollectorNext == \E c \in Collectors : CollectorStep(c)

-----------------------------------------------------------------------------
\* "By default, Ubuntu Insights will only collect once per collection period":
\* an unforced Write never files a report in a period in which one was
\* collected before, wherever uploads have moved that one meanwhile.
OncePerPeriod == again = {}

\* "If force is true, then Write will overwrite any existing reports for a given
\* period": the reports a forced Write replaced do not come back.
ForceReplaces ==
    \A t \in forced, s \in Times : t - Period <= s /\ s < t => local[s] = None

\* "duplicity checks and the timestamp in the file name is based on the current
\* time, not the collection time of the Insights report passed" (Write).
NamedByCurrentTime == misnamed = {}
=============================================================================
